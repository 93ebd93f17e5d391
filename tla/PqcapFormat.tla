----------------------------- MODULE PqcapFormat -----------------------------
(***************************************************************************)
(* The layout of a PQCAP capture, as src/pqcap_copy_function.cpp writes it *)
(* and src/pqcap_footer.cpp and src/pqcap_reader_extension.cpp read it:    *)
(* PCAP-NG blocks, then one custom block that carries a Parquet table (the *)
(* metadata plane), then a 44-byte footer block that locates the table.    *)
(*                                                                         *)
(* An image of a file is [size, blocks].  A block records where it starts  *)
(* (at), how many of its bytes are in the file (held), the value of its    *)
(* total-length field (len) and what its body says.  held and len differ   *)
(* when a write was cut short, and when the 32-bit field cannot hold the   *)
(* length.  Byte arithmetic is the code's; payload bytes are not modelled. *)
(***************************************************************************)
EXTENDS Integers, Sequences

CONSTANTS
  U32,     \* 2^32, the modulus of a block's total-length field
  U64,     \* 2^64, the modulus of a footer's offset and length fields
  Packet   \* identities of packets

ASSUME WidthAssumption ==
  /\ U32 \in Nat
  /\ U64 \in Nat
  /\ 44 < U32
  /\ U32 <= U64

PQCAP_FOOTER_BLOCK_SIZE == 44
PQCAP_ENTERPRISE_ID     == "QXIP"
PQCAP_MAGIC             == "PQCAPMETA"
PQCAP_FOOTER_MAGIC      == "PQCAPFTR"

EPB_DATA == 28   \* of an enhanced packet block, before the packet's bytes
SPB_DATA == 12   \* of a simple packet block
META_DATA == 33  \* 8 + 25: of the custom block, before the Parquet bytes

(***************************************************************************)
(* Blocks, index tables and images.                                        *)
(***************************************************************************)
TableEntry == [frame_number : Nat, pkt : Packet, captured_length : Nat,
               offset : Nat, size : Nat, linktype : Nat]

Table == Seq(TableEntry)

BlockOf(type, body) ==
  [type : {type}, at : Nat, held : Nat, len : Nat, body : body]

Block ==
       BlockOf("SHB", [section : {TRUE}])
  \cup BlockOf("IDB", [link : Nat])
  \cup BlockOf("EPB", [pkt : Packet, cap : Nat, link : Nat, ord : Nat])
  \cup BlockOf("SPB", [pkt : Packet, cap : Nat, link : Nat, ord : Nat])
  \cup BlockOf("CUSTOM", [enterprise : {PQCAP_ENTERPRISE_ID}, magic : {PQCAP_MAGIC},
                          version : Nat, length : Nat, table : Table])
  \cup BlockOf("FOOTER", [enterprise : {PQCAP_ENTERPRISE_ID}, magic : {PQCAP_FOOTER_MAGIC},
                          version : Nat, offset : Nat, length : Nat])

Image == [size : Nat, blocks : Seq(Block)]

PadTo4(n) == n + ((4 - (n % 4)) % 4)

EmptyImage == [size |-> 0, blocks |-> <<>>]

AppendBlock(f, b) ==
  [size   |-> f.size + b.held,
   blocks |-> Append(f.blocks, [b EXCEPT !.at = f.size])]

(* Blocks of a file are in the file, one after the other.                  *)
InFile(f) == \A i \in DOMAIN f.blocks : f.blocks[i].at + f.blocks[i].held <= f.size

InOrder(f) ==
  /\ InFile(f)
  /\ \A i, k \in DOMAIN f.blocks :
       i < k => f.blocks[i].at + f.blocks[i].held <= f.blocks[k].at

(* Every block is in the file whole, and there is nothing between them.     *)
Chained(f) ==
  /\ \A i \in DOMAIN f.blocks :
       /\ f.blocks[i].held = f.blocks[i].len /\ f.blocks[i].len >= 12
       /\ f.blocks[i].at = IF i = 1 THEN 0 ELSE f.blocks[i - 1].at + f.blocks[i - 1].len
       /\ i = Len(f.blocks) => f.size = f.blocks[i].at + f.blocks[i].len
  /\ f.blocks = <<>> => f.size = 0

(* The first k blocks of f, the last of them cut after h bytes: what a     *)
(* write of f that stops part of the way leaves behind.                    *)
TornAfter(f, k, h) ==
  [size   |-> f.blocks[k].at + h,
   blocks |-> Append(SubSeq(f.blocks, 1, k - 1), [f.blocks[k] EXCEPT !.held = h])]

(* Every proper prefix of f that ends inside a block, after one of the     *)
(* byte counts in cuts, or between two blocks.                             *)
TornImages(f, cuts) ==
  {EmptyImage} \cup
  { TornAfter(f, k, f.blocks[k].held) : k \in 1..(Len(f.blocks) - 1) } \cup
  UNION { { TornAfter(f, k, h) : h \in cuts \cap 1..(f.blocks[k].held - 1) }
            : k \in 1..Len(f.blocks) }

(***************************************************************************)
(* ScanPacketLocations: a walk over the bytes of a capture that trusts     *)
(* each block's total length, and one location per packet block.  A        *)
(* position whose 8 header bytes are not those of a block (the walk has    *)
(* left the block boundaries) reads as a length of 0 and ends the walk.    *)
(***************************************************************************)
OpaqueHeader == [type |-> "OPAQUE", len |-> 0]

HeaderAt(f, pos) ==
  IF \E i \in DOMAIN f.blocks : f.blocks[i].at = pos /\ f.blocks[i].held >= 8
  THEN f.blocks[CHOOSE i \in DOMAIN f.blocks :
                  f.blocks[i].at = pos /\ f.blocks[i].held >= 8]
  ELSE OpaqueHeader

(* Mutant: a block that ends with the file is taken to be cut.             *)
ScanStopsEarly(f, pos) ==
  \/ pos + 12 > f.size
  \/ HeaderAt(f, pos).len < 12
  \/ pos + HeaderAt(f, pos).len >= f.size

ScanStops(f, pos) ==
  \/ pos + 12 > f.size
  \/ HeaderAt(f, pos).len < 12
  \/ pos + HeaderAt(f, pos).len > f.size

LocationsAt(b, pos) ==
  IF b.type = "EPB" /\ b.len >= 32
  THEN <<[offset |-> pos + EPB_DATA, size |-> b.body.cap]>>
  ELSE IF b.type = "SPB" /\ b.len >= 16
       THEN <<[offset |-> pos + SPB_DATA, size |-> b.body.cap]>>
       ELSE <<>>

ScanPacketLocations(f) ==
  LET scan[pos \in 0..f.size] ==
        IF ScanStops(f, pos)
        THEN <<>>
        ELSE LocationsAt(HeaderAt(f, pos), pos)
               \o scan[pos + HeaderAt(f, pos).len]
  IN  scan[0]

(***************************************************************************)
(* WriteMetadataParquetViaSQL: one table row per packet row, joined with   *)
(* the location of the same index.  A link type of 0 stands for "absent".  *)
(***************************************************************************)
EffectiveLink(link, default) == IF link # 0 THEN link ELSE default

MetadataTable(rows, locs, default) ==
  [i \in 1..Len(rows) |->
     [frame_number    |-> i,
      pkt             |-> rows[i].pkt,
      captured_length |-> IF rows[i].captured # 0 THEN rows[i].captured
                                                  ELSE locs[i].size,
      offset          |-> locs[i].offset,
      size            |-> locs[i].size,
      linktype        |-> EffectiveLink(rows[i].link, default)]]

(***************************************************************************)
(* EmbedParquetInPqcap, as a function from the capture that was read to    *)
(* the capture that is written.                                            *)
(***************************************************************************)
CustomBodySize(length) == PadTo4(4 + 9 + 2 + 2 + 8 + length)

CustomBlock(table, length) ==
  [type |-> "CUSTOM", at |-> 0,
   held |-> 12 + CustomBodySize(length),
   len  |-> (12 + CustomBodySize(length)) % U32,
   body |-> [enterprise |-> PQCAP_ENTERPRISE_ID, magic |-> PQCAP_MAGIC,
             version |-> 1, length |-> length, table |-> table]]

FooterBlock(offset, length) ==
  [type |-> "FOOTER", at |-> 0,
   held |-> 12 + 32,
   len  |-> 12 + 32,
   body |-> [enterprise |-> PQCAP_ENTERPRISE_ID, magic |-> PQCAP_FOOTER_MAGIC,
             version |-> 1, offset |-> offset, length |-> length]]

ParquetAbsOffset(f) == (f.size + META_DATA) % U64

EmbedParquet(f, table, length) ==
  AppendBlock(AppendBlock(f, CustomBlock(table, length)),
              FooterBlock(ParquetAbsOffset(f), length % U64))

(***************************************************************************)
(* The reader's side: ParseFooterLocator on the last 44 bytes, then the    *)
(* checks of ParsePqcapMetadataLocation, with the wrap of its 64-bit sum.  *)
(***************************************************************************)
ParseFooterLocator(b) ==
  /\ b.held = PQCAP_FOOTER_BLOCK_SIZE
  /\ b.type = "FOOTER"
  /\ b.len = PQCAP_FOOTER_BLOCK_SIZE
  /\ b.body.enterprise = PQCAP_ENTERPRISE_ID
  /\ b.body.magic = PQCAP_FOOTER_MAGIC
  /\ b.body.version <= 1

TailBlock(f) == f.blocks[Len(f.blocks)]

HasFooter(f) ==
  /\ f.size >= PQCAP_FOOTER_BLOCK_SIZE
  /\ f.blocks # <<>>
  /\ TailBlock(f).at = f.size - PQCAP_FOOTER_BLOCK_SIZE
  /\ ParseFooterLocator(TailBlock(f))

(* Mutant: the sum is not checked for overflow.                            *)
RangeAcceptedUnchecked(offset, length, file_size) ==
  /\ length # 0
  /\ ~ ((offset + length) % U64 > file_size)

RangeAccepted(offset, length, file_size) ==
  /\ length # 0
  /\ ~ ((offset + length) % U64 < offset)
  /\ ~ ((offset + length) % U64 > file_size)

LocatorAccepted(f) ==
  /\ HasFooter(f)
  /\ RangeAccepted(TailBlock(f).body.offset, TailBlock(f).body.length, f.size)

(* The tables that the byte range [offset, offset + length) of f holds     *)
(* whole: one if the range is the Parquet payload of a custom block, none  *)
(* if it is anything else (read_parquet then reports an error).            *)
TablesAt(f, offset, length) ==
  { f.blocks[i].body.table :
      i \in { j \in DOMAIN f.blocks :
                /\ f.blocks[j].type = "CUSTOM"
                /\ f.blocks[j].at + META_DATA = offset
                /\ f.blocks[j].body.length = length
                /\ f.blocks[j].held 
                     >= META_DATA + length } }

(* What read_pqcap(f) returns: {table}, or {} when it fails.               *)
PublishedTables(f) ==
  IF LocatorAccepted(f)
  THEN TablesAt(f, TailBlock(f).body.offset, TailBlock(f).body.length)
  ELSE {}

(***************************************************************************)
(* What an index promises of the packets of an image.                      *)
(***************************************************************************)
PacketBlocks(f) == { i \in DOMAIN f.blocks : f.blocks[i].type \in {"EPB", "SPB"} }

DataAt(b) == b.at + (IF b.type = "EPB" THEN EPB_DATA ELSE SPB_DATA)

Describes(entry, b) ==
  /\ entry.offset = DataAt(b)
  /\ entry.size = b.body.cap
  /\ entry.pkt = b.body.pkt
  /\ entry.linktype = b.body.link

(* t lists the packet blocks of f: each once, none left out, in file order. *)
DescribesPackets(t, f) ==
  /\ \A n \in DOMAIN t : \E i \in PacketBlocks(f) : Describes(t[n], f.blocks[i])
  /\ \A i \in PacketBlocks(f) : \E n \in DOMAIN t : Describes(t[n], f.blocks[i])
  /\ \A m, n \in DOMAIN t : m < n => t[m].offset < t[n].offset
==============================================================================
