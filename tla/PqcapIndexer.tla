---------------------------- MODULE PqcapIndexer ----------------------------
(***************************************************************************)
(* pqcap_embed_index(path): jobs that index the capture at one path in     *)
(* place (EmbedPqcapIndex and what it calls, in                            *)
(* src/pqcap_copy_function.cpp).  A job looks at the footer, reads the     *)
(* packets through read_pqcap_packets, scans the bytes for their           *)
(* locations, writes the metadata to a Parquet file next to the capture,   *)
(* reads both files, truncates the capture and writes it anew.             *)
(*                                                                         *)
(* Nothing locks the path: jobs of two connections interleave at every     *)
(* access to a file.  The write reaches the file part by part, and any     *)
(* part may be followed by steps of other jobs.  A read is one step: a     *)
(* reader that is overtaken by a writer sees no more than a prefix of      *)
(* what the writer writes, because every job writes the capture's own      *)
(* bytes back where they were, or finds fewer bytes than it asked for.     *)
(*                                                                         *)
(* A job stops at any step, with an exception or with its process (Fail),  *)
(* and may fail to notice that the last of its bytes are lost (WriteFile). *)
(* Between jobs another program may put a new capture at the path          *)
(* (Replace).                                                              *)
(***************************************************************************)
EXTENDS PqcapFormat, FiniteSets

CONSTANTS
  Job,           \* calls of pqcap_embed_index on the path
  Concurrent,    \* TRUE: calls overlap; FALSE: one after the other
  Captures,      \* the captures that may be at the path
  ParquetSizes,  \* sizes of the Parquet file
  TornSizes,     \* byte counts inside a block at which part of a write may end
  MaxFaults,     \* bound on the jobs that stop early or lose their last bytes
  MaxReplaced    \* bound on the replacements of the capture

(* A classic capture has no blocks; its packets are its records.           *)
Record == [pkt : Packet, captured : Nat, link : Nat]

CaptureFile == [image : Image, classic : BOOLEAN, records : Seq(Record)]

(* An index that a capture comes with stands at its end, and is whole.     *)
FooterAtEnd(f) ==
  \A i \in DOMAIN f.blocks : f.blocks[i].type = "FOOTER" =>
    /\ f.blocks[i].held <= PQCAP_FOOTER_BLOCK_SIZE
    /\ f.blocks[i].held = PQCAP_FOOTER_BLOCK_SIZE => i = Len(f.blocks) /\ HasFooter(f)

ASSUME IndexerAssumption ==
  /\ Concurrent \in BOOLEAN
  /\ \A c \in Captures :
       /\ c \in CaptureFile
       /\ c.classic => c.image.blocks = <<>> /\ c.image.size >= 24
       /\ ~ c.classic => c.records = <<>>
       /\ InOrder(c.image)
       /\ FooterAtEnd(c.image)
  /\ ParquetSizes \subseteq Nat \ {0}
  /\ TornSizes \subseteq Nat
  /\ MaxFaults \in Nat
  /\ MaxReplaced \in Nat

VARIABLES
  placed,    \* the capture that was last put at the path
  file,      \* the image of the file at the path
  temp,      \* path + ".tmp.meta.parquet": a set of at most one table
  pc,        \* per job: its next step, or how it ended
  rows,      \* per job: the packet rows it fetched
  locs,      \* per job: the locations it scanned
  image,     \* per job: the capture it read, then the one it writes
  written,   \* per job: as much of that image as it has written
  faults,
  replaced,
  spoilt,    \* history: jobs that did not write all of their image to placed
  clashed    \* history: a job used the file while another was writing it

world == <<placed, replaced>>
local == <<rows, locs, image, written>>
marks == <<spoilt, clashed>>
vars  == <<world, file, temp, pc, local, faults, marks>>

Running == {"fetch", "scan", "meta", "read", "parquet", "open", "write", "remove"}
Ended   == {"done", "failed"}

Goto(j, step) == pc' = [pc EXCEPT ![j] = step]

(* Another job is between its fopen "wb" and its fclose.                   *)
Clashes(j) == \E k \in Job \ {j} : pc[k] = "write"

(* j reads the file, or truncates it.                                      *)
Uses(j) ==
  /\ clashed' = (clashed \/ Clashes(j))
  /\ spoilt' = spoilt

(***************************************************************************)
(* read_pqcap_packets on a file: LightPcapNg (external) hands out the      *)
(* packet blocks, one after the other, up to the first block that is not   *)
(* in the file whole.                                                      *)
(***************************************************************************)
Readable(f) ==
  IF placed.classic
  THEN f = placed.image
  ELSE f.blocks # <<>> /\ f.blocks[1].type = "SHB"

ReaderStops(f, pos) ==
  \/ HeaderAt(f, pos).len < 12
  \/ pos + HeaderAt(f, pos).len > f.size

PacketsOf(f) ==
  LET read[pos \in 0..f.size] ==
        IF ReaderStops(f, pos)
        THEN <<>>
        ELSE (IF HeaderAt(f, pos).type \in {"EPB", "SPB"} THEN <<HeaderAt(f, pos)>> ELSE <<>>)
               \o read[pos + HeaderAt(f, pos).len]
  IN  read[0]

ReadPackets(f) ==
  IF placed.classic
  THEN placed.records
  ELSE [n \in 1..Len(PacketsOf(f)) |->
          [pkt      |-> PacketsOf(f)[n].body.pkt,
           captured |-> PacketsOf(f)[n].body.cap,
           link     |-> PacketsOf(f)[n].body.link]]

(***************************************************************************)
(* EmbedPqcapIndex, step by step.                                          *)
(***************************************************************************)
MayStart(j) ==
  /\ pc[j] = "idle"
  /\ Concurrent \/ \A k \in Job : pc[k] \notin Running

(* Mutant: no look at the end of the file.                                 *)
EnsureAnything(j) ==
  /\ MayStart(j)
  /\ Goto(j, "fetch")
  /\ UNCHANGED <<world, file, temp, local, faults, marks>>

(* A read of a file that is truncated after its size was asked for fails;  *)
(* so do the reads of the next steps.                                      *)
EnsurePlainCapture(j) ==
  /\ MayStart(j)
  /\ \/ Goto(j, IF HasFooter(file) THEN "failed" ELSE "fetch")
     \/ Clashes(j) /\ Goto(j, "failed")
  /\ UNCHANGED <<world, file, temp, local, faults, marks>>

FetchPacketFeaturesFromCapture(j) ==
  /\ pc[j] = "fetch"
  /\ Uses(j)
  /\ \/ /\ Readable(file)
        /\ rows' = [rows EXCEPT ![j] = ReadPackets(file)]
        /\ Goto(j, "scan")
     \/ /\ ~ Readable(file) \/ Clashes(j)
        /\ rows' = rows
        /\ Goto(j, "failed")
  /\ UNCHANGED <<world, file, temp, locs, image, written, faults>>

(* Mutant: the counts are not compared.                                    *)
ScanUnchecked(j) ==
  /\ pc[j] = "scan"
  /\ Uses(j)
  /\ locs' = [locs EXCEPT ![j] = ScanPacketLocations(file)]
  /\ Goto(j, "meta")
  /\ UNCHANGED <<world, file, temp, rows, image, written, faults>>

Scan(j) ==
  /\ pc[j] = "scan"
  /\ Uses(j)
  /\ locs' = [locs EXCEPT ![j] = ScanPacketLocations(file)]
  /\ \/ Goto(j, IF Len(rows[j]) # Len(locs'[j]) THEN "failed" ELSE "meta")
     \/ Clashes(j) /\ Goto(j, "failed")
  /\ UNCHANGED <<world, file, temp, rows, image, written, faults>>

DefaultLinktype(packets) ==
  IF packets # <<>> /\ packets[1].link # 0 THEN packets[1].link ELSE 1

(* As many of the rows as have a location: all of them, past Scan.         *)
Metadata(j) ==
  MetadataTable(SubSeq(rows[j], 1, Len(locs[j])), locs[j], DefaultLinktype(rows[j]))

(* Mutant: a Parquet file that is there already is taken to be this job's. *)
WriteMetadataOnce(j) ==
  /\ pc[j] = "meta"
  /\ \E length \in ParquetSizes :
       temp' = IF temp # {} THEN temp
               ELSE {[table |-> Metadata(j), length |-> length]}
  /\ Goto(j, "read")
  /\ UNCHANGED <<world, file, local, faults, marks>>

(* Mutant: the rows are added to those of a Parquet file that is there.    *)
WriteMetadataAppended(j) ==
  /\ pc[j] = "meta"
  /\ \E length \in ParquetSizes :
       temp' = {[table  |-> IF temp = {} THEN Metadata(j)
                            ELSE (CHOOSE p \in temp : TRUE).table \o Metadata(j),
                 length |-> length]}
  /\ Goto(j, "read")
  /\ UNCHANGED <<world, file, local, faults, marks>>

WriteMetadata(j) ==
  /\ pc[j] = "meta"
  /\ \E length \in ParquetSizes :
       temp' = {[table |-> Metadata(j), length |-> length]}
  /\ Goto(j, "read")
  /\ UNCHANGED <<world, file, local, faults, marks>>

ReadCapture(j) ==
  /\ pc[j] = "read"
  /\ Uses(j)
  /\ \/ /\ image' = [image EXCEPT ![j] = file]
        /\ Goto(j, "parquet")
     \/ /\ Clashes(j)
        /\ image' = image
        /\ Goto(j, "failed")
  /\ UNCHANGED <<world, file, temp, rows, locs, written, faults>>

(* The other file of EmbedParquetInPqcap, and the bytes it then builds.    *)
(* No file system holds a file of 2^64 bytes.                              *)
ReadParquet(j) ==
  /\ pc[j] = "parquet"
  /\ \/ /\ temp = {}
        /\ image' = image
        /\ Goto(j, "failed")
     \/ /\ \E p \in temp :
             /\ EmbedParquet(image[j], p.table, p.length).size < U64
             /\ image' = [image EXCEPT ![j] = EmbedParquet(@, p.table, p.length)]
        /\ Goto(j, "open")
  /\ UNCHANGED <<world, file, temp, rows, locs, written, faults, marks>>

(* WriteFileBytes: fopen "wb" truncates; the bytes then reach the file in  *)
(* as many write(2) as the fwrite and the flush of fclose make.            *)
OpenForWrite(j) ==
  /\ pc[j] = "open"
  /\ Uses(j)
  /\ file' = EmptyImage
  /\ written' = [written EXCEPT ![j] = EmptyImage]
  /\ Goto(j, "write")
  /\ UNCHANGED <<world, temp, rows, locs, image, faults>>

(* How many blocks of f start before a position.                           *)
StartBefore(f, pos) == Cardinality({ i \in DOMAIN f.blocks : f.blocks[i].at < pos })

(* b as s has it: the same block, of which s may hold more or fewer bytes. *)
Twins(b, s) == { i \in DOMAIN s : s[i] = [b EXCEPT !.held = s[i].held] }

(* The bytes of b that two writers wrote: as many as the longer one holds. *)
Longer(b, s) ==
  LET longer == { i \in Twins(b, s) : s[i].held > b.held }
  IN  IF longer = {} THEN b ELSE s[CHOOSE i \in longer : TRUE]

CutAt(b, pos) ==
  IF b.at < pos /\ pos < b.at + b.held THEN [b EXCEPT !.held = pos - b.at] ELSE b

(* f after the bytes of g past those of from, which g begins with, have    *)
(* been written where g has them.  If nobody else has touched the file, it *)
(* is g now.  Else of the blocks of f those are left that start before     *)
(* these bytes, up to them or going on in them, and those that start       *)
(* behind them; a block that loses its first bytes is none.                *)
Spliced(f, from, g) ==
  IF f = from
  THEN g
  ELSE LET before == [i \in 1..StartBefore(f, from.size) |->
                        LET b == f.blocks[i]
                        IN  IF b.at + b.held < from.size
                            THEN b
                            ELSE IF Twins(b, g.blocks) = {} THEN CutAt(b, from.size)
                                                            ELSE Longer(b, g.blocks)]
           new    == [i \in 1..(Len(g.blocks) - StartBefore(g, from.size)) |->
                        Longer(g.blocks[StartBefore(g, from.size) + i], f.blocks)]
           behind == SubSeq(f.blocks, StartBefore(f, g.size) + 1, Len(f.blocks))
       IN  [size   |-> IF f.size > g.size THEN f.size ELSE g.size,
            blocks |-> before \o new \o behind]

WritePart(j) ==
  /\ pc[j] = "write"
  /\ \E g \in TornImages(image[j], TornSizes) :
       /\ g.size > written[j].size
       /\ file' = Spliced(file, written[j], g)
       /\ written' = [written EXCEPT ![j] = g]
  /\ UNCHANGED <<world, temp, pc, rows, locs, image, faults, marks>>

Closed(j) ==
  /\ written' = [written EXCEPT ![j] = EmptyImage]
  /\ UNCHANGED <<rows, locs, image>>

(* Mutant: what is written is the index without the packets.               *)
WriteFileIndexOnly(j) ==
  /\ pc[j] = "write"
  /\ LET n == Len(image[j].blocks)
     IN  file' = Spliced(file, written[j], [image[j] EXCEPT !.blocks = SubSeq(@, n - 1, n)])
  /\ Goto(j, "remove")
  /\ UNCHANGED <<world, temp, local, faults, marks>>

(* The rest of the bytes, and the fclose.  Its result is not looked at: if *)
(* the flush fails, what is in the file so far stays, and the call goes on.*)
WriteFile(j) ==
  /\ pc[j] = "write"
  /\ \/ /\ file' = Spliced(file, written[j], image[j])
        /\ UNCHANGED <<faults, spoilt>>
     \/ /\ faults < MaxFaults
        /\ faults' = faults + 1
        /\ spoilt' = spoilt \cup {j}
        /\ file' = file
  /\ Goto(j, "remove")
  /\ Closed(j)
  /\ UNCHANGED <<world, temp, clashed>>

(* std::remove of the Parquet file; the call returns Len(rows[j]).         *)
Remove(j) ==
  /\ pc[j] = "remove"
  /\ temp' = {}
  /\ Goto(j, "done")
  /\ UNCHANGED <<world, file, local, faults, marks>>

(* An exception, or the end of the process.  The Parquet file stays, and   *)
(* so does what the job has written of the capture.                        *)
Fail(j) ==
  /\ pc[j] \in Running
  /\ faults < MaxFaults
  /\ faults' = faults + 1
  /\ spoilt' = IF pc[j] = "write" THEN spoilt \cup {j} ELSE spoilt
  /\ Goto(j, "failed")
  /\ Closed(j)
  /\ UNCHANGED <<world, file, temp, clashed>>

(* Another program puts a capture at the path (external).                  *)
Replace ==
  /\ \A j \in Job : pc[j] \notin Running
  /\ replaced < MaxReplaced
  /\ replaced' = replaced + 1
  /\ placed' \in Captures
  /\ file' = placed'.image
  /\ spoilt' = {}
  /\ UNCHANGED <<temp, pc, local, faults, clashed>>

Init ==
  /\ placed \in Captures
  /\ file = placed.image
  /\ temp = {}
  /\ pc = [j \in Job |-> "idle"]
  /\ rows = [j \in Job |-> <<>>]
  /\ locs = [j \in Job |-> <<>>]
  /\ image = [j \in Job |-> EmptyImage]
  /\ written = [j \in Job |-> EmptyImage]
  /\ faults = 0
  /\ replaced = 0
  /\ spoilt = {}
  /\ clashed = FALSE

EmbedPqcapIndex(j) ==
  \/ EnsurePlainCapture(j)
  \/ FetchPacketFeaturesFromCapture(j)
  \/ Scan(j)
  \/ WriteMetadata(j)
  \/ ReadCapture(j)
  \/ ReadParquet(j)
  \/ OpenForWrite(j)
  \/ WritePart(j)
  \/ WriteFile(j)
  \/ Remove(j)

Next ==
  \/ \E j \in Job : EmbedPqcapIndex(j) \/ Fail(j)
  \/ Replace

Spec == Init /\ [][Next]_vars

(***************************************************************************)
(* Properties of jobs that run one after the other.                        *)
(***************************************************************************)

(* The variables have their types.                                         *)
TypeOK ==
  /\ placed \in Captures
  /\ file \in Image
  /\ temp \subseteq [table : Table, length : ParquetSizes]
  /\ pc \in [Job -> {"idle"} \cup Running \cup Ended]
  /\ \A j \in Job :
       /\ rows[j] \in Seq(Record)
       /\ locs[j] \in Seq([offset : Nat, size : Nat])
       /\ pc[j] \in Running \ {"fetch", "scan"} => Len(rows[j]) = Len(locs[j])
       /\ image[j] \in Image
       /\ written[j] \in Image
  /\ faults \in 0..MaxFaults
  /\ replaced \in 0..MaxReplaced
  /\ spoilt \subseteq Job
  /\ clashed \in BOOLEAN

(* The capture in an indexed file: what stands before the custom block.    *)
PacketPlane(f) ==
  [size   |-> f.blocks[Len(f.blocks) - 1].at,
   blocks |-> SubSeq(f.blocks, 1, Len(f.blocks) - 2)]

(* e is row n of an index, of the packet in block b: its number, how many  *)
(* of its bytes were captured, where they are, and its link type.          *)
IsRow(e, n, b) ==
  /\ e.frame_number = n
  /\ e.captured_length = b.body.cap
  /\ Describes(e, b)

(* t has a row for every packet that a reader finds in f, in their order.  *)
Lists(t, f) ==
  /\ Len(t) = Len(PacketsOf(f))
  /\ \A n \in DOMAIN t : IsRow(t[n], n, PacketsOf(f)[n])

RightlyIndexed(f) ==
  LocatorAccepted(f) =>
    \E t \in PublishedTables(f) :
      PublishedTables(f) = {t} /\ Lists(t, PacketPlane(f))

(* An index that read_pqcap accepts lists the packets of the capture it is *)
(* embedded in: no packet of an earlier capture whose Parquet file a       *)
(* failed job left behind, none that is cut at the end of the file, and a  *)
(* file that a job could not write to the end has no index.                *)
IndexListsPackets == RightlyIndexed(file)

Footers(f) ==
  { i \in DOMAIN f.blocks : f.blocks[i].type = "FOOTER"
                              /\ f.blocks[i].held = PQCAP_FOOTER_BLOCK_SIZE }

(* A capture is indexed once, however often it is asked for and whatever   *)
(* earlier jobs left behind ("capture already contains pqcap metadata").   *)
OneIndex == Cardinality(Footers(file)) <= 1

Leads(s, t) == Len(s) <= Len(t) /\ SubSeq(t, 1, Len(s)) = s

(* When no job is writing the file, all blocks of the capture that was     *)
(* placed are in it, where they were, unless a job stopped while it wrote  *)
(* the file or lost what fclose had to flush.                              *)
CaptureKept ==
  (\A j \in Job : pc[j] # "write") /\ spoilt = {} =>
    Leads(placed.image.blocks, file.blocks)

(* A classic capture with packets is never written to: the scan for        *)
(* PCAP-NG blocks finds fewer of them than the reader.                     *)
ClassicRefused == placed.records # <<>> => file = placed.image

(* When a job is about to return, the file has an index that read_pqcap    *)
(* accepts, with as many rows as the job returns, unless the flush of its  *)
(* fclose failed: the job then returns as many rows, over a cut file.      *)
IndexedOnReturn ==
  \A j \in Job : pc[j] = "remove" /\ j \notin spoilt =>
    /\ LocatorAccepted(file)
    /\ \E t \in PublishedTables(file) : Len(t) = Len(rows[j])

(***************************************************************************)
(* Properties of jobs that overlap.                                        *)
(***************************************************************************)

(* Jobs share the Parquet file, pass each other between their reads and    *)
(* write the capture anew one after the other; still, as long as none has  *)
(* read or truncated the file while another was writing it, an index that  *)
(* read_pqcap accepts lists the packets of the capture that was placed.    *)
IndexNeverForeign ==
  ~ clashed /\ LocatorAccepted(file) =>
    \A t \in PublishedTables(file) : Lists(t, placed.image)

Indexable(c) == ~ HasFooter(c.image) /\ c.records = <<>>

(* Overlapping jobs do not all fail: what makes one fail is another that   *)
(* is writing or has written the index.                                    *)
SomeJobSucceeds ==
  /\ \A j \in Job : pc[j] \in Ended
  /\ Indexable(placed)
  => \E j \in Job : pc[j] = "done"

(***************************************************************************)
(* Captures of which the properties hold for every instance (the theorems  *)
(* of PqcapIndexerProofs ask for them).                                    *)
(***************************************************************************)

(* No packet is of LINKTYPE_NULL, which the table cannot tell from absent. *)
Linked(c) == \A i \in PacketBlocks(c.image) : c.image.blocks[i].body.link # 0

(* Nothing of the capture is cut, and an index that it has is its own.     *)
Intact(c) ==
  /\ c.classic \/ Chained(c.image)
  /\ \A i \in DOMAIN c.image.blocks : c.image.blocks[i].type = "CUSTOM" =>
       Lists(c.image.blocks[i].body.table, c.image)

(* The reader can open it, and its packet blocks have room for a header.   *)
Legible(c) ==
  /\ c.classic \/ (c.image.blocks # <<>> /\ c.image.blocks[1].type = "SHB")
  /\ \A i \in PacketBlocks(c.image) :
       c.image.blocks[i].len >= (IF c.image.blocks[i].type = "EPB" THEN 32 ELSE 16)

(***************************************************************************)
(* What the documentation says, and the code does not do.                  *)
(***************************************************************************)

(* The index is embedded "on an existing capture (no payload round-trip)": *)
(* whenever no job is at work, every packet is still in the file.          *)
PacketsSurvive ==
  (\A j \in Job : pc[j] \notin Running) =>
    \A i \in PacketBlocks(placed.image) : \E k \in PacketBlocks(file) :
      file.blocks[k] = placed.image.blocks[i]

(* The column linktype is the link type of the packet.                     *)
LinkTypesIndexed ==
  \A t \in PublishedTables(file) : \A n \in DOMAIN t :
    \A i \in PacketBlocks(file) :
      t[n].offset = DataAt(file.blocks[i]) => t[n].linktype = file.blocks[i].body.link
==============================================================================
