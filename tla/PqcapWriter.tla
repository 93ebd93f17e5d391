----------------------------- MODULE PqcapWriter -----------------------------
(***************************************************************************)
(* COPY ... TO '...' (FORMAT pcapng): bind, open, concurrent calls of the  *)
(* sink under one mutex, and a finalizer that scans the capture it has     *)
(* just closed, writes the packet metadata to a Parquet file and embeds it *)
(* in the capture (src/pqcap_copy_function.cpp).                           *)
(*                                                                         *)
(* LightPcapNg and DuckDB are external.  A write that fails is not noticed *)
(* by the sink, which ignores what light_write_packet did, nor when the    *)
(* capture is closed.  The steps of the finalizer report theirs, except    *)
(* the last: fclose flushes what stdio has buffered, and its result is     *)
(* ignored.  MaxFaults bounds the failures of a run.                       *)
(***************************************************************************)
EXTENDS PqcapFormat

CONSTANTS
  U16,             \* 2^16
  Thread,          \* the threads that call the sink
  MainThread,      \* the thread that calls the finalizer
  NoThread,        \* the owner of a free mutex
  Chunk,           \* the data chunks of the query
  NoChunk,
  RowsOf,          \* the rows of each chunk, a sequence of InputRow
  CopyStatements,  \* the option lists and column names to bind
  SHBSize,         \* bytes of the section header LightPcapNg writes
  TornSizes,       \* byte counts at which a failing write may stop
  Misreads,        \* numbers that bytes not meant as a length may show
  ParquetSizes,    \* sizes of the Parquet file
  MaxFaults        \* bound on the failing writes of a run

(* data_link and captured_length are 0 for an absent column and for NULL,  *)
(* which the sink does not tell from 0.  ok: every cell it parses is legal.*)
(* A BLOB of DuckDB is shorter than 4 GiB, and its packet block too.       *)
InputRow ==
  [pkt : Packet, ok : BOOLEAN, payload : 0..(U32 - 36), data_link : Nat,
   captured_length : Nat]

CopyStatement ==
  [mode : STRING, linktype : Nat, known : BOOLEAN, columns : SUBSET STRING]

ASSUME WriterAssumption ==
  /\ U16 \in Nat \ {0}
  /\ MainThread \notin Thread
  /\ NoThread \notin Thread \cup {MainThread}
  /\ NoChunk \notin Chunk
  /\ RowsOf \in [Chunk -> Seq(InputRow)]
  /\ CopyStatements \subseteq CopyStatement
  /\ SHBSize \in 12..(U32 - 1)
  /\ TornSizes \subseteq Nat \ {0}
  /\ Misreads \subseteq Nat /\ Misreads # {}
  /\ ParquetSizes \subseteq Nat \ {0}
  /\ MaxFaults \in Nat

VARIABLES
  stage,    \* how far the COPY statement is
  input,    \* the chunks that the query has for this COPY
  cfg,      \* PqcapCopyBindData: [mode, linktype]
  lock,     \* PqcapCopyGlobalState.lock: the thread that holds it
  pc,       \* per thread: "idle", "wait" for the lock, "write" or "push" a row
  chunk,    \* per thread: the chunk its call of the sink was given
  r,        \* per thread: the loop variable of the sink
  queue,    \* the chunks that have not been handed to the sink
  writer,   \* PqcapCopyGlobalState.writer: "none", "open", "closed", "leaked"
  file,     \* the image of the capture
  moved,    \* the file is no longer at output_path: it lost its tmp_ prefix
  path,     \* the finalizer's capture_path: "none" yet, "tmp_" or "final"
  overtaken,\* auxiliary: the file was renamed when path was "tmp_" already
  stray,    \* the file that the finalizer has made at output_path since then
  unflushed,\* auxiliary: an fclose of the index failed, which nobody noticed
  rows,     \* PqcapCopyGlobalState.rows
  pos,      \* ScanPacketLocations: the position of its loop
  locs,     \* ScanPacketLocations: the locations it has found
  parquet,  \* the temporary Parquet file: a set of at most one table
  faults    \* failing writes so far

statement == <<input, cfg>>
calls     == <<pc, chunk, r, queue>>
naming    == <<moved, path, overtaken>>
placing   == <<naming, stray, unflushed>>
capture   == <<file, placing>>
copyVars  == <<lock, calls, rows>>
scanVars  == <<pos, locs>>
vars == <<stage, statement, copyVars, writer, capture, scanVars, parquet, faults>>

(***************************************************************************)
(* Blocks the writer appends.  body.ord is auxiliary: the number of rows   *)
(* in the row buffer, this one included, when the block was written.       *)
(***************************************************************************)
SectionBlock ==
  [type |-> "SHB", at |-> 0, held |-> SHBSize, len |-> SHBSize % U32,
   body |-> [section |-> TRUE]]

InterfaceBlock(link) ==
  [type |-> "IDB", at |-> 0, held |-> 20, len |-> 20 % U32, body |-> [link |-> link]]

PacketBlock(packet, size, link, ord) ==
  [type |-> "EPB", at |-> 0, held |-> 32 + PadTo4(size),
   len |-> (32 + PadTo4(size)) % U32,
   body |-> [pkt |-> packet, cap |-> size % U32, link |-> link, ord |-> ord]]

Preamble(link) ==
  AppendBlock(AppendBlock(EmptyImage, SectionBlock), InterfaceBlock(link))

(* LightPcapNg describes a link type once, before its first packet.        *)
WithInterface(f, link) ==
  IF \E i \in DOMAIN f.blocks : f.blocks[i].type = "IDB"
                                  /\ f.blocks[i].body.link = link
  THEN f
  ELSE AppendBlock(f, InterfaceBlock(link))

(***************************************************************************)
(* PcapngWriteBind and PcapngWriteInitializeGlobal.                        *)
(***************************************************************************)
RequiredColumns == {"timestamp_micros", "orig_len", "payload"}

BindAccepts(s) ==
  /\ s.known
  /\ s.mode \in {"pcapng", "pqcap"}
  /\ s.linktype < U16
  /\ RequiredColumns \subseteq s.columns

Bind(s) ==
  /\ stage = "bind"
  /\ IF BindAccepts(s)
     THEN /\ stage' = "open"
          /\ cfg' = [mode |-> s.mode, linktype |-> s.linktype]
     ELSE /\ stage' = "failed"
          /\ cfg' = cfg
  /\ UNCHANGED <<input, copyVars, writer, capture, scanVars, parquet, faults>>

InitializeGlobal ==
  /\ stage = "open"
  /\ stage' = "copy"
  /\ writer' = "open"
  /\ file' = Preamble(cfg.linktype)
  /\ UNCHANGED <<statement, copyVars, placing, scanVars, parquet, faults>>

InitializeGlobalFails ==
  /\ stage = "open"
  /\ faults < MaxFaults
  /\ faults' = faults + 1
  /\ stage' = "failed"
  /\ UNCHANGED <<statement, copyVars, writer, capture, scanVars, parquet>>

(***************************************************************************)
(* PcapngWriteSink: one call per chunk, the lock_guard held for all of it. *)
(***************************************************************************)
Row(t) == RowsOf[chunk[t]][r[t]]

(* Mutant: the cast to uint16_t is missing.                                *)
DataLinkUncast(row) == row.data_link

DataLink(row) == row.data_link % U16

CapturedLength(row) ==
  IF row.captured_length # 0 THEN row.captured_length ELSE row.payload

(* The row that the sink buffers for the metadata plane (PacketRowData).   *)
Buffered(row) ==
  [pkt |-> row.pkt, captured |-> CapturedLength(row), link |-> DataLink(row)]

LoopEnds(t) == r[t] > Len(RowsOf[chunk[t]])

SinkCall(t, c) ==
  /\ stage = "copy"
  /\ pc[t] = "idle"
  /\ c \in queue
  /\ queue' = queue \ {c}
  /\ chunk' = [chunk EXCEPT ![t] = c]
  /\ r' = [r EXCEPT ![t] = 1]
  /\ pc' = [pc EXCEPT ![t] = "wait"]
  /\ UNCHANGED <<stage, statement, lock, writer, capture, rows, scanVars, parquet, faults>>

(* Mutant: the sink without its lock_guard.                                *)
AcquireUnguarded(t) ==
  /\ pc[t] = "wait"
  /\ pc' = [pc EXCEPT ![t] = "write"]
  /\ UNCHANGED <<stage, statement, lock, chunk, r, queue, writer, capture, rows, scanVars, parquet, faults>>

Acquire(t) ==
  /\ pc[t] = "wait"
  /\ lock = NoThread
  /\ lock' = t
  /\ pc' = [pc EXCEPT ![t] = "write"]
  /\ UNCHANGED <<stage, statement, chunk, r, queue, writer, capture, rows, scanVars, parquet, faults>>

(* Mutant: the exception leaves the mutex locked.                          *)
SinkRejectLocked(t) ==
  /\ pc[t] = "write"
  /\ ~ LoopEnds(t)
  /\ ~ Row(t).ok
  /\ pc' = [pc EXCEPT ![t] = "idle"]
  /\ chunk' = [chunk EXCEPT ![t] = NoChunk]
  /\ stage' = "abort"
  /\ UNCHANGED <<statement, lock, r, queue, writer, capture, rows, scanVars, parquet, faults>>

(* Mutant: an illegal row is skipped instead of refused.                   *)
SinkRejectSkips(t) ==
  /\ pc[t] = "write"
  /\ ~ LoopEnds(t)
  /\ ~ Row(t).ok
  /\ r' = [r EXCEPT ![t] = @ + 1]
  /\ UNCHANGED <<stage, statement, lock, pc, chunk, queue, writer, capture, rows, scanVars, parquet, faults>>

(* ParseUInt64 throws, or the payload is NULL: the row and the rest of the *)
(* chunk are dropped, and the exception unlocks.                           *)
SinkReject(t) ==
  /\ pc[t] = "write"
  /\ ~ LoopEnds(t)
  /\ ~ Row(t).ok
  /\ pc' = [pc EXCEPT ![t] = "idle"]
  /\ chunk' = [chunk EXCEPT ![t] = NoChunk]
  /\ lock' = NoThread
  /\ stage' = "abort"
  /\ UNCHANGED <<statement, r, queue, writer, capture, rows, scanVars, parquet, faults>>

(* What light_write_packet makes of the file, and what is left of that     *)
(* when the write fails.                                                   *)
Written(f, row, link, ord) ==
  AppendBlock(WithInterface(f, link), PacketBlock(row.pkt, row.payload, link, ord))

(* A packet block of which h bytes are in the file.  The captured length   *)
(* is in bytes 20 to 23: if they are missing, the scan reads a number      *)
(* there that is made of the bytes of whatever is written next.            *)
CutPacketBlock(packet, size, link, ord, h, n) ==
  [type |-> "EPB", at |-> 0, held |-> h, len |-> (32 + PadTo4(size)) % U32,
   body |-> [pkt |-> packet, cap |-> IF h < 24 THEN n ELSE size % U32,
             link |-> link, ord |-> ord]]

PartlyWritten(f, row, link, ord) ==
  LET whole == PacketBlock(row.pkt, row.payload, link, ord)
  IN  {f, WithInterface(f, link)} \cup
      { AppendBlock(WithInterface(f, link),
                    CutPacketBlock(row.pkt, row.payload, link, ord, h, n)) :
          h \in { k \in TornSizes : k < whole.held }, n \in Misreads }

(* Mutant: every packet is written under the link type of the statement.   *)
WriteBlockOneLink(t) ==
  /\ pc[t] = "write"
  /\ ~ LoopEnds(t)
  /\ Row(t).ok
  /\ file' = Written(file, Row(t), cfg.linktype, Len(rows) + 1)
  /\ pc' = [pc EXCEPT ![t] = "push"]
  /\ UNCHANGED <<stage, statement, lock, chunk, r, queue, writer, placing, rows, scanVars, parquet, faults>>

WriteBlock(t) ==
  /\ pc[t] = "write"
  /\ ~ LoopEnds(t)
  /\ Row(t).ok
  /\ LET link == EffectiveLink(DataLink(Row(t)), cfg.linktype)
         ord  == Len(rows) + 1
     IN  \/ /\ file' = Written(file, Row(t), link, ord)
            /\ UNCHANGED faults
         \/ /\ faults < MaxFaults
            /\ faults' = faults + 1
            /\ file' \in PartlyWritten(file, Row(t), link, ord)
  /\ pc' = [pc EXCEPT ![t] = "push"]
  /\ UNCHANGED <<stage, statement, lock, chunk, r, queue, writer, placing, rows, scanVars, parquet>>

(* Mutant: the lock is held for a row, not for a chunk.                    *)
PushRowUnlocks(t) ==
  /\ pc[t] = "push"
  /\ rows' = Append(rows, Buffered(Row(t)))
  /\ r' = [r EXCEPT ![t] = @ + 1]
  /\ pc' = [pc EXCEPT ![t] = "wait"]
  /\ lock' = NoThread
  /\ UNCHANGED <<stage, statement, chunk, queue, writer, capture, scanVars, parquet, faults>>

PushRow(t) ==
  /\ pc[t] = "push"
  /\ rows' = Append(rows, Buffered(Row(t)))
  /\ r' = [r EXCEPT ![t] = @ + 1]
  /\ pc' = [pc EXCEPT ![t] = "write"]
  /\ UNCHANGED <<stage, statement, lock, chunk, queue, writer, capture, scanVars, parquet, faults>>

SinkReturn(t) ==
  /\ pc[t] = "write"
  /\ LoopEnds(t)
  /\ pc' = [pc EXCEPT ![t] = "idle"]
  /\ chunk' = [chunk EXCEPT ![t] = NoChunk]
  /\ lock' = NoThread
  /\ UNCHANGED <<stage, statement, r, queue, writer, capture, rows, scanVars, parquet, faults>>

(* After an exception DuckDB destroys the global state once every call has *)
(* returned; PqcapCopyGlobalState has no destructor, so nothing closes the *)
(* writer.                                                                 *)
Destroy ==
  /\ stage = "abort"
  /\ \A t \in Thread : pc[t] = "idle"
  /\ stage' = "failed"
  /\ writer' = "leaked"
  /\ UNCHANGED <<statement, copyVars, capture, scanVars, parquet, faults>>

(***************************************************************************)
(* PcapngWriteFinalize, which holds the lock throughout.                   *)
(***************************************************************************)
Fail ==
  /\ stage' = "failed"
  /\ lock' = NoThread

(* light_pcapng_close returns nothing: whatever it had buffered may be     *)
(* missing from the end of the file.                                       *)
Close ==
  /\ stage = "copy"
  /\ queue = {}
  /\ \A t \in Thread : pc[t] = "idle"
  /\ lock = NoThread
  /\ writer' = "closed"
  /\ \/ UNCHANGED <<file, faults>>
     \/ /\ faults < MaxFaults
        /\ faults' = faults + 1
        /\ file' \in TornImages(file, TornSizes)
  /\ IF cfg.mode # "pqcap"
     THEN stage' = "done" /\ UNCHANGED lock
     ELSE stage' = "resolve" /\ lock' = MainThread
  /\ UNCHANGED <<statement, calls, placing, rows, scanVars, parquet>>

(* DuckDB renames the tmp_ file it had the writer produce (external): at   *)
(* any time after the close, between any two steps of the finalizer too.   *)
MoveTmpFile ==
  /\ writer = "closed"
  /\ stage # "failed"
  /\ ~ moved
  /\ moved' = TRUE
  /\ overtaken' = (path = "tmp_")
  /\ UNCHANGED <<stage, statement, copyVars, writer, file, path, stray, unflushed,
                 scanVars, parquet, faults>>

FileExists(name) == name = (IF moved THEN "final" ELSE "tmp_")

(* Mutant: no look at the name without the prefix.                         *)
ResolveOutputPathOnly == "tmp_"

(* output_path, else the name without its tmp_ prefix.                     *)
ResolveCapturePath == IF FileExists("tmp_") THEN "tmp_" ELSE "final"

Resolve ==
  /\ stage = "resolve"
  /\ path' = ResolveCapturePath
  /\ stage' = "scan"
  /\ UNCHANGED <<statement, copyVars, writer, file, moved, overtaken, stray, unflushed,
                 scanVars, parquet, faults>>

(* fopen of the resolved name, which need not be there any more.           *)
OpenForScan ==
  /\ stage = "scan"
  /\ IF FileExists(path)
     THEN stage' = "walk" /\ UNCHANGED lock
     ELSE Fail
  /\ pos' = 0
  /\ locs' = <<>>
  /\ UNCHANGED <<statement, calls, writer, capture, rows, parquet, faults>>

(* One iteration of the loop of ScanPacketLocations, and its end.          *)
ScanStep ==
  /\ stage = "walk"
  /\ ~ ScanStops(file, pos)
  /\ locs' = locs \o LocationsAt(HeaderAt(file, pos), pos)
  /\ pos' = pos + HeaderAt(file, pos).len
  /\ UNCHANGED <<stage, statement, copyVars, writer, capture, parquet, faults>>

ScanEnd ==
  /\ stage = "walk"
  /\ ScanStops(file, pos)
  /\ stage' = "meta"
  /\ UNCHANGED <<statement, copyVars, writer, capture, scanVars, parquet, faults>>

CountsMatch == Len(rows) = Len(locs)

(* Mutant: rows without a location are left out instead of refused.        *)
WriteMetadataTruncated ==
  /\ stage = "meta"
  /\ \E length \in ParquetSizes :
       parquet' = {[table  |-> MetadataTable(SubSeq(rows, 1, Len(locs)), locs, cfg.linktype),
                    length |-> length]}
  /\ stage' = "read"
  /\ UNCHANGED <<statement, lock, calls, writer, capture, rows, scanVars, faults>>

WriteMetadata ==
  /\ stage = "meta"
  /\ IF CountsMatch
     THEN /\ \E length \in ParquetSizes :
               parquet' = {[table  |-> MetadataTable(rows, locs, cfg.linktype),
                            length |-> length]}
          /\ stage' = "read"
          /\ UNCHANGED lock
     ELSE /\ parquet' = parquet
          /\ Fail
  /\ UNCHANGED <<statement, calls, writer, capture, rows, scanVars, faults>>

(* The parquet extension does not load, or one of the queries fails.       *)
WriteMetadataFails ==
  /\ stage = "meta"
  /\ faults < MaxFaults
  /\ faults' = faults + 1
  /\ Fail
  /\ UNCHANGED <<statement, calls, writer, capture, rows, scanVars, parquet>>

(* ReadFileBytes: fopen of the same name once more.  The bytes it reads    *)
(* are those the scan saw, since only this statement writes the file.      *)
EmbedRead ==
  /\ stage = "read"
  /\ IF FileExists(path)
     THEN stage' = "embed" /\ UNCHANGED lock
     ELSE Fail
  /\ UNCHANGED <<statement, calls, writer, capture, rows, scanVars, parquet, faults>>

(* Mutant: the footer block is not appended.                               *)
EmbeddedUnfooted(p) == AppendBlock(file, CustomBlock(p.table, p.length))

Embedded(p) == EmbedParquet(file, p.table, p.length)

(* fopen(path, "wb"): it makes a second file if the capture was renamed.   *)
Put(image) ==
  IF FileExists(path)
  THEN file' = image /\ UNCHANGED stray
  ELSE stray' = {image} /\ UNCHANGED file

(* WriteFileBytes, to its end.  The flush of fclose may fail, and then     *)
(* some end of the image is missing that was still in stdio's buffer.  No  *)
(* file system holds a file of 2^64 bytes.                                 *)
Embed ==
  /\ stage = "embed"
  /\ \E p \in parquet :
       /\ Embedded(p).size < U64
       /\ \/ /\ Put(Embedded(p))
             /\ UNCHANGED <<unflushed, faults>>
          \/ /\ faults < MaxFaults
             /\ faults' = faults + 1
             /\ unflushed' = TRUE
             /\ \E torn \in TornImages(Embedded(p), TornSizes) : Put(torn)
  /\ stage' = "tidy"
  /\ UNCHANGED <<statement, copyVars, writer, naming, scanVars, parquet>>

(* The files cannot be read or opened (the capture stays as it is), or     *)
(* fwrite over it stops part of the way.                                   *)
EmbedFails ==
  /\ stage \in {"read", "embed"}
  /\ faults < MaxFaults
  /\ faults' = faults + 1
  /\ \/ UNCHANGED <<file, stray>>
     \/ /\ stage = "embed"
        /\ \E p \in parquet : \E torn \in TornImages(Embedded(p), TornSizes) : Put(torn)
  /\ Fail
  /\ UNCHANGED <<statement, calls, writer, naming, unflushed, rows, scanVars, parquet>>

RemoveTemp ==
  /\ stage = "tidy"
  /\ parquet' = {}
  /\ stage' = "done"
  /\ lock' = NoThread
  /\ UNCHANGED <<statement, calls, writer, capture, rows, scanVars, faults>>

(***************************************************************************)
(* The specification.                                                      *)
(***************************************************************************)
Init ==
  /\ stage = "bind"
  /\ cfg = [mode |-> "pqcap", linktype |-> 1]
  /\ lock = NoThread
  /\ pc = [t \in Thread |-> "idle"]
  /\ chunk = [t \in Thread |-> NoChunk]
  /\ r = [t \in Thread |-> 0]
  /\ input \in SUBSET Chunk
  /\ queue = input
  /\ writer = "none"
  /\ file = EmptyImage
  /\ moved = FALSE
  /\ path = "none"
  /\ overtaken = FALSE
  /\ stray = {}
  /\ unflushed = FALSE
  /\ rows = <<>>
  /\ pos = 0
  /\ locs = <<>>
  /\ parquet = {}
  /\ faults = 0

Sink(t) ==
  \/ \E c \in Chunk : SinkCall(t, c)
  \/ Acquire(t)
  \/ SinkReject(t)
  \/ WriteBlock(t)
  \/ PushRow(t)
  \/ SinkReturn(t)

Finalize ==
  \/ Close
  \/ Resolve
  \/ OpenForScan
  \/ ScanStep
  \/ ScanEnd
  \/ WriteMetadata
  \/ EmbedRead
  \/ Embed
  \/ RemoveTemp

Failures ==
  \/ InitializeGlobalFails
  \/ WriteMetadataFails
  \/ EmbedFails

Next ==
  \/ \E s \in CopyStatements : Bind(s)
  \/ InitializeGlobal
  \/ \E t \in Thread : Sink(t)
  \/ Destroy
  \/ Finalize
  \/ MoveTmpFile
  \/ Failures

Spec == Init /\ [][Next]_vars

(* DuckDB keeps scheduling the statement, and the scheduler does not leave *)
(* out a thread; nothing is assumed of the rename or of the failures.      *)
FairSpec ==
  /\ Spec
  /\ WF_vars(\E s \in CopyStatements : Bind(s))
  /\ WF_vars(InitializeGlobal)
  /\ \A t \in Thread : WF_vars(Sink(t))
  /\ WF_vars(Destroy)
  /\ WF_vars(Finalize)

(***************************************************************************)
(* Properties.                                                             *)
(***************************************************************************)
Stages == {"bind", "open", "copy", "abort", "resolve", "scan", "walk", "meta",
           "read", "embed", "tidy", "done", "failed"}

BufferedRow == [pkt : Packet, captured : Nat, link : 0..(U16 - 1)]

(* The variables have their types.                                         *)
TypeOK ==
  /\ stage \in Stages
  /\ cfg \in [mode : {"pcapng", "pqcap"}, linktype : Nat]
  /\ lock \in Thread \cup {MainThread, NoThread}
  /\ pc \in [Thread -> {"idle", "wait", "write", "push"}]
  /\ chunk \in [Thread -> Chunk \cup {NoChunk}]
  /\ r \in [Thread -> Nat]
  /\ input \subseteq Chunk
  /\ queue \subseteq input
  /\ writer \in {"none", "open", "closed", "leaked"}
  /\ file \in Image
  /\ moved \in BOOLEAN
  /\ path \in {"none", "tmp_", "final"}
  /\ overtaken \in BOOLEAN
  /\ stray \subseteq Image
  /\ unflushed \in BOOLEAN
  /\ rows \in Seq(BufferedRow)
  /\ pos \in Nat
  /\ locs \in Seq([offset : Nat, size : Nat])
  /\ parquet \subseteq [table : Table, length : ParquetSizes]
  /\ faults \in 0..MaxFaults

InFlight(b) ==
  /\ b.body.ord = Len(rows) + 1
  /\ \E t \in Thread :
       /\ pc[t] = "push"
       /\ b.body.pkt = Row(t).pkt
       /\ b.body.link = EffectiveLink(DataLink(Row(t)), cfg.linktype)

BufferedAs(b) ==
  /\ b.body.ord \in DOMAIN rows
  /\ b.body.pkt = rows[b.body.ord].pkt
  /\ b.body.link = EffectiveLink(rows[b.body.ord].link, cfg.linktype)

(* No packet and no block of an index starts within the length of block j. *)
Unmixed(f, j) ==
  \A k \in DOMAIN f.blocks :
    f.blocks[k].type \notin {"SHB", "IDB"} =>
      ~ (/\ f.blocks[j].at < f.blocks[k].at
         /\ f.blocks[k].at < f.blocks[j].at + f.blocks[j].len)

(* Every packet block in the capture was written for the row that the row  *)
(* buffer holds at the block's turn, under the same link type, except the  *)
(* one block whose row a thread is about to push: the file and the buffer  *)
(* that the metadata plane is made from never fall out of step, whatever   *)
(* the threads and the failing writes do (PcapngWriteSink).                *)
RowsShadowBlocks ==
  \A i \in PacketBlocks(file) :
    BufferedAs(file.blocks[i]) \/ InFlight(file.blocks[i])

(* The rows of one chunk are next to each other in the row buffer, in the  *)
(* order of the chunk, once the capture is closed: the sink holds the lock *)
(* for a whole chunk, not for a row.                                       *)
ChunksContiguous ==
  writer = "closed" =>
    \A c \in input : \E k \in 0..(Len(rows) - Len(RowsOf[c])) :
      \A i \in DOMAIN RowsOf[c] : rows[k + i] = Buffered(RowsOf[c][i])

(* Whenever the end of the capture is a footer that read_pqcap accepts, it *)
(* leads to one table, and the table describes the packet blocks of the    *)
(* capture exactly: offset, packet, link type and the length that the      *)
(* block shows, none missing, in file order.  Lost and torn writes are     *)
(* included; of a packet cut before its captured length (24 bytes), the    *)
(* length it shows is not its own.                                         *)
IndexDescribesPackets ==
  LocatorAccepted(file) =>
    \E t \in PublishedTables(file) :
      /\ PublishedTables(file) = {t}
      /\ DescribesPackets(t, file)

(* What the COPY wrote last is in the capture: fclose flushed it, and the  *)
(* capture had not been renamed under the finalizer's hands.               *)
Placed == ~ unflushed /\ stray = {}

(* A COPY in mode pqcap that reports success has left an index that        *)
(* read_pqcap accepts, if its last write was placed; one that failed,      *)
(* wherever it failed, has left none.                                      *)
IndexIffSucceeded ==
  /\ stage = "done" /\ cfg.mode = "pqcap" /\ Placed => LocatorAccepted(file)
  /\ stage = "failed" => ~ LocatorAccepted(file)

(* A COPY in mode pqcap that reports success, and whose last fclose was    *)
(* flushed, has a packet block for every row that it was given, and no     *)
(* other packet and no index where the bytes of that one should be: the    *)
(* count of packet blocks notices a packet that light_write_packet lost or *)
(* cut, unless the interface descriptions written right behind it make up  *)
(* for the missing bytes.                                                  *)
NoSilentLoss ==
  stage = "done" /\ cfg.mode = "pqcap" /\ ~ unflushed =>
    \A c \in input : \A i \in DOMAIN RowsOf[c] : \E j \in PacketBlocks(file) :
      /\ file.blocks[j].body.pkt = RowsOf[c][i].pkt
      /\ Unmixed(file, j)

(* Past a legal bind, a COPY fails only for a failing write, an illegal    *)
(* row, or a rename between the finalizer's look at the name and its use:  *)
(* the scan finds the closed file under either of its names and as many    *)
(* packet blocks as there are rows.                                        *)
FailureHasCause ==
  stage = "failed" /\ writer = "closed" => faults > 0 \/ overtaken

(* The statement ends: no exception leaves the mutex taken.                *)
Terminates == <>(stage \in {"done", "failed"})

(* What a table says of the packets it lists, and what it should say of    *)
(* those of a file.                                                        *)
Entries(t) ==
  { [offset |-> t[n].offset, size |-> t[n].size, pkt |-> t[n].pkt,
     linktype |-> t[n].linktype] : n \in DOMAIN t }

PacketsIn(f) ==
  { [offset |-> DataAt(f.blocks[i]), size |-> f.blocks[i].body.cap,
     pkt |-> f.blocks[i].body.pkt, linktype |-> f.blocks[i].body.link] :
       i \in PacketBlocks(f) }

Promise ==
  INSTANCE IndexedCapture WITH
    outcome  <- IF stage \in {"done", "failed"} THEN stage ELSE "running",
    indexing <- cfg.mode = "pqcap",
    intact   <- Placed,
    packets  <- PacketsIn(file),
    index    <- { Entries(t) : t \in PublishedTables(file) }

(* A COPY is an indexed capture: a reader of the file, between any two     *)
(* steps, finds no index or the one that is complete and exact; no packet  *)
(* is written behind it, and the outcome that is reported agrees with it   *)
(* if the last write was placed.                                           *)
ImplementsPromise == Promise!Spec

(***************************************************************************)
(* The parts of the inductive invariant that IndexDescribesPackets needs   *)
(* (PqcapWriterProofs).                                                    *)
(***************************************************************************)

(* Calls of the sink: one at a time past Acquire, each with a chunk, none  *)
(* before the file is open or once the finalizer runs.                     *)
CallInv ==
  \A t \in Thread :
    /\ pc[t] # "idle" => /\ stage \in {"copy", "abort"}
                         /\ chunk[t] \in Chunk
                         /\ r[t] >= 1
    /\ pc[t] \in {"write", "push"} => lock = t
    /\ pc[t] = "push" => r[t] <= Len(RowsOf[chunk[t]])

Capturing == stage \in {"bind", "open", "copy", "abort", "resolve", "scan", "walk", "meta",
                        "read", "embed"}

(* No block of an index, no overlapping blocks, and no packet block whose  *)
(* length does not fit its field.                                          *)
WellLaid(f) ==
  /\ \A i \in DOMAIN f.blocks :
       /\ f.blocks[i].type \in {"SHB", "IDB", "EPB"}
       /\ f.blocks[i].held > 0
       /\ f.blocks[i].at + f.blocks[i].held <= f.size
       /\ f.blocks[i].type = "EPB" => f.blocks[i].len >= 32
  /\ \A i, j \in DOMAIN f.blocks :
       i < j => f.blocks[i].at + f.blocks[i].held <= f.blocks[j].at

LayoutInv ==
  Capturing => /\ stage \in {"bind", "open"} => file = EmptyImage
               /\ WellLaid(file)

(* The packet blocks stand in the order of the rows.                       *)
InRowOrder(f) ==
  /\ \A i \in PacketBlocks(f) : f.blocks[i].body.ord >= 1
  /\ \A i, j \in PacketBlocks(f) : i < j => f.blocks[i].body.ord < f.blocks[j].body.ord

OrderInv == Capturing => RowsShadowBlocks /\ InRowOrder(file)

Locates(loc, b) == loc.offset = DataAt(b) /\ loc.size = b.body.cap

(* A walk that is at p has located a subsequence of the packet blocks: the *)
(* n-th of them belongs to the n-th row or a later one, and there are      *)
(* enough rows between any two of them.                                    *)
Located(f, p, found) ==
  /\ \A n \in DOMAIN found : \E i \in PacketBlocks(f) :
       /\ Locates(found[n], f.blocks[i])
       /\ f.blocks[i].at < p
       /\ f.blocks[i].body.ord >= n
  /\ \A m, n \in DOMAIN found : m < n => found[m].offset < found[n].offset
  /\ \A m, n \in DOMAIN found : \A i, j \in PacketBlocks(f) :
       /\ m <= n
       /\ Locates(found[m], f.blocks[i])
       /\ Locates(found[n], f.blocks[j])
       => f.blocks[i].body.ord + (n - m) <= f.blocks[j].body.ord

ScanInv == stage \in {"walk", "meta", "read", "embed"} => Located(file, pos, locs)

(* The temporary Parquet file describes the capture it is to be embedded   *)
(* in.                                                                     *)
ParquetInv ==
  stage \in {"read", "embed"} => \A p \in parquet : DescribesPackets(p.table, file)

IndexInv ==
  /\ CallInv
  /\ LayoutInv
  /\ OrderInv
  /\ ScanInv
  /\ ParquetInv
  /\ IndexDescribesPackets
==============================================================================
