# A formal model of the PQCAP DuckDB extension

TLA+ specifications, TLC runs and TLAPS proofs for the extension in `src/`.
PQCAP files are PCAP-NG captures with a Parquet table of packet metadata
embedded behind the packets, and a 44-byte footer that locates the table.
File names and line numbers below are those of `src/` in the repository;
`copy` stands for `src/pqcap_copy_function.cpp`.

## 1. The system

| Component | State | Operations | Talks to |
|---|---|---|---|
| COPY writer (`copy` 53-462, 692-711) | options; writer handle, row buffer, mutex, output path | bind, initialize, sink (called by several threads), finalize | LightPcapNg writes the blocks; DuckDB schedules the sink and renames the `tmp_` file |
| Capture and index layout (`copy` 29-34, 337-373, 511-558; `pqcap_footer.cpp`) | none: functions of a file's bytes | scan for packet locations, embed a table, parse the footer | used by the writer, the indexer and the reader |
| In-place indexer (`copy` 480-690) | the capture at a path, a temporary Parquet file next to it | `pqcap_embed_index(path)` | queries `read_pqcap_packets`, then reads and rewrites the file |
| Footer locator, `read_pqcap` (`pqcap_reader_extension.cpp`) | none between calls | `pqcap_offset_size`, a macro over `read_parquet` | the sub-file system |
| Sub-file system (`pqcap_subfile_fs.cpp`) | per handle: base, size, position | open, positional and sequential read, seek | the file system below, `read_parquet` above |
| Packet table function (`pqcap_packet_table.cpp` 29-223, 374-541) | a reader per query | bind, detect the format, open, fill a chunk, destroy | LightPcapNg, or its own reader of classic captures |
| Field parsers (`pqcap_packet_table.cpp` 225-373) | none | Ethernet, Linux cooked and raw frames, IPv4, IPv6, TCP, UDP | the packet table function |
| Replacement scan, registration (`pqcap_reader_extension.cpp` 94-143) | none | choose a function by suffix | DuckDB's binder |

What is hard in it, and what has to hold:

* **Writer.** Threads call the sink at the same time; a packet is written to a
  file and its row to a buffer, and the two are only joined at the end, by
  position. Writes can be lost or cut without anyone noticing at once, those of the last
  `fclose` without anyone noticing at all, and DuckDB renames the file meanwhile. What has
  to hold: an index that a reader accepts describes the packets of its file exactly,
  a COPY that succeeds has lost nothing but what that `fclose` had to flush, one that failed
  leaves no index, and the statement ends.
* **Layout.** Lengths are 32 bits in a block and 64 in the footer, and sums wrap.
  The scan trusts block lengths, so a cut block sends it into the bytes of the next.
* **Indexer.** Nothing locks the path. Each call makes seven accesses to two files, the last
  of them a write in many parts over the capture itself, may stop at any of them, and may
  overlap with another call.
* **Reader.** It locates the table with one open of the file and reads it with another,
  and a prepared query may read it again much later. Packets are read one by one from a file
  that the indexer truncates and writes again in place. What has to hold: rows come from
  one table, of a capture that was at the path while the query ran, and packets from one
  capture, in order and none left out.
* **Packet table.** The format is found with one open and the packets are read with
  another, while a capture may still be growing; a chunk may end where the file does.
  Two byte orders and two units are converted by hand. What has to hold: every packet
  that was there comes out once, in order, as its program meant it, and the reader
  is closed.
* **Repack.** A `COPY` of a scan is the documented way to an indexed capture. Two state
  machines that stop each other: success must mean that every packet was written.
* **Field parsers.** Header lengths that a packet states about itself, on packets that are
  cut anywhere. No column may come from a byte that was not captured.
* **Sub-file system.** A window must answer as a file of its own: no byte from outside
  of it, whatever the positions and whatever wraps, and no failure where the locator
  said that the bytes are there.

`PROJECT.json` lists the hazards one by one, at their lines, with the property that
would be violated.

## 2. Modules

| Module | What it is |
|---|---|
| `PqcapFormat` | images of files, blocks, the scan, embedding, the footer and its checks (no state) |
| `IndexedCapture` | abstract specification: what a program that writes an indexed capture promises |
| `PqcapWriter` | the COPY statement, from bind to the embedded index; implements `IndexedCapture` |
| `PqcapIndexer` | calls of `pqcap_embed_index` on one path |
| `PqcapQuery` | queries of the path, composed with `PqcapIndexer` |
| `ReadOnlyFile` | abstract specification: what a reader may expect of an open file |
| `PqcapSubFile` | handles of the sub-file system; implements `ReadOnlyFile` |
| `PacketStream` | abstract specification: what a query may expect of a scan |
| `PacketTable` | `read_pqcap_packets`; implements `PacketStream` |
| `PqcapRepack` | `PacketTable` as the source of a COPY |
| `PacketFields` | the parsers of addresses, ports and protocol |
| `MC...` | instances for TLC of the module they are named after |
| `PqcapFormatProofs` | lemmas: induction over a file's bytes; images that are embedded in, cut and written over |
| `PqcapWriterProofs`, `PqcapPromiseProofs` | the writer: types, the index is exact; outcome, refinement, losses, causes of failure |
| `PqcapIndexerProofs` | the indexer: all its invariants, of calls one after the other and of calls that overlap |
| `PqcapQueryProofs` | what queries find in the file meanwhile |
| `PqcapSubFileProofs` | the locator's range check; a window is a read-only file |
| `PqcapRepackProofs` | the scan is a stream; the COPY of a scan |
| `PacketFieldsProofs` | the field parsers |

### Images (`PqcapFormat`)

An image is `[size, blocks]`. A block has a position `at`, the number of its bytes
that are in the file (`held`), the value of its total-length field (`len`) and a
body. `held` and `len` differ after a cut write, and when the length does not fit
32 bits; everything the code computes from lengths and positions is computed
from these. Payload bytes are identities of packets. Two abstractions:

* A position that is not the start of a block with at least 8 bytes in the file
  reads as a header that stops the scan (`OpaqueHeader`). The code would interpret
  payload bytes there. Payload could be chosen to look like a block; only a cut
  write takes the scan to such a position.
* `read_parquet` of a byte range yields a table if the range is the Parquet payload
  of a custom block, and fails otherwise (`TablesAt`).

`U32` and `U64` are the moduli 2^32 and 2^64; the runs use small ones, so
that custom blocks longer than the field can express do occur.

### The writer (`PqcapWriter`)

`stage` is how far the statement is; `pc`, `chunk` and `r` are the program counter,
the argument and the loop variable of each thread's call of the sink. The actions
are the steps of the code between which other threads or failures matter:

| Action | Code |
|---|---|
| `Bind`, `InitializeGlobal`, `InitializeGlobalFails` | `copy` 130-211 |
| `SinkCall`, `Acquire` | 218-223: the call, and the `lock_guard` |
| `SinkReject` | an exception of 226-293, and the unlock it causes |
| `WriteBlock` | 295-306: `light_write_packet`, which may lose or cut the packet |
| `PushRow`, `SinkReturn` | 307-309 |
| `Destroy` | the end of the global state after an exception (no destructor, 90-95) |
| `Close` | 692-703; what LightPcapNg had buffered may be lost, which nobody notices |
| `Resolve` | 704-705: the look at the name of the file (`ResolveCapturePath`) |
| `OpenForScan`, `ScanStep`, `ScanEnd` | 337-373: the `fopen` of that name, and the iterations of 355-371 |
| `WriteMetadata`, `WriteMetadataFails` | 379-462 |
| `EmbedRead` | 480-495: the `fopen` of that name for reading |
| `Embed`, `EmbedFails` | 497-558: the `fopen` for writing, `fwrite` and `fclose` |
| `RemoveTemp` | 710-711 |
| `MoveTmpFile` | DuckDB's rename, at any time after the close, between any two steps of the finalizer too |

The failures of the finalizer are of two kinds. `EmbedFails` is one that the code notices: a file
that does not open, an `fwrite` that is short. In `Embed` the flush of the `fclose` at line 508 may
fail; some end of the image is then missing, which may be all of it, and the COPY goes on to
report success (`unflushed`). If the file has been renamed since `Resolve` (`overtaken`), the next
`fopen` for reading fails, and that for writing makes a second file under the old name (`stray`).
`Placed` says that neither has happened to the index.

A cut packet block keeps any number of its bytes. If those with its captured length (20 to 23) are
missing, the scan reads other bytes there; the length that the block shows is then one of
`Misreads`, whatever the constant holds. If an interface description is written right behind a
packet that was cut by its size (20 bytes), its bytes complete the packet's block: the count of blocks
matches, and the packet is in the index with bytes that are not its own. `NoSilentLoss`
excludes every other loss: no packet and no block of an index starts within the length of a packet's
block (`Unmixed`).

`body.ord` of a packet block is an auxiliary field: the turn of its row. No action
reads it. A row has its packet, payload length, link type and captured length;
the other columns are handled like these by the code (a cell that cannot be
parsed rejects the row, `ok = FALSE`) and nothing depends on their values.

### The indexer (`PqcapIndexer`)

One action per access to a file: `EnsurePlainCapture` (560-578),
`FetchPacketFeaturesFromCapture` (580-649), `Scan` with the comparison of counts
(657-663), `WriteMetadata` (664-668), `ReadCapture` and `ReadParquet` (513-514),
`OpenForWrite` (the truncating `fopen`, 499), any number of `WritePart` and one `WriteFile`
(503-508), `Remove` (670). `Fail` stops a call at any of them, with what it has written so far in
the file. `WriteFile` may also lose the bytes that the `fclose` had to flush; the call does not
notice and returns. `spoilt` has the calls to which one of these happened while they were writing.
`Replace` puts another capture at the path while no call is at work. `placed` is what was last put
there.

The parts of a write end between blocks or `TornSizes` bytes into one, and between any two of them
other calls may take any step: read what is there, truncate it, write their own. `Spliced` is a
part written to a file that others have changed since: what is behind it stays, what starts before it
and reaches into it goes on only if it is the same block. A read that overlaps a write finds the
bytes so far or fails, because the file became shorter than its size had been when the call asked
for it. A read is one step: the bytes that a call writes are those of the capture, where they were, so
that a reader that is overtaken sees no more than a prefix of what the writer writes. `clashed` says
that some call has read or truncated the file between the `fopen` and the `fclose` of another;
then it can take
a part of the capture for the whole, and write it back with an index that a reader accepts.

The Parquet file next to the capture is replaced in one step: it is written by a COPY of DuckDB,
which renames it when it is complete.

A classic capture has no blocks; the scan finds nothing in it. (The scan reads the
version field of its header as a length of 262146, and ends there in any
shorter file.)

### The sub-file system (`PqcapSubFile`)

One handle, opened (`pqcap_subfile_fs.cpp` 46-94), read, moved and closed any number
of times. `base`, `size` and `seek` are `base_offset`, `sub_size` and `seek_pos`; `answer`
is what the last call returned. A byte of the file below is its own position there.
`located` is auxiliary: the range was built by `read_pqcap`, from a footer that passed
`RangeAccepted` (`pqcap_reader_extension.cpp` 46-54), and not written by a user into the
path. `ImplementsFile` maps the handle to `ReadOnlyFile` with the bytes of the window as
contents; bytes past the end of the file below are missing, and a read that needs one
fails. A positional read across the end of the window puts fewer bytes into the buffer
and says nothing about it: `ReadOnlyFile` allows this, as its callers take the size first.

### The packet table (`PacketTable`)

`file` is what is at the path: a capture, and how much of it is on disk (`OnDisk`: how
much of the header, how many whole records, and whether the next one is cut in its
header or in its data). `Grow` lets the writer of the capture put more into it;
`Replace` puts another file there or removes it; `unmoved` (auxiliary) says that it has not since the
format was detected. `source` is the file that the reader has
open; it keeps growing with `file` as long as it is still `linked` to the path.

| Action | Code (`pqcap_packet_table.cpp`) |
|---|---|
| `ReadPqcapPacketsBind` | 420-441, the checks of the argument |
| `DetectCaptureFormat` | 201-223, the first open |
| `OpenReader` | 57-129 and 443-461: the second open, and the throw that leaks it |
| `BeginCall`, `ReadRow`, `ReadEnd`, `ReadTruncated`, `EndCall`, `CallFinished` | `ReadPqcapPacketsFunction` and the readers' `Next` |
| `Cancel`, `Destroy` | the end of the state: a query that needs no more rows, an exception, the last chunk |

A 32-bit field is a word of four bytes, because the byte order is the point; `ByteBase`
is 256 in the code and 4 in the runs. `RowAt` is what the code computes, `MeantRow` what the
program that wrote the capture meant; that they agree is part of `ImplementsStream`. The
columns computed from the bytes of a packet are those of `PacketFields`, and
are left out here.

### A COPY of a scan (`PqcapRepack`)

`SinkRow` is one iteration of the sink on the row that the scan has delivered, and
`WrittenHeader` the header that it hands to LightPcapNg (`copy` 295-306) with the packet's bytes: the
interface, the link type, where 0 is replaced by that of the COPY, the length of the payload as captured
length, the original length, and the time. It has no comment: the sink reads that column and does not
write it. `Source` lets the scan go on when the sink has had its chunk; `PipelineEnds`, `Abort` and
`Interrupt` are the three ways the statement ends, which DuckDB decides (external): that a scan
that has failed fails the COPY, and does not call its finalizer, is not in this repository. One thread, as the scan allows no more
(`MaxThreads`). The concurrency of the sink, its failing writes and its finalizer are in `PqcapWriter`.

### Field parsers (`PacketFields`)

`ParseL4Fields` and the functions below it, one operator each. A frame is memory, of which
the first `snap` bytes are captured; positions are the code's pointers. The state machine is
there to compare the columns of a packet with those of the same packet cut elsewhere
(`Longer`) and with other bytes behind the cut (`Elsewhere`).

### Queries (`PqcapQuery`)

`at` is the step of each query. `ReplacementScan` chooses the plane by suffix
(`pqcap_reader_extension.cpp` 94-117); the metadata plane is `PqcapOffsetSize`,
`ParsePqcapMetadataLocation` (31-91), then `OpenSubFile`, `ReadParquetMeta`, `ReadParquetRows` on
another handle; `Execute` runs a prepared query again with the location that it has. A
handle follows the file at the path (`live`) until the path is given to another one, and
sees what the indexer does to the file in place. The
packet plane is two opens as well, `DetectCaptureFormat` and `OpenPackets`
(`pqcap_packet_table.cpp` 201-223, 443-461), and then one `ReadPacket` per packet, with any
steps of calls between them (463-541). `during`, `disturbed` and
`overlapped` are auxiliary: the captures that were at the path, whether the file has changed
since it was located, and whether two calls of the indexer have overlapped.

Answers and packets are promised only for histories that are `Orderly`: no call has used the file
while another was writing it (`clashed`), and calls have not both overlapped and stopped early or
lost bytes. Without the first, a part of a capture may get an index of its own.
Without the second, a call that read what a dead one left writes its short image over the whole one
that a third has written meanwhile; where the sizes fit, a reader goes on behind it and misses
packets in between. The code gives up the promise in these histories, so the properties do.

### Conventions

`...Inv` names a part of the inductive invariant. An operator under a comment that
begins with "Mutant" is not part of a specification: it is a faulty version of the
definition that follows it, and `PROJECT.json` names the property that it breaks.

## 3. Runs

| Run | Question | Bounds | Distinct states |
|---|---|---|---|
| `writer_threads` | rows and blocks in step; chunks whole; types; why a COPY fails; nothing lost; termination | 2 threads; any subset of 4 chunks of up to 2 rows, one with a row that is refused; 6 statements of which 4 are illegal; the rename at any time after the close | 9,975 |
| `writer_faults` | the index is exact, and there exactly after success if the last write was placed; nothing else lost silently; `IndexedCapture` | 2 failing writes, of the sink, the close, the finalizer or its last flush; 4 rows; cuts after 12, 32, 36 and 40 bytes; Parquet files of 1 and 1100 bytes with `U32` = 1024 | 89,718 |
| `indexer_serial` | one index, of this capture, all blocks kept | 3 calls, 2 of which may stop or lose the end of their write; 1 replacement; 7 captures; parts that end between blocks or 36 bytes into one | 815,145 |
| `indexer_overlap` | what still holds when calls overlap | 3 calls at once, parts that end between blocks, Parquet files of different sizes | 1,476,542 |
| `indexer_two_indexes` | **violated**: two overlapping calls leave two indexes | 2 calls | |
| `indexer_in_place` | **violated**: a call that stops while it writes loses the packets | 2 calls, 1 of which may stop | |
| `indexer_loopback` | **violated**: link type 0 is indexed as another one | 1 capture with link types 0 and 1 | |
| `query` | no answer mixes two captures or two tables; packets are the first ones of one capture; a located index can be read | 1 query, run once or again; 2 overlapping calls, 1 of which may die or lose the end of its write; parts as in `indexer_serial`; 2 replacements; 4 captures: a classic one, and two that have indexes at the same place; `CONSTRAINT Awaited` | 951,569 |
| `subfile` | located windows never fail; every window is a read-only file | a file of 6 bytes; every footer range with offset up to 6 and size up to 7 and three that wrap around `U64` = 60; 5 user ranges | 1,248 |
| `repack` | every scan is a stream and closes its reader; a handle leaks only for a cause; the COPY of one is faithful, in every field of the header, and whole; it ends | 7 captures of up to 3 packets, both formats, orders and units, link types 0 and others; chunks of 2 rows; 1 replacement; growth at every cut | 104,070 |
| `repack_empty` | **violated**: a capture with an empty packet cannot be repacked | the same without replacements | |
| `fields` | no column from a byte that was not captured; none taken back; the carrier makes no difference | datagrams with every header length that the parser tells apart, alone and behind every link header, cut at every byte, under 4 link types | 29,128 |

Why these bounds: two threads and four chunks suffice for a thread to wait while
another works, to be overtaken, and to be refused a row while the other waits. The packet
sizes and cut lengths of `writer_faults` are chosen so that the scan, thrown off by one
cut block, meets the boundary of a later block, so that two faults can balance each
other in the count of blocks, and so that an interface description completes a cut packet, also one
that was cut before its captured length (12 + 20 = 32 bytes, an empty packet). Three calls of the indexer are one that leaves
something behind, one that meets it, and one that meets the result of that. The
ranges of `subfile` are inside, across and behind the file's end, empty, and around
2^64; 45 is the least `U32` that lets a footer of 44 bytes exist, and not otherwise used.
Captures of two and three packets with chunks of two rows end at the end of a chunk and
in the middle of one. In `query`, the third capture has an index of the same length at
the same offset as a call of the indexer gives another one, so that a location that is
out of date still leads to a table; and a packet of the first capture begins where the last one of the
others ends, so that a reader that followed the path to another file would mix the two. Its
`CONSTRAINT` stops the run when the query has ended for good and in states that are not `Orderly`: none
of them is followed by one that is (the lemma `OrderlyBefore`), and in them its three properties hold by
their guards, `LocatedIsReadable` because calls that clash, or do not run one after the other, overlap.

`CHECK_DEADLOCK FALSE` is set because statements, calls and packets end. `Terminates` and
`RepackEnds` are what excludes that statements get stuck. `subfile` checks for deadlock.

Fairness. `FairSpec` of the writer: weak fairness of binding, opening, each thread's call of
the sink, the end of an aborted statement, and the finalizer. DuckDB's scheduler keeps
running the tasks of a query. Nothing is assumed of failures or of the rename. A
blocked `Acquire` is not enabled, so fairness does not free a lock. `FairRepack`: weak
fairness of the calls of the source, of the sink and of the pipeline, which is the same
assumption for one task. Nothing is assumed of the program that writes the capture: the
scan ends also when it grows all the time (within its final length), or never.

What the violated runs show (`findings` in `PROJECT.json` quotes the lines):

* `indexer_two_indexes`: the check for an existing index is not repeated under any lock.
* `indexer_in_place`: the capture is truncated and written anew, not appended to.
* `indexer_loopback`: `data_link` 0 is taken for an absent value, but is LINKTYPE_NULL.
* `repack_empty`: an empty packet gets a NULL payload, which the sink refuses.

Two conditions in passing properties are limits of the code too, and each is needed; without it TLC
finds a counterexample in the same run:

* `Placed` in `IndexIffSucceeded` (`writer_faults`): the result of the `fclose` at
  `pqcap_copy_function.cpp:508` is not looked at, so that a COPY in mode pqcap succeeds without an index
  when that flush fails.
* `~ clashed` in `IndexNeverForeign` (`indexer_overlap`): a call that overlaps the write of another (503-508)
  finds a prefix of the capture and takes it for the capture; nobody fails, and packets are gone.

## 4. Proofs

For all values of the constants that satisfy the stated assumptions.

### The writer

* `TypeCorrect`: `Spec => []TypeOK`. Inductive with `CallInv` (a thread past
  `Acquire` holds the lock and has a chunk).
* `IndexCorrect`: `Spec => []IndexDescribesPackets`, for writes that are cut anywhere.
* `RowsInStep`: until the index is embedded, every packet block belongs to the row of
  its turn.
* `OutcomeAgrees`: `Spec => []IndexIffSucceeded`; `CopyKeepsPromise`: `Spec => ImplementsPromise`. Both
  except for a last write that was not placed: `IndexedCapture` has a step for it (`Miss`), and lets
  a program that has taken it report success without an index, but never failure with one.
* `ChunksStayTogether`, `NothingLost`, `FailuresHaveCause`: the other three invariants of the runs.

The argument of `IndexCorrect`. The scan may skip packet blocks, or leave the block
boundaries and come back, so no invariant can say that it finds each of them. What is
invariant is `Located`: the locations found are a subsequence of the packet
blocks, the n-th of them belongs to a row of turn n or later, and between two of them
there is at least as much distance in turns as in positions. Packet blocks have
distinct turns in file order (`InRowOrder`), each the turn of its row
(`RowsShadowBlocks`), because the sink holds the mutex from the write to the push
(`CallInv`). If there are as many locations as rows (`CountsMatch`), the n-th location
therefore belongs to turn n exactly, and every packet block has been found
(`CountsMakeIndex`); the table that is written describes the packets (`ParquetInv`).
Embedding publishes that table and adds no packet block (`EmbedPublishes`), and an
embedding that is cut short ends in no footer (`TornHasNoIndex`). `IndexInv` is the
conjunction; `FullInv` adds the types and is inductive.

The other theorems add a part each. `StatusInv` relates stage, mode and the last block of the
file (`EmbedAccepted`: the footer that is appended passes the locator's checks). The
refinement maps packets to what an index has to say of them, so `Embed` is `Publish` or `Miss` and
steps between are `Capture` or stutter (`NextImplements`). `ProgressInv` follows each chunk from
the queue through a thread's hands (`BegunInv`: the rows before the loop variable are
the last ones buffered) into the row buffer (`TakenInv`). `LossInv` combines
`ProgressInv` with the table: a row that is in the table has a packet block, and as the scan stepped from each
block to the end of its length (`Cleared`), none of them has another packet or the index within
it. `NamingInv` relates the name that the finalizer found to the file's, and `CauseInv`
says that without faults blocks touch each other (`Chain`), each row has its block
(`HasTurn`), and the scan stands at a boundary with every block before it counted: then the counts
match.

### The indexer

* `ClassicNeverWritten`: `Spec => []ClassicRefused`, overlapping calls included. The scan of
  bytes that are no blocks finds nothing (`NothingToScan`), so the counts differ.
* `TypeCorrect`: `Spec => []TypeOK`, from `TypeInv`, which adds that the blocks of every image
  follow one another (`InOrder`).
* `SerialOneIndex`, `SerialKeepsCapture`: `~ Concurrent` is assumed. `SerialInv` says what the call
  that is under way knows at each step (`CallInv`): there was no footer when it looked, what it
  read is the capture, what it writes ends in one footer. `Tidy` says that what is in the file is a
  prefix of what the call means to write; a cut write leaves at most part of a footer, at the end
  (`FooterAtEnd`). `KeptInv` has the exception: a call that stopped writing, or was not flushed.
  `indexer_two_indexes` shows that the assumption is needed.
* `SerialIndexRight` (`IndexListsPackets`) and `SerialIndexOnReturn` (`IndexedOnReturn`), also for
  calls one after the other. `RightInv` adds `ListInv`: rows and locations are those of the
  same packet blocks, the table lists them, and the image that is written publishes it. A call whose
  `fclose` was not flushed is the exception of `IndexedOnReturn`.
* `OverlapNeverForeign` (`IndexNeverForeign`): none stops early or loses bytes (`MaxFaults = 0`), and
  none has used the file between the `fopen` and the `fclose` of another; else calls overlap in any way.
  `CleanInv` says of the file when no call is writing, and of every image that a call holds, that it is
  made of the capture (`MadeOf`): each packet block in it is one of the capture's, each table lists
  the capture, and the whole capture stands in front. Rows
  that a call has fetched are the capture's, and there is a Parquet file only while a call is
  going to use it, so that none survives into the time of the next capture. The
  condition is needed (section 3).
* `OverlapSucceeds` (`SomeJobSucceeds`): `StartInv` says that until a call writes an index, the
  file is the capture that was placed, no call has failed and none will for lack of the Parquet file.
  This one also for calls that clash.

The scan and the reader are recursive functions of a file's bytes, and what they compute
needs induction over positions. The library's induction theorems cannot be used, so
`PqcapFormatProofs` derives it from the least element of a set of numbers (`LeastNumber`,
`Downwards`), and from that the existence of the function itself (`WalkExists`). Scan and
reader are both a `Walk` that takes some blocks and passes over others (`ScanIsWalk`,
`ReadIsWalk`). A walk collects blocks of the file in ascending order (`WalkCollects`), so that two
walks of which one collects only what the other does are equal as soon as they are of
the same length (`SameAscending`, `ScanWithinRead`): this is why comparing the counts is enough.
Over the blocks of an intact capture a walk misses none (`WalkReaches`, `WalkOfBeginning`), and in
a file made of such a capture a scan cannot find as many packets without finding the same ones
(`WalkOfPackets`, `ScansCapture`).

### Queries

`QueriesLook`: every step of `PqcapQuery` is a step of `PqcapIndexer` or leaves its variables
alone, so that the invariants above hold here.

* `AnswersOneIndex` (`AnswerIsOneIndex`): for any number of
  queries, calls, failures and replacements, as long as calls are `Orderly`. `FileInv` says that the file satisfies
  `OverlapInv` as long as no call has stopped early, and `FirstInv` as long as no two have
  overlapped: then the file is a `Cut` of the capture, its first blocks and the last of
  them perhaps in part, before whatever is no packet, and each table in it lists first
  packets (`FirstTables`). A reader of a cut finds the first packets (`CutPackets`). `AnswerInv` says that
  from its second open on a query looks at what belongs to one capture of `during` (`Sees`), and
  that the table whose footer it has read does too; a capture has at most one table that
  lists it (`OneList`), so two reads that both list it have met the same one.
* `PacketPlanePrefix`: `PacketPlaneIsPrefix` as long as no call has died or lost bytes. `ReaderInv` says that a
  reader at some position has handed out the packets of one capture before that position, whole
  (`Progress`), and `PartOf` what its handle has: each block is one of that capture, whole or cut by the end of
  the file, or stands behind the capture and is no packet. A reader does not pass a
  block that is not in the file whole, so it takes no position but those of the capture.
* `LocatedReadable` (`LocatedIsReadable`): from `RightInv`, which holds while nobody has
  overlapped (`AloneStays`), and `LocInv`: until the file is disturbed the location is the one
  that the file has now, and an accepted locator stands at its end and leads to a table
  (`LocatedPublished`).

### The sub-file system

* `RangeInsideFile`: `RangeAccepted`, on integers that wrap, accepts exactly the ranges
  that are not empty and lie inside the file (`SumWraps`: a sum wraps at most once).
* `SubFileTypes`, `LocatedReadsSucceed`: from `HandleInv`, which adds to the types that a
  located window lies inside the file. Without it a read could fail in the file below.
* `WindowIsFile`: `Spec => ImplementsFile`. Each call is a step of `ReadOnlyFile`
  (`NextIsWindowStep`); `ReadsAgree` compares the two reads, from `WindowReadFacts`:
  the position in the file below does not wrap for any position inside the window.

### The packet table and the COPY of a scan

* `TableTypeCorrect`, `ReaderClosed`, `LeaksHaveCause`, `TableStreams` (`Spec => ImplementsStream`), from
  `TableInv`: `DiskInv` (a linked handle has the file at the path, and the format of the file is the one that
  was detected unless another file was put there since), `HandleInv` (handle and stage), `RowsInv`
  (the rows delivered and those of the running call are the first `next - 1` rows, with the values
  meant). `RowsInv` is needed because a chunk is lost when the reader throws: only what was
  delivered may be promised.
* `RepackScans`, `RepackClosesReader`: every step of the COPY is a step of the scan or none.
* `RepackIsFaithful`, `RepackIsWhole`: every field of the header, each through `WrittenHeader` and `MeantRow`. `SinkInv` says that what is written are the rows handed
  over, one by one, and that there are as many unless the COPY has failed.

### The field parsers

* `CapturedBytesSuffice`, `LongerCaptureKeeps`: two frames that agree on the captured bytes agree on
  every byte that a parser reads behind its length checks, protocol by protocol.
* `CarrierMakesNoDifference`: a parser at position p of a frame and at p + d of a frame that is
  shifted by d bytes reads the same bytes and compares the same lengths.

### Assumptions

`WriterAssumption`: payloads are shorter than 4 GiB as DuckDB's BLOBs are, and a section header has at
least 12 bytes; where a write is cut is not restricted. No file has 2^64 bytes (the guard of `Embed`). `IndexerAssumption`: captures that are put at the
path have blocks that follow one another or are classic, and a footer in them is whole and at
their end or cut (`FooterAtEnd`); no capture that a call builds has 2^64 bytes (the guard of
`ReadParquet`). Theorems of the indexer and of queries say what else they need of the captures,
and `CapturesAssumption` and `QueryCapturesAssumption` check that those of the runs are such:

* `Linked`: no packet has link type 0. `indexer_loopback` shows that the table is wrong otherwise.
* `RightlyIndexed`: an index that a capture brings along lists its packets.
* `Intact`, when calls overlap or stop: the capture is not cut, and every table in it is its own. Half
  a block at its end would be continued by what is embedded behind it.
* `Legible`, for `SomeJobSucceeds` only: a reader can open it and its packet blocks have room for
  their headers, so that scan and reader count alike.

`Job` is finite where a theorem is about `overlapped`, which counts them. `SubFileAssumption`: the size of the
file below fits the `int64_t` of `GetFileSize`; ranges that users write do not wrap around
2^64 and have such a size too; footers may hold any two 64-bit numbers. A range outside
of this assumption can only be written by hand into a path: the code does not check it,
and the theorems say nothing of it. `TableAssumption`, `LinktypeAssumption` and
`FieldsAssumption` give types only, except that the link type of a COPY is not 0 and fits
16 bits.

### Model-checked only

* `Terminates`, `RepackEnds`: liveness is out of the prover's reach.
* The four violated properties, which are about instances by nature.
* `PacketPlaneIsPrefix` after a call has died or lost bytes, where only the last packet of a reader may have bytes
  that are not its own.
* Captures in `indexer_serial` that end in a cut block are covered by the theorems about calls one after
  the other, but not by those about queries, which assume `Intact`.

Every other invariant and action property of the passing runs is stated by a theorem.

## 5. Not modelled

* LightPcapNg, DuckDB and the Parquet format: external, and modelled by what the code
  uses of them.
* Registration, option and version glue (`pqcap_duckdb_compat.hpp`, the second half of
  `pqcap_reader_extension.cpp`): runs once, without state.
* How addresses are printed. The feature columns of the index,
  timestamps included (`ts_micros * 1000` wraps in 64 bits for timestamps after the year 2554).
* The syntax of `pqcap-subfile://` paths beyond the range that they hold.
* One statement that indexes many paths: its calls are independent in `PqcapIndexer`.
* Bytes of payloads, and therefore captures made to look like blocks: only a cut write
  takes the scan to such a position.
* The original length of simple packet blocks, where it exceeds what was captured; the model
  has one length.
* A vector that is assigned from its own range (`pqcap_packet_table.cpp` 500), undefined in
  C++ and harmless with the libraries in use.

## 6. What is left

1. Simple packet blocks with a snap length, in `PqcapFormat`, and the rows that the index then
   gets.
2. The reads of `PqcapIndexer` as several steps each, so that a reader may stay behind a call that truncates
   the file and another that writes it.
3. The theorem of `PacketPlaneIsPrefix` for calls that die.
4. `WalkReaches` for captures that end in a cut block, so that the theorems about queries need not
   exclude them.
5. Directory-wide statements (`pqcap_embed_index` over a column of paths) with an error in one of them.
