----------------------------- MODULE PqcapQuery -----------------------------
(***************************************************************************)
(* Queries of a capture by its path (src/pqcap_reader_extension.cpp) while *)
(* jobs of PqcapIndexer work on it and other programs replace it.  The     *)
(* suffix of the path chooses the plane.  The metadata plane is read in    *)
(* two opens: pqcap_offset_size looks for the footer through one handle,   *)
(* read_parquet reads the table through another, in several reads; a       *)
(* prepared query does the second part again with the location that the    *)
(* first had found.  The packet plane is opened twice too, once for the    *)
(* magic number and once for the reader, and is then read packet by packet *)
(* over any number of calls.  An open handle keeps the file it has opened  *)
(* when the path is given to another file, and sees what jobs do to it in  *)
(* place.  A reader's buffer holds bytes of earlier states of the file: of *)
(* the capture, they are the same, since no job moves them.                *)
(***************************************************************************)
EXTENDS PqcapIndexer

CONSTANTS
  Query,   \* the queries of the path
  Suffix   \* the suffixes it may have

VARIABLES
  at,         \* per query: its next step, or how it ended
  view,       \* per query: the file of its handle; live: still the one at the path
  size,       \* per query: the file size that pqcap_offset_size has asked for
  loc,        \* per query: the location it found, a set of at most one
  meta,       \* per query: the table whose Parquet footer was read
  answer,     \* per query of the metadata plane: the tables of its rows
  reader,     \* per query: its reader of packets and what that has handed out
  during,     \* auxiliary, per query: the captures at the path since it began
  disturbed,  \* auxiliary, per query: the file has changed since it was located
  overlapped  \* auxiliary: two jobs have been at work at once

private == <<view, size, loc, meta, reader>>
history == <<during, disturbed, overlapped>>
queryVars == <<at, private, answer, history>>

allVars == <<vars, queryVars>>

Moves(q, step) == at' = [at EXCEPT ![q] = step]

(* What a handle reads.                                                    *)
Behind(q) == IF view[q].live THEN file ELSE view[q].image

OpenPath(q) == view' = [view EXCEPT ![q] = [live |-> TRUE, image |-> EmptyImage]]

Begins(q) == during' = [during EXCEPT ![q] = {placed}]

(***************************************************************************)
(* PqcapReaderReplacementScan.                                             *)
(***************************************************************************)
Route(suffix) ==
  IF suffix \in {"pqcap", "pqcapng"} THEN "offset"
  ELSE IF suffix \in {"pcap", "pcapng"} THEN "packets"
  ELSE "declined"

ReplacementScan(q, suffix) ==
  /\ at[q] = "idle"
  /\ Moves(q, Route(suffix))
  /\ Begins(q)
  /\ UNCHANGED <<vars, private, answer, disturbed, overlapped>>

(***************************************************************************)
(* read_pqcap_packets.  A classic reader cannot mistake what is not its    *)
(* capture for a record: a capture with records is never written over, and *)
(* behind the header of one without, an index reads as a cut record.       *)
(***************************************************************************)
NoReader == [source |-> {}, pos |-> 0, got |-> <<>>]

DetectCaptureFormat(q) ==
  /\ at[q] = "packets"
  /\ Moves(q, IF ~ Readable(file) THEN "failed" ELSE IF placed.classic THEN "classic" ELSE "pcapng")
  /\ UNCHANGED <<vars, private, answer, history>>

OpenPackets(q) ==
  /\ at[q] \in {"classic", "pcapng"}
  /\ IF Readable(file) /\ placed.classic = (at[q] = "classic")
     THEN /\ OpenPath(q)
          /\ reader' = [reader EXCEPT ![q] = [NoReader EXCEPT !.source = {placed}]]
          /\ Moves(q, "reading")
     ELSE /\ UNCHANGED <<view, reader>>
          /\ Moves(q, "failed")
  /\ UNCHANGED <<vars, size, loc, meta, answer, history>>

(* The next packet in one row: whose it is, and whether all bytes of its   *)
(* block are its own.                                                      *)
HandsOut(q, pkt, whole, len) ==
  /\ reader' = [reader EXCEPT ![q].got = Append(@, [pkt |-> pkt, whole |-> whole]),
                              ![q].pos = @ + len]
  /\ UNCHANGED at

ClassicNext(q, c) ==
  LET n == Len(reader[q].got) + 1
  IN  \/ n <= Len(c.records) /\ HandsOut(q, c.records[n].pkt, TRUE, 1)
      \/ /\ n > Len(c.records)
         /\ Moves(q, "done") \/ (Behind(q) # c.image /\ Moves(q, "failed"))
         /\ reader' = reader

PcapngNext(q) ==
  LET pos == reader[q].pos
      b   == HeaderAt(Behind(q), pos)
  IN  \/ ReaderStops(Behind(q), pos) /\ Moves(q, "done") /\ reader' = reader
      \/ /\ ~ ReaderStops(Behind(q), pos)
         /\ b.type \in {"EPB", "SPB"}
         /\ HandsOut(q, b.body.pkt, b.held = b.len, b.len)
      \/ /\ ~ ReaderStops(Behind(q), pos)
         /\ b.type \notin {"EPB", "SPB"}
         /\ reader' = [reader EXCEPT ![q].pos = @ + b.len]
         /\ UNCHANGED at

(* Mutant: the path is opened anew for every packet, where the last ended. *)
ReadPacketAnew(q) ==
  /\ at[q] = "reading"
  /\ \E c \in reader[q].source : IF c.classic THEN ClassicNext(q, c) ELSE PcapngNext(q)
  /\ OpenPath(q)
  /\ UNCHANGED <<vars, size, loc, meta, answer, history>>

ReadPacket(q) ==
  /\ at[q] = "reading"
  /\ \E c \in reader[q].source : IF c.classic THEN ClassicNext(q, c) ELSE PcapngNext(q)
  /\ UNCHANGED <<vars, view, size, loc, meta, answer, history>>

(***************************************************************************)
(* pqcap_offset_size: open, ask for the size, read the last 44 bytes.      *)
(***************************************************************************)
PqcapOffsetSize(q) ==
  /\ at[q] = "offset"
  /\ OpenPath(q)
  /\ size' = [size EXCEPT ![q] = file.size]
  /\ disturbed' = [disturbed EXCEPT ![q] = FALSE]
  /\ Moves(q, IF file.size < PQCAP_FOOTER_BLOCK_SIZE THEN "failed" ELSE "tail")
  /\ UNCHANGED <<vars, loc, meta, answer, reader, during, overlapped>>

(* The locators in the 44 bytes that end at byte `end` of f.               *)
LocatorsBefore(f, end) ==
  { f.blocks[i].body :
      i \in { k \in DOMAIN f.blocks :
                f.blocks[k].at + PQCAP_FOOTER_BLOCK_SIZE = end /\ ParseFooterLocator(f.blocks[k]) } }

(* Mutant: the two numbers of the footer are taken in the other order.     *)
MetadataLocationsSwapped(f, end) ==
  { [offset |-> b.length, length |-> b.offset] :
      b \in { l \in LocatorsBefore(f, end) : RangeAccepted(l.offset, l.length, end) } }

MetadataLocations(f, end) ==
  { [offset |-> b.offset, length |-> b.length] :
      b \in { l \in LocatorsBefore(f, end) : RangeAccepted(l.offset, l.length, end) } }

ParsePqcapMetadataLocation(q) ==
  /\ at[q] = "tail"
  /\ loc' = [loc EXCEPT ![q] = MetadataLocations(Behind(q), size[q])]
  /\ Moves(q, IF loc'[q] = {} THEN "failed" ELSE "located")
  /\ UNCHANGED <<vars, view, size, meta, answer, reader, history>>

(***************************************************************************)
(* read_parquet of the range: its footer first, then its rows.             *)
(***************************************************************************)
OpenSubFile(q) ==
  /\ at[q] = "located"
  /\ OpenPath(q)
  /\ Moves(q, "meta")
  /\ UNCHANGED <<vars, size, loc, meta, answer, reader, history>>

TablesBehind(q) == UNION { TablesAt(Behind(q), l.offset, l.length) : l \in loc[q] }

ReadParquetMeta(q) ==
  /\ at[q] = "meta"
  /\ meta' = [meta EXCEPT ![q] = TablesBehind(q)]
  /\ Moves(q, IF meta'[q] = {} THEN "failed" ELSE "rows")
  /\ UNCHANGED <<vars, view, size, loc, answer, reader, history>>

(* Rows of another table than the footer's would come out as an error or   *)
(* as rows of neither: an answer of two tables stands for them.            *)
ReadParquetRows(q) ==
  /\ at[q] = "rows"
  /\ IF TablesBehind(q) = {}
     THEN /\ answer' = answer
          /\ Moves(q, "failed")
     ELSE /\ answer' = [answer EXCEPT ![q] = meta[q] \cup TablesBehind(q)]
          /\ Moves(q, "answered")
  /\ UNCHANGED <<vars, private, history>>

(* A prepared query is run again.                                          *)
Execute(q) ==
  /\ at[q] \in {"answered", "failed"}
  /\ loc[q] # {}
  /\ Moves(q, "located")
  /\ Begins(q)
  /\ UNCHANGED <<vars, private, answer, disturbed, overlapped>>

(***************************************************************************)
(* What happens to the file meanwhile.                                     *)
(***************************************************************************)
JobStep ==
  /\ \E j \in Job : EmbedPqcapIndex(j) \/ Fail(j)
  /\ disturbed' = [q \in Query |-> disturbed[q] \/ file' # file]
  /\ overlapped' = (overlapped \/ Cardinality({ j \in Job : pc'[j] \in Running }) > 1)
  /\ UNCHANGED <<at, private, answer, during>>

ReplacePath ==
  /\ Replace
  /\ view' = [q \in Query |-> IF view[q].live THEN [live |-> FALSE, image |-> file] ELSE view[q]]
  /\ during' = [q \in Query |-> during[q] \cup {placed'}]
  /\ disturbed' = [q \in Query |-> TRUE]
  /\ UNCHANGED <<at, size, loc, meta, answer, reader, overlapped>>

QueryInit ==
  /\ Init
  /\ at = [q \in Query |-> "idle"]
  /\ view = [q \in Query |-> [live |-> FALSE, image |-> EmptyImage]]
  /\ size = [q \in Query |-> 0]
  /\ loc = [q \in Query |-> {}]
  /\ meta = [q \in Query |-> {}]
  /\ answer = [q \in Query |-> {}]
  /\ reader = [q \in Query |-> NoReader]
  /\ during = [q \in Query |-> {}]
  /\ disturbed = [q \in Query |-> FALSE]
  /\ overlapped = FALSE

QueryStep(q) ==
  \/ \E suffix \in Suffix : ReplacementScan(q, suffix)
  \/ DetectCaptureFormat(q)
  \/ OpenPackets(q)
  \/ ReadPacket(q)
  \/ PqcapOffsetSize(q)
  \/ ParsePqcapMetadataLocation(q)
  \/ OpenSubFile(q)
  \/ ReadParquetMeta(q)
  \/ ReadParquetRows(q)
  \/ Execute(q)

QueryNext == (\E q \in Query : QueryStep(q)) \/ JobStep \/ ReplacePath

QuerySpec == QueryInit /\ [][QueryNext]_allVars

(***************************************************************************)
(* Properties.                                                             *)
(***************************************************************************)

(* Jobs have used the file only between the writes of others; and no job  *)
(* has stopped early or lost bytes, or no two have been at work at once.   *)
(* Without the first, an index of a part of the capture can be accepted.   *)
(* Without the second, a job that read what a dead one left can write its  *)
(* short image over the whole one of another.                              *)
Orderly == ~ clashed /\ (faults = 0 \/ ~ overlapped)

(* t says of the first packets of f, one by one, what Lists says of all.   *)
ListsFirst(t, f) ==
  /\ Len(t) <= Len(PacketsOf(f))
  /\ \A n \in DOMAIN t : IsRow(t[n], n, PacketsOf(f)[n])

(* A query of the metadata plane that returns rows returns one table, and  *)
(* the table lists the packets of a capture that was at the path while the *)
(* query ran, wherever its two opens and its reads fall between the steps  *)
(* of jobs, the parts of their writes included, and replacements, and      *)
(* however old a prepared location is: no mixture, no other capture's      *)
(* table, no bytes that are not a table.  Once a job has died while it     *)
(* wrote the capture, or lost its last bytes, others may index what is     *)
(* left of it: a table may then list only its first packets, and two       *)
(* tables may be met.                                                      *)
AnswerIsOneIndex ==
  \A q \in Query : at[q] = "answered" /\ Orderly =>
    \E c \in during[q] : \A t \in answer[q] :
      /\ ListsFirst(t, c.image)
      /\ faults = 0 => answer[q] = {t} /\ Lists(t, c.image)

PacketsIn(c) ==
  IF c.classic
  THEN [n \in 1..Len(c.records) |-> c.records[n].pkt]
  ELSE [n \in 1..Len(PacketsOf(c.image)) |-> PacketsOf(c.image)[n].body.pkt]

(* A query of the packet plane hands out the packets of the capture that  *)
(* was at the path when its reader was opened, from the first one on, each *)
(* once and none left out, whatever part of the file jobs have written or  *)
(* truncated when a packet is read; it may miss the last ones.  Once a job *)
(* has died or lost bytes, the last packet handed out may be one that the  *)
(* write cut and whose missing bytes are those of an index.                *)
PacketPlaneIsPrefix ==
  \A q \in Query : at[q] \in {"reading", "done"} /\ Orderly =>
    LET got == reader[q].got
    IN  \E c \in during[q] :
          /\ Leads([n \in DOMAIN got |-> got[n].pkt], PacketsIn(c))
          /\ \A n \in DOMAIN got : got[n].whole \/ (faults > 0 /\ n = Len(got))

(* As long as jobs run one after the other, a query that has located an    *)
(* index fails only if the file was written to or replaced since: what the *)
(* locator accepts can be read, whatever jobs that died have left behind.  *)
(* (One that reads the capture while another has it truncated writes its   *)
(* index over the other's, whose footer then stands behind bytes that are  *)
(* no table, and every query fails.)                                       *)
LocatedIsReadable ==
  ~ overlapped =>
    \A q \in Query : at[q] = "failed" /\ loc[q] # {} => disturbed[q]
==============================================================================
