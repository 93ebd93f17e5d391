---------------------------- MODULE PacketTable ----------------------------
(***************************************************************************)
(* read_pqcap_packets(path): bind, the look at the magic number, the open  *)
(* of a reader, and the calls that fill a chunk each                       *)
(* (src/pqcap_packet_table.cpp).  The magic number and the packets are     *)
(* read through two opens of the path.  Meanwhile the program that writes  *)
(* the capture may go on writing it (Grow), and another one may put a new  *)
(* file at the path or remove it (Replace): an open handle keeps the old   *)
(* one.                                                                    *)
(*                                                                         *)
(* A 32-bit integer is its four bytes, least significant first.  The       *)
(* columns that are computed from the packet's bytes are in PacketFields.  *)
(***************************************************************************)
EXTENDS Integers, Sequences

CONSTANTS
  ByteBase,    \* 2^8
  Captures,    \* the captures that may be at the path, as they will be once
               \* their writers have finished
  Payload,     \* the contents of packets
  NULL,        \* the value of an SQL cell, and a pointer
  VectorSize,  \* STANDARD_VECTOR_SIZE, the most rows of a chunk
  MaxReplaced  \* bound on the files put at the path

U16 == ByteBase * ByteBase

U32 == U16 * U16

Word == [1..4 -> 0..(ByteBase - 1)]

(* A packet as its program meant it.  interface and comment are of PCAP-NG *)
(* only; sub is in the unit of the capture; data is what the packet holds, *)
(* incl bytes of it.                                                       *)
Record == [sec : Word, sub : Word, incl : Word, orig : Word,
           interface : 0..(U32 - 1), link : 0..(U16 - 1),
           comment : {NULL} \cup STRING, data : Payload]

(* A value of type BLOB.                                                   *)
Blob == [data : Payload, size : Nat]

(* A classic capture has its magic number in one of two byte orders and    *)
(* with one of two units, and one link type for all packets.               *)
Capture == [format : {"pcapng", "pcap", "other"}, swapped : BOOLEAN, nanos : BOOLEAN,
            linktype : Word, records : Seq(Record)]

ASSUME TableAssumption ==
  /\ ByteBase \in Nat \ {0, 1}
  /\ Captures \subseteq Capture
  /\ NULL \notin Blob \cup STRING
  /\ VectorSize \in Nat \ {0}
  /\ MaxReplaced \in Nat

VARIABLES
  file,      \* what is at the path
  replaced,  \* how often that was replaced
  stage,     \* how far the scan is, or how it ended
  kind,      \* CaptureReaderKind: what the first open saw
  unmoved,   \* auxiliary: no other file has been put at the path since then
  handle,    \* of the reader: "none", "open", "closed", "leaked"
  source,    \* the file that the reader has opened
  linked,    \* source is still the file at the path
  present,   \* auxiliary: the records in source when it was opened
  next,      \* the record that the reader is at
  finished,  \* PqcapPacketsGlobalState.finished
  calling,   \* a call is filling a chunk
  chunk,     \* the rows of that call
  output     \* the rows that the query has received

disk     == <<file, replaced>>
detected == <<kind, unmoved>>
reader   == <<handle, source, linked, present>>
call     == <<next, finished, calling, chunk, output>>
vars     == <<disk, stage, detected, reader, call>>

(***************************************************************************)
(* Files.  What is on disk of a capture: how much of its header (no file,  *)
(* less than the magic number, the magic number, all of it), how many      *)
(* whole records, and whether the one behind them is cut in its 16-byte    *)
(* header or in its data.                                                  *)
(***************************************************************************)
OnDisk == [capture : Captures, head : {"absent", "short", "magic", "whole"},
           whole : Nat, cut : {"no", "header", "data"}]

Number(w) == w[1] + ByteBase * (w[2] + ByteBase * (w[3] + ByteBase * w[4]))

Complete(f) == f.head = "whole" /\ f.whole = Len(f.capture.records)

NewFiles ==
  { [capture |-> c, head |-> head, whole |-> 0, cut |-> "no"] :
      c \in Captures, head \in {"absent", "short"} } \cup
  UNION { { [capture |-> c, head |-> "whole", whole |-> n, cut |-> "no"] :
              n \in 0..Len(c.records) } : c \in Captures }

(* What becomes of a file when its writer puts some more bytes into it.    *)
Longer(f) ==
  IF f.head = "absent" \/ Complete(f) THEN {}
  ELSE IF f.head # "whole"
       THEN {[f EXCEPT !.head = IF f.head = "short" THEN "magic" ELSE "whole"]}
       ELSE {[f EXCEPT !.whole = @ + 1, !.cut = "no"]} \cup
            (IF f.cut = "no" THEN {[f EXCEPT !.cut = "header"]} ELSE {}) \cup
            (IF f.cut # "data" /\ Number(f.capture.records[f.whole + 1].incl) > 0
             THEN {[f EXCEPT !.cut = "data"]} ELSE {})

Grow ==
  /\ file' \in Longer(file)
  /\ source' = IF linked THEN file' ELSE source
  /\ UNCHANGED <<replaced, stage, detected, handle, linked, present, call>>

Replace ==
  /\ replaced < MaxReplaced
  /\ replaced' = replaced + 1
  /\ file' \in NewFiles
  /\ linked' = FALSE
  /\ unmoved' = FALSE
  /\ UNCHANGED <<stage, kind, handle, source, present, call>>

(***************************************************************************)
(* Bind, and the global state: one open for the magic number, one for the  *)
(* reader.  The constructor of the classic reader throws after its fopen   *)
(* when the file has changed or its header is cut; its destructor, which   *)
(* would close the file, does not run then.                                *)
(***************************************************************************)
ReadPqcapPacketsBind(inputs) ==
  /\ stage = "bind"
  /\ stage' = IF Len(inputs) = 1 /\ inputs[1] # NULL THEN "init" ELSE "failed"
  /\ UNCHANGED <<disk, detected, reader, call>>

(* Mutant: what is not PCAP-NG is taken for a classic capture.             *)
DetectPcapngOnly ==
  /\ stage = "init"
  /\ IF file.head \in {"magic", "whole"}
     THEN stage' = "open" /\ kind' = IF file.capture.format = "pcapng" THEN "pcapng" ELSE "pcap"
     ELSE stage' = "failed" /\ kind' = kind
  /\ unmoved' = TRUE
  /\ UNCHANGED <<disk, reader, call>>

DetectCaptureFormat ==
  /\ stage = "init"
  /\ IF file.head \in {"magic", "whole"} /\ file.capture.format # "other"
     THEN stage' = "open" /\ kind' = file.capture.format
     ELSE stage' = "failed" /\ kind' = kind
  /\ unmoved' = TRUE
  /\ UNCHANGED <<disk, reader, call>>

OpenReader ==
  /\ stage = "open"
  /\ IF file.head = "whole" /\ file.capture.format = kind
     THEN /\ stage' = "scan"
          /\ handle' = "open"
          /\ source' = file
          /\ linked' = TRUE
          /\ present' = file.whole
     ELSE /\ stage' = "failed"
          /\ handle' = IF kind = "pcap" /\ file.head # "absent" THEN "leaked" ELSE "none"
          /\ UNCHANGED <<source, linked, present>>
  /\ UNCHANGED <<disk, detected, call>>

(***************************************************************************)
(* The header that a reader hands out of a record.                         *)
(***************************************************************************)
(* Mutant: the bytes of each half are exchanged, not those of the word.    *)
Swap16s(v) == <<v[2], v[1], v[4], v[3]>>

Swap32(v) == <<v[4], v[3], v[2], v[1]>>

(* What fread delivers of a word that a host of the other order wrote.     *)
Stored(w, swapped) == IF swapped THEN [i \in 1..4 |-> w[5 - i]] ELSE w

ReadU32(word, swap_endian) == IF swap_endian THEN Swap32(word) ELSE word

ClassicHeader(c, rec) ==
  LET u32(w) == Number(ReadU32(Stored(w, c.swapped), c.swapped))
  IN  [interface_id |-> 0, data_link |-> u32(c.linktype) % U16,
       captured_length |-> u32(rec.incl), original_length |-> u32(rec.orig),
       tv_sec |-> u32(rec.sec),
       tv_nsec |-> IF c.nanos THEN u32(rec.sub) ELSE u32(rec.sub) * 1000,
       comment |-> NULL]

(* LightPcapNg's (external).                                               *)
PcapngHeader(rec) ==
  [interface_id |-> rec.interface, data_link |-> rec.link,
   captured_length |-> Number(rec.incl), original_length |-> Number(rec.orig),
   tv_sec |-> Number(rec.sec), tv_nsec |-> Number(rec.sub), comment |-> rec.comment]

HeaderOf(c, rec) == IF c.format = "pcap" THEN ClassicHeader(c, rec) ELSE PcapngHeader(rec)

TimestampMicros(header) == header.tv_sec * 1000000 + header.tv_nsec \div 1000

(* The row of a packet; the payload of an empty one is NULL.               *)
RowFrom(header, data) ==
  [timestamp_micros |-> TimestampMicros(header),
   interface_id     |-> header.interface_id,
   data_link        |-> header.data_link,
   captured_length  |-> header.captured_length,
   orig_len         |-> header.original_length,
   comment          |-> IF header.comment = "" THEN NULL ELSE header.comment,
   payload          |-> IF header.captured_length > 0
                         THEN [data |-> data, size |-> header.captured_length] ELSE NULL]

RowAt(c, n) == RowFrom(HeaderOf(c, c.records[n]), c.records[n].data)

(***************************************************************************)
(* ReadPqcapPacketsFunction: one call after the other (MaxThreads is 1),   *)
(* until one returns no row.  Then, or after an exception, or when it has  *)
(* enough rows, the query destroys the state, which closes the reader.     *)
(***************************************************************************)
(* Mutant: the state has no destructor.                                    *)
DestroyOnly(how) ==
  /\ stage' = how
  /\ handle' = handle

Destroy(how) ==
  /\ stage' = how
  /\ handle' = "closed"

BeginCall ==
  /\ stage = "scan"
  /\ ~ calling
  /\ ~ finished
  /\ calling' = TRUE
  /\ UNCHANGED <<disk, stage, detected, reader, next, finished, chunk, output>>

(* Mutant: one row more than a chunk holds.                                *)
MayReadOneMore ==
  /\ calling
  /\ ~ finished
  /\ Len(chunk) <= VectorSize

MayRead ==
  /\ calling
  /\ ~ finished
  /\ Len(chunk) < VectorSize

ReadRow ==
  /\ MayRead
  /\ next <= source.whole
  /\ chunk' = Append(chunk, RowAt(source.capture, next))
  /\ next' = next + 1
  /\ UNCHANGED <<disk, stage, detected, reader, finished, calling, output>>

(* Mutant: the end of the file is not remembered.                          *)
ReadEndForgotten ==
  /\ MayRead
  /\ next > source.whole
  /\ kind = "pcap" => source.cut # "data"
  /\ UNCHANGED <<disk, stage, detected, reader, next, finished, calling, chunk, output>>

(* A record that is cut in its header is taken for the end.                *)
ReadEnd ==
  /\ MayRead
  /\ next > source.whole
  /\ kind = "pcap" => source.cut # "data"
  /\ finished' = TRUE
  /\ UNCHANGED <<disk, stage, detected, reader, next, calling, chunk, output>>

(* "truncated pcap packet data": the rows of this call are lost.           *)
ReadTruncated ==
  /\ MayRead
  /\ next > source.whole
  /\ kind = "pcap" /\ source.cut = "data"
  /\ calling' = FALSE
  /\ chunk' = <<>>
  /\ Destroy("failed")
  /\ UNCHANGED <<disk, detected, source, linked, present, next, finished, output>>

EndCall ==
  /\ calling
  /\ finished \/ Len(chunk) = VectorSize
  /\ calling' = FALSE
  /\ chunk' = <<>>
  /\ output' = output \o chunk
  /\ IF chunk = <<>> THEN Destroy("ended") ELSE UNCHANGED <<stage, handle>>
  /\ UNCHANGED <<disk, detected, source, linked, present, next, finished>>

CallFinished ==
  /\ stage = "scan"
  /\ ~ calling
  /\ finished
  /\ Destroy("ended")
  /\ UNCHANGED <<disk, detected, source, linked, present, call>>

Cancel ==
  /\ stage = "scan"
  /\ ~ calling
  /\ Destroy("cancelled")
  /\ UNCHANGED <<disk, detected, source, linked, present, call>>

Init ==
  /\ file \in NewFiles
  /\ replaced = 0
  /\ stage = "bind"
  /\ kind = "pcapng"
  /\ unmoved = FALSE
  /\ handle = "none"
  /\ source = file
  /\ linked = FALSE
  /\ present = 0
  /\ next = 1
  /\ finished = FALSE
  /\ calling = FALSE
  /\ chunk = <<>>
  /\ output = <<>>

Arguments == {<<>>, <<NULL>>, <<"path">>, <<"path", "path">>}

Scan ==
  \/ \E inputs \in Arguments : ReadPqcapPacketsBind(inputs)
  \/ DetectCaptureFormat
  \/ OpenReader
  \/ BeginCall
  \/ ReadRow
  \/ ReadEnd
  \/ ReadTruncated
  \/ EndCall
  \/ CallFinished

Next == Scan \/ Cancel \/ Grow \/ Replace

Spec == Init /\ [][Next]_vars

(***************************************************************************)
(* Properties.                                                             *)
(***************************************************************************)
Over == {"ended", "failed", "cancelled"}

Row == [timestamp_micros : Nat, interface_id : Nat, data_link : Nat,
        captured_length : Nat, orig_len : Nat, comment : {NULL} \cup STRING,
        payload : {NULL} \cup Blob]

(* The variables have their types.                                         *)
TypeOK ==
  /\ file \in OnDisk
  /\ file.whole <= Len(file.capture.records)
  /\ replaced \in 0..MaxReplaced
  /\ stage \in {"bind", "init", "open", "scan"} \cup Over
  /\ kind \in {"pcapng", "pcap"}
  /\ unmoved \in BOOLEAN
  /\ handle \in {"none", "open", "closed", "leaked"}
  /\ source \in OnDisk
  /\ source.whole <= Len(source.capture.records)
  /\ linked \in BOOLEAN
  /\ present \in Nat
  /\ next \in Nat \ {0}
  /\ finished \in BOOLEAN
  /\ calling \in BOOLEAN
  /\ chunk \in Seq(Row) /\ Len(chunk) <= VectorSize
  /\ output \in Seq(Row)

(* What the row of a packet should say, in terms of the numbers that the   *)
(* program meant that wrote the capture.                                   *)
MeantMicros(c, rec) ==
  Number(rec.sec) * 1000000
    + (IF c.format = "pcap" /\ ~ c.nanos THEN Number(rec.sub)
                                         ELSE Number(rec.sub) \div 1000)

MeantRow(c, rec) ==
  [timestamp_micros |-> MeantMicros(c, rec),
   interface_id    |-> IF c.format = "pcap" THEN 0 ELSE rec.interface,
   data_link       |-> IF c.format = "pcap" THEN Number(c.linktype) % U16 ELSE rec.link,
   captured_length |-> Number(rec.incl),
   orig_len        |-> Number(rec.orig),
   comment         |-> IF c.format = "pcap" \/ rec.comment = "" THEN NULL ELSE rec.comment,
   payload         |-> IF Number(rec.incl) = 0 THEN NULL
                       ELSE [data |-> rec.data, size |-> Number(rec.incl)]]

MeantRows(c) == [n \in 1..Len(c.records) |-> MeantRow(c, c.records[n])]

WasOpened == handle \in {"open", "closed"}

Stream ==
  INSTANCE PacketStream WITH
    Streams   <- { MeantRows(c) : c \in Captures },
    Batch     <- VectorSize,
    status    <- IF stage \in {"bind", "init", "open"} THEN "closed"
                 ELSE IF stage = "scan" THEN "open" ELSE stage,
    stream    <- IF WasOpened THEN MeantRows(source.capture) ELSE <<>>,
    delivered <- output

(* The query receives the packets of the capture that was opened, each     *)
(* once, in file order, with the values their program meant, whatever the  *)
(* byte order; no packet that was there at the open is missing at the end, *)
(* also when the number of packets is a multiple of the chunk size; and a  *)
(* scan that has begun fails only on a capture that was still being        *)
(* written.  Files that are replaced or grow under the reader included.    *)
ImplementsStream == Stream!Spec

(* The reader is closed when the scan is over, whichever way it ended: the *)
(* destructor of the state runs after the last call, after an exception    *)
(* and after an early end.  What leaks was never a reader.                 *)
HandleClosed ==
  stage \in Over => /\ handle # "open"
                    /\ handle = "leaked" => stage = "failed" /\ output = <<>>

(* A constructor that throws leaks its file only if another file was put   *)
(* at the path between the two opens, or if the global header was cut at   *)
(* the second: a file with a whole header that stays where it is from the  *)
(* first open to the second never leaks, whatever its format and whatever  *)
(* was at the path before.                                                 *)
LeakHasCause ==
  [][handle = "none" /\ handle' = "leaked" => ~ unmoved \/ file.head = "magic"]_vars
==============================================================================
