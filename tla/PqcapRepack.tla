---------------------------- MODULE PqcapRepack ----------------------------
(***************************************************************************)
(* COPY (SELECT ... FROM read_pqcap_packets(in)) TO out (FORMAT pcapng):   *)
(* the scan of PacketTable feeds the sink of src/pqcap_copy_function.cpp.  *)
(* The scan has one thread, so chunks reach the sink one by one, in order. *)
(* What several threads and failing writes do to the sink and its          *)
(* finalizer is in PqcapWriter.                                            *)
(***************************************************************************)
EXTENDS PacketTable

CONSTANT Linktype  \* PqcapCopyBindData.linktype

ASSUME LinktypeAssumption == Linktype \in 1..(U16 - 1)

VARIABLES
  copy,     \* the COPY is "running", "done" or "failed"
  handed,   \* the rows that the sink has been through
  written   \* the packets it has written

sink == <<copy, handed, written>>

repackVars == <<vars, sink>>

(***************************************************************************)
(* One iteration of PcapngWriteSink: the header that light_write_packet is *)
(* given, with the bytes of the payload.  timestamp_micros goes back to    *)
(* two fields, a link type of 0 is taken for an absent one, the captured   *)
(* length is the size of the payload whatever its column says, and the     *)
(* header has no comment: the column is read and not used.  A NULL payload *)
(* is refused.  The casts to 32 bits and to 16 bits are of numbers that    *)
(* were read from as many.                                                 *)
(***************************************************************************)
(* Mutant: the link type of a packet is not looked at.                     *)
WrittenHeaderOneLink(row) ==
  [interface_id    |-> row.interface_id,
   data_link       |-> Linktype,
   captured_length |-> row.payload.size,
   original_length |-> row.orig_len,
   tv_sec          |-> row.timestamp_micros \div 1000000,
   tv_nsec         |-> (row.timestamp_micros % 1000000) * 1000,
   comment         |-> NULL,
   data            |-> row.payload.data]

WrittenHeader(row) ==
  [interface_id    |-> row.interface_id,
   data_link       |-> IF row.data_link # 0 THEN row.data_link ELSE Linktype,
   captured_length |-> row.payload.size,
   original_length |-> row.orig_len,
   tv_sec          |-> row.timestamp_micros \div 1000000,
   tv_nsec         |-> (row.timestamp_micros % 1000000) * 1000,
   comment         |-> NULL,
   data            |-> row.payload.data]

SinkRow ==
  /\ copy = "running"
  /\ handed < Len(output)
  /\ handed' = handed + 1
  /\ LET row == output[handed + 1]
     IN  IF row.payload = NULL
         THEN copy' = "failed" /\ written' = written
         ELSE copy' = copy /\ written' = Append(written, WrittenHeader(row))
  /\ UNCHANGED vars

(* Mutant: the COPY does not care how the scan ended.                      *)
PipelineEndsAnyway ==
  /\ copy = "running"
  /\ handed = Len(output)
  /\ stage \in {"ended", "failed"}
  /\ copy' = "done"
  /\ UNCHANGED <<vars, handed, written>>

(* The pipeline ends when the scan does, and an exception of the scan is   *)
(* one of the COPY.  That is for DuckDB to see to (external): the function *)
(* of the extension that ends a COPY is only called if there was none.     *)
PipelineEnds ==
  /\ copy = "running"
  /\ handed = Len(output)
  /\ stage \in {"ended", "failed"}
  /\ copy' = IF stage = "ended" THEN "done" ELSE "failed"
  /\ UNCHANGED <<vars, handed, written>>

(* The source is called again once the sink has had its last chunk; the    *)
(* exception of the sink destroys the state of the scan.                   *)
Source ==
  /\ copy = "running"
  /\ handed = Len(output)
  /\ Scan
  /\ UNCHANGED sink

Abort ==
  /\ copy = "failed"
  /\ Cancel
  /\ UNCHANGED sink

(* The user interrupts the statement, between two calls.                   *)
Interrupt ==
  /\ copy = "running"
  /\ Cancel
  /\ copy' = "failed"
  /\ UNCHANGED <<handed, written>>

Disk == (Grow \/ Replace) /\ UNCHANGED sink

RepackInit ==
  /\ Init
  /\ copy = "running"
  /\ handed = 0
  /\ written = <<>>

RepackNext == Source \/ SinkRow \/ PipelineEnds \/ Abort \/ Interrupt \/ Disk

RepackSpec == RepackInit /\ [][RepackNext]_repackVars

FairRepack ==
  /\ RepackSpec
  /\ WF_repackVars(Source)
  /\ WF_repackVars(SinkRow)
  /\ WF_repackVars(PipelineEnds)
  /\ WF_repackVars(Abort)

(***************************************************************************)
(* Properties.                                                             *)
(***************************************************************************)

(* What is written are packets of the capture that was opened, in file     *)
(* order and with none in between left out, each with its data and both    *)
(* its lengths, its interface, its time to the microsecond and its link    *)
(* type, where a link type of 0 becomes that of the COPY; a comment is not *)
(* kept.  Chunks, timestamp_micros and the columns lose nothing else.      *)
RepackFaithful ==
  \A n \in DOMAIN written :
    LET out == written[n]
        rec == source.capture.records[n]
        row == MeantRow(source.capture, rec)
    IN  /\ n <= Len(source.capture.records)
        /\ out.data = rec.data
        /\ out.captured_length = Number(rec.incl)
        /\ out.original_length = Number(rec.orig)
        /\ out.interface_id = row.interface_id
        /\ out.data_link = IF row.data_link = 0 THEN Linktype ELSE row.data_link
        /\ out.tv_sec * 1000000 + out.tv_nsec \div 1000 = row.timestamp_micros
        /\ out.tv_nsec < 1000000000
        /\ out.comment = NULL

(* A COPY that reports success has written every packet that was in the    *)
(* source when it was opened.                                              *)
RepackWhole == copy = "done" => Len(written) >= present

(* The COPY and its source come to an end, also when the capture keeps     *)
(* growing and the number of packets is a multiple of the chunk size.      *)
RepackEnds == <>(copy \in {"done", "failed"} /\ stage \in Over)

(* "exposing capture headers and full frame bytes as payload BLOB"; "PQCAP *)
(* bundle (repack + index ...)": a COPY of a capture fails only when its   *)
(* scan fails, or when the user interrupts it.                             *)
RepackSucceeds == copy = "failed" => stage \in {"failed", "cancelled"}
==============================================================================
