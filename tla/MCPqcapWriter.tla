---------------------------- MODULE MCPqcapWriter ----------------------------
(***************************************************************************)
(* Instances of PqcapWriter.  Packet sizes are such that a torn packet     *)
(* block can end on the boundary of a later block.                         *)
(***************************************************************************)
EXTENDS PqcapWriter

MCPacket == 1..7

GoodRow(p, payload, link) ==
  [pkt |-> p, ok |-> TRUE, payload |-> payload, data_link |-> link,
   captured_length |-> 0]

BadRow(p) == [GoodRow(p, 0, 0) EXCEPT !.ok = FALSE]

(* Four chunks: two rows, one row with another link type and a user's own  *)
(* captured length, two rows the first of whose link types does not fit 16 *)
(* bits, and a row that the sink refuses behind one that it takes.         *)
ThreadChunks == {"a", "b", "c", "d"}

ThreadRows ==
  [c \in ThreadChunks |->
     CASE c = "a" -> <<GoodRow(1, 4, 0), GoodRow(2, 0, 7)>>
       [] c = "b" -> <<[GoodRow(3, 5, 7) EXCEPT !.captured_length = 9]>>
       [] c = "c" -> <<GoodRow(4, 8, 16), GoodRow(5, 1, 1)>>
       [] c = "d" -> <<GoodRow(6, 1, 0), BadRow(7)>>]

FaultChunks == {"a", "b"}

FaultRows ==
  [c \in FaultChunks |->
     CASE c = "a" -> <<GoodRow(1, 20, 0), GoodRow(2, 0, 7), GoodRow(3, 12, 9)>>
       [] c = "b" -> <<GoodRow(4, 0, 0)>>]

AllColumns == {"timestamp_micros", "orig_len", "payload", "data_link"}

Statement(mode, linktype) ==
  [mode |-> mode, linktype |-> linktype, known |-> TRUE, columns |-> AllColumns]

LegalStatements == {Statement("pqcap", 1), Statement("pcapng", 7)}

AllStatements ==
  LegalStatements \cup
  {Statement("parquet", 1), Statement("pqcap", 16),
   [Statement("pqcap", 1) EXCEPT !.known = FALSE],
   [Statement("pqcap", 1) EXCEPT !.columns = @ \ {"payload"}]}
==============================================================================
