--------------------------- MODULE MCPqcapRepack ---------------------------
(***************************************************************************)
(* Instances of PqcapRepack on the captures of MCPacketTable.              *)
(***************************************************************************)
EXTENDS PqcapRepack, MCPacketTable

RepackCaptures ==
  TableCaptures \cup {File("pcap", TRUE, FALSE, <<Packet(0, 9, 3, "q")>>)}
==============================================================================
