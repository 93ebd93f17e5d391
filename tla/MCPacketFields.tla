-------------------------- MODULE MCPacketFields --------------------------
(***************************************************************************)
(* Instances of PacketFields: IP datagrams, alone and in frames, that      *)
(* differ in the bytes the parser looks at: the length of the IP header,   *)
(* the protocol, the length of the TCP header, the type of the frame.      *)
(***************************************************************************)
EXTENDS PacketFields

(* n bytes, the one at `pos` (from 0) given, the others near it.           *)
Filled(n, pos, byte) == [i \in 1..n |-> IF i = pos + 1 THEN byte ELSE byte + i]

Datagram4(first, protocol, offset) ==
  LET options == 4 * (first % 16) - 20
  IN  <<first>> \o Zeros(8) \o <<protocol, 0, 0, 10, 0, 0, 1, 10, 0, 0, 2>>
        \o Filled(30, (IF options \in {0, 4} THEN options ELSE 0) + 12, offset)

Datagram6(protocol, offset) ==
  <<96>> \o Zeros(5) \o <<protocol, 0>> \o Filled(32, 0, 32) \o Filled(26, 12, offset)

(* Header lengths 20, 24, 60 and 0; of TCP 20, 24 and 4.                   *)
Datagrams ==
  { Datagram4(first, protocol, offset) :
      first \in {69, 70, 79, 64}, protocol \in {1, 6, 17}, offset \in {80, 96, 16} } \cup
  { Datagram6(protocol, offset) : protocol \in {0, 6, 17}, offset \in {80, 96, 16} }

Carried ==
  { Datagram4(first, protocol, 96) : first \in {69, 70}, protocol \in {6, 17} } \cup
  { Datagram6(protocol, 96) : protocol \in {6, 17} }

Tag == <<129, 0, 0, 5>>

LinkHeaders ==
  { c.header : c \in Carriers(4) \cup Carriers(6) } \cup
  { Zeros(12) \o Tag \o Tag \o EtherType(4), Zeros(12) \o <<8, 6>>, Zeros(14) \o <<8, 6>> }

MCFrames == Datagrams \cup { h \o d : h \in LinkHeaders, d \in Carried } \cup {Zeros(20)}
==============================================================================
