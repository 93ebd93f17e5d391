---------------------------- MODULE PacketFields ----------------------------
(***************************************************************************)
(* The address, port and protocol columns of read_pqcap_packets, computed  *)
(* from the link type and the captured bytes of a packet (ParseL4Fields,   *)
(* src/pqcap_packet_table.cpp).                                            *)
(*                                                                         *)
(* frame is memory: the captured bytes are its first `snap` ones, what     *)
(* follows is not the packet's.  The code's cursor is a position in it,    *)
(* counted from 0; bytes are read one by one and are never beyond frame in *)
(* the behaviours below.  Addresses are their bytes, protocols are tuples. *)
(***************************************************************************)
EXTENDS Integers, Sequences

CONSTANTS
  Frames,  \* packets, with what may follow them in memory
  Links    \* data link types

Byte == 0..255

Frame == Seq(Byte)

ASSUME FieldsAssumption ==
  /\ Frames \subseteq Frame
  /\ Links \subseteq Nat

DLT_EN10MB    == 1
DLT_RAW       == 101
DLT_LINUX_SLL == 113

IPV4 == 2048   \* 0x0800
IPV6 == 34525  \* 0x86DD
VLAN == {33024, 34984}  \* 0x8100, 0x88A8

TCP == 6
UDP == 17

(***************************************************************************)
(* Reading memory.                                                         *)
(***************************************************************************)
At(f, pos) == f[pos + 1]

ReadBE16(f, pos) == At(f, pos) * 256 + At(f, pos + 1)

BytesAt(f, pos, n) == [i \in 1..n |-> At(f, pos + i - 1)]

(***************************************************************************)
(* ParsedL4Fields.                                                         *)
(***************************************************************************)
Nothing(protocol) == [src |-> <<>>, dst |-> <<>>, ports |-> <<>>, protocol |-> protocol]

Unknown == Nothing(<<"UNKNOWN">>)

Addresses(src, dst) == [src |-> src, dst |-> dst, ports |-> <<>>, protocol |-> <<"UNKNOWN">>]

WithPorts(out, f, pos, protocol) ==
  [out EXCEPT !.ports = <<ReadBE16(f, pos), ReadBE16(f, pos + 2)>>, !.protocol = protocol]

TcpHeaderLen(f, pos) == 4 * (At(f, pos + 12) \div 16)

(* Mutant: the header's own length is not looked at.                       *)
TransportUnchecked(out, f, pos, end, protocol, other) ==
  IF protocol = TCP
  THEN WithPorts(out, f, pos, <<"TCP">>)
  ELSE IF protocol = UDP /\ end - pos >= 8
       THEN WithPorts(out, f, pos, <<"UDP">>)
       ELSE [out EXCEPT !.protocol = other]

(* Mutant: a TCP header that is cut makes the packet unknown.              *)
TransportOrNothing(out, f, pos, end, protocol, other) ==
  IF protocol = TCP /\ end - pos >= 20
  THEN IF TcpHeaderLen(f, pos) >= 20 /\ end - pos >= TcpHeaderLen(f, pos)
       THEN WithPorts(out, f, pos, <<"TCP">>)
       ELSE Unknown
  ELSE IF protocol = UDP /\ end - pos >= 8
       THEN WithPorts(out, f, pos, <<"UDP">>)
       ELSE [out EXCEPT !.protocol = other]

(* What follows the header of IPv4 and of IPv6, between pos and end.       *)
Transport(out, f, pos, end, protocol, other) ==
  IF protocol = TCP /\ end - pos >= 20
  THEN IF TcpHeaderLen(f, pos) >= 20 /\ end - pos >= TcpHeaderLen(f, pos)
       THEN WithPorts(out, f, pos, <<"TCP">>)
       ELSE out
  ELSE IF protocol = UDP /\ end - pos >= 8
       THEN WithPorts(out, f, pos, <<"UDP">>)
       ELSE [out EXCEPT !.protocol = other]

HeaderLen4(f, pos) == 4 * (At(f, pos) % 16)

ParseIPv4(f, pos, end) ==
  IF end - pos < 20 THEN Unknown
  ELSE IF HeaderLen4(f, pos) < 20 \/ end - pos < HeaderLen4(f, pos) THEN Unknown
  ELSE Transport(Addresses(BytesAt(f, pos + 12, 4), BytesAt(f, pos + 16, 4)),
                 f, pos + HeaderLen4(f, pos), end,
                 At(f, pos + 9), <<"IP", At(f, pos + 9)>>)

ParseIPv6(f, pos, end) ==
  IF end - pos < 40 THEN Unknown
  ELSE Transport(Addresses(BytesAt(f, pos + 8, 16), BytesAt(f, pos + 24, 16)),
                 f, pos + 40, end, At(f, pos + 6), <<"IP6", At(f, pos + 6)>>)

(***************************************************************************)
(* The link layers.                                                        *)
(***************************************************************************)
Network(f, pos, end, type, other) ==
  IF type = IPV4 THEN ParseIPv4(f, pos, end)
  ELSE IF type = IPV6 THEN ParseIPv6(f, pos, end)
  ELSE Nothing(<<other, type>>)

RawFields(f, end) ==
  LET version == At(f, 0) \div 16
  IN  IF version = 4 THEN ParseIPv4(f, 0, end)
      ELSE IF version = 6 THEN ParseIPv6(f, 0, end)
      ELSE Nothing(<<"RAW">>)

SllFields(f, end) ==
  IF end < 16 THEN Nothing(<<"SLL">>)
  ELSE Network(f, 16, end, ReadBE16(f, 14), "SLL")

(* One VLAN tag, if it is there whole, is skipped.                         *)
Tagged(f, end) == ReadBE16(f, 12) \in VLAN /\ end - 14 >= 4

(* Mutant: the tag's length is not added to the header's.                  *)
EthernetFieldsTagKept(f, end, link) ==
  IF end < 14 THEN Nothing(<<"LINK", link>>)
  ELSE IF Tagged(f, end) THEN Network(f, 14, end, ReadBE16(f, 16), "ETH")
  ELSE Network(f, 14, end, ReadBE16(f, 12), "ETH")

EthernetFields(f, end, link) ==
  IF end < 14 THEN Nothing(<<"LINK", link>>)
  ELSE IF Tagged(f, end) THEN Network(f, 18, end, ReadBE16(f, 16), "ETH")
  ELSE Network(f, 14, end, ReadBE16(f, 12), "ETH")

ParseL4Fields(link, f, end) ==
  IF end = 0 THEN Unknown
  ELSE IF link = DLT_RAW THEN RawFields(f, end)
  ELSE IF link = DLT_LINUX_SLL THEN SllFields(f, end)
  ELSE EthernetFields(f, end, link)

(***************************************************************************)
(* A packet that is captured with one snap length after the other.         *)
(***************************************************************************)
VARIABLES frame, link, snap

vars == <<frame, link, snap>>

Init ==
  /\ frame \in Frames
  /\ link \in Links
  /\ snap = 0

Longer ==
  /\ snap < Len(frame)
  /\ snap' = snap + 1
  /\ UNCHANGED <<frame, link>>

(* Something else is in memory behind the captured bytes.                  *)
Elsewhere ==
  /\ frame' \in { f \in Frames : Len(f) >= snap /\ SubSeq(f, 1, snap) = SubSeq(frame, 1, snap) }
  /\ UNCHANGED <<link, snap>>

Next == Longer \/ Elsewhere

Spec == Init /\ [][Next]_vars

(***************************************************************************)
(* Properties.                                                             *)
(***************************************************************************)
Fields == ParseL4Fields(link, frame, snap)

(* The columns depend on the link type and on the captured bytes alone: no *)
(* header length, tag or offset that a packet holds makes the parser look  *)
(* at a byte behind them.                                                  *)
OnlyCapturedBytes == [][snap' = snap => Fields' = Fields]_vars

(* A longer capture of a packet never takes back or changes an address or  *)
(* a port that a shorter one has shown.  (The protocol may change: a cut   *)
(* TCP header reads as "IP_6", then as "UNKNOWN", then as "TCP".)          *)
SnapMonotone ==
  [][/\ Fields.src # <<>> => Fields'.src = Fields.src /\ Fields'.dst = Fields.dst
     /\ Fields.ports # <<>> => Fields'.ports = Fields.ports
                               /\ Fields'.protocol = Fields.protocol]_vars

(* The headers that carry an IP datagram of the given version.             *)
EtherType(version) == IF version = 4 THEN <<8, 0>> ELSE <<134, 221>>

Zeros(n) == [i \in 1..n |-> 0]

Carriers(version) ==
  { [link |-> DLT_EN10MB,    header |-> Zeros(12) \o EtherType(version)],
    [link |-> DLT_EN10MB,    header |-> Zeros(12) \o <<129, 0, 0, 5>> \o EtherType(version)],
    [link |-> DLT_EN10MB,    header |-> Zeros(12) \o <<136, 168, 0, 5>> \o EtherType(version)],
    [link |-> DLT_LINUX_SLL, header |-> Zeros(14) \o EtherType(version)] }

(* An IP datagram gives the same columns whatever carries it: alone, in an *)
(* Ethernet frame with no or one tag, or in a cooked Linux frame, and with *)
(* any of its bytes captured.                                              *)
CarrierIndependent ==
  link = DLT_RAW /\ frame # <<>> =>
    LET version == At(frame, 0) \div 16
    IN  version \in {4, 6} =>
          \A c \in Carriers(version) :
            ParseL4Fields(c.link, c.header \o frame, Len(c.header) + snap) = Fields
==============================================================================
