------------------------ MODULE PacketFieldsProofs ------------------------
(***************************************************************************)
(* The parsers look at captured bytes only, a longer capture takes nothing *)
(* back, and the link header makes no difference: for all packets, header  *)
(* lengths and snap lengths.                                               *)
(*                                                                         *)
(* One comparison carries the first and the third: a parser that is given  *)
(* the same `end` bytes, `shift` positions further in another memory,      *)
(* finds the same fields.                                                  *)
(***************************************************************************)
EXTENDS PacketFields, SequenceTheorems, TLAPS

(* The first end bytes of f are those of g from shift on.                  *)
Shows(f, g, shift, end) ==
  \A p \in 0..(end - 1) : At(f, p) \in Byte /\ At(g, shift + p) = At(f, p)

FieldsInv ==
  /\ frame \in Frame
  /\ link \in Nat
  /\ snap \in 0..Len(frame)

(* Two bytes that are both captured read the same.                         *)
LEMMA ReadShifted ==
  ASSUME NEW f, NEW g, NEW shift \in Nat, NEW end \in Nat,
         NEW pos \in Nat, NEW to \in Nat,
         Shows(f, g, shift, end), to = shift + pos, pos + 2 =< end
  PROVE  ReadBE16(g, to) = ReadBE16(f, pos)
<1>1. pos \in 0..(end - 1) /\ pos + 1 \in 0..(end - 1)
  OBVIOUS
<1>2. At(g, shift + pos) = At(f, pos) /\ At(g, shift + (pos + 1)) = At(f, pos + 1)
  BY <1>1 DEF Shows
<1>3. shift + (pos + 1) = to + 1
  OBVIOUS
<1> QED  BY <1>2, <1>3 DEF ReadBE16

(* Addresses that are all captured read the same.                          *)
LEMMA BytesShifted ==
  ASSUME NEW f, NEW g, NEW shift \in Nat, NEW end \in Nat,
         NEW pos \in Nat, NEW to \in Nat, NEW n \in Nat,
         Shows(f, g, shift, end), to = shift + pos, pos + n =< end
  PROVE  BytesAt(g, to, n) = BytesAt(f, pos, n)
<1>1. ASSUME NEW i \in 1..n
      PROVE  At(g, to + i - 1) = At(f, pos + i - 1)
  <2>1. pos + i - 1 \in 0..(end - 1)
    OBVIOUS
  <2>2. shift + (pos + i - 1) = to + i - 1
    OBVIOUS
  <2> QED  BY <2>1, <2>2 DEF Shows
<1> QED  BY <1>1 DEF BytesAt

(* What follows the IP header.                                             *)
LEMMA TransportShifted ==
  ASSUME NEW f, NEW g, NEW shift \in Nat, NEW end \in Nat,
         NEW pos \in Nat, NEW to \in Nat, NEW last \in Nat,
         NEW out, NEW protocol, NEW other,
         Shows(f, g, shift, end), to = shift + pos, last = shift + end
  PROVE  Transport(out, g, to, last, protocol, other)
           = Transport(out, f, pos, end, protocol, other)
<1>1. last - to = end - pos
  OBVIOUS
<1>2. ASSUME end - pos >= 8, NEW name
      PROVE  WithPorts(out, g, to, name) = WithPorts(out, f, pos, name)
  <2>1. ASSUME NEW k \in 0..2
        PROVE  ReadBE16(g, to + k) = ReadBE16(f, pos + k)
    <3>1. /\ pos + k \in Nat /\ to + k \in Nat
          /\ to + k = shift + (pos + k) /\ (pos + k) + 2 =< end
      BY <1>2
    <3> QED  BY <3>1, ReadShifted
  <2>2. /\ ReadBE16(g, to + 0) = ReadBE16(f, pos + 0)
        /\ ReadBE16(g, to + 2) = ReadBE16(f, pos + 2)
        /\ to + 0 = to /\ pos + 0 = pos
    BY <2>1
  <2> QED  BY <2>2 DEF WithPorts
<1>3. CASE protocol = TCP /\ end - pos >= 20
  <2>1. At(g, shift + (pos + 12)) = At(f, pos + 12)
    BY <1>3 DEF Shows
  <2>2. shift + (pos + 12) = to + 12
    OBVIOUS
  <2>3. TcpHeaderLen(g, to) = TcpHeaderLen(f, pos)
    BY <2>1, <2>2 DEF TcpHeaderLen
  <2>4. WithPorts(out, g, to, <<"TCP">>) = WithPorts(out, f, pos, <<"TCP">>)
    BY <1>2, <1>3
  <2> QED  BY <1>1, <1>3, <2>3, <2>4 DEF Transport
<1>4. CASE ~(protocol = TCP /\ end - pos >= 20) /\ protocol = UDP /\ end - pos >= 8
  <2>1. WithPorts(out, g, to, <<"UDP">>) = WithPorts(out, f, pos, <<"UDP">>)
    BY <1>2, <1>4
  <2> QED  BY <1>1, <1>4, <2>1 DEF Transport
<1>5. CASE ~(protocol = TCP /\ end - pos >= 20) /\ ~(protocol = UDP /\ end - pos >= 8)
  BY <1>1, <1>5 DEF Transport
<1> QED  BY <1>3, <1>4, <1>5

(* An IPv4 header states its length, which moves what follows it.          *)
LEMMA IPv4Shifted ==
  ASSUME NEW f, NEW g, NEW shift \in Nat, NEW end \in Nat,
         NEW pos \in Nat, NEW to \in Nat, NEW last \in Nat,
         Shows(f, g, shift, end), to = shift + pos, last = shift + end
  PROVE  ParseIPv4(g, to, last) = ParseIPv4(f, pos, end)
<1>1. last - to = end - pos
  OBVIOUS
<1>2. CASE end - pos < 20
  BY <1>1, <1>2 DEF ParseIPv4
<1>3. CASE ~(end - pos < 20)
  <2>1. At(g, to) = At(f, pos) /\ At(f, pos) \in 0..255
    BY <1>3 DEF Shows, Byte
  <2>2. At(g, to + 9) = At(f, pos + 9)
    <3>1. At(g, shift + (pos + 9)) = At(f, pos + 9)
      BY <1>3 DEF Shows
    <3>2. shift + (pos + 9) = to + 9
      OBVIOUS
    <3> QED  BY <3>1, <3>2
  <2>3. HeaderLen4(g, to) = HeaderLen4(f, pos) /\ HeaderLen4(f, pos) \in Nat
    BY <2>1 DEF HeaderLen4
  <2>4. BytesAt(g, to + 12, 4) = BytesAt(f, pos + 12, 4)
    <3>1. /\ pos + 12 \in Nat /\ to + 12 \in Nat /\ 4 \in Nat
          /\ to + 12 = shift + (pos + 12) /\ (pos + 12) + 4 =< end
      BY <1>3
    <3> QED  BY <3>1, BytesShifted
  <2>5. BytesAt(g, to + 16, 4) = BytesAt(f, pos + 16, 4)
    <3>1. /\ pos + 16 \in Nat /\ to + 16 \in Nat /\ 4 \in Nat
          /\ to + 16 = shift + (pos + 16) /\ (pos + 16) + 4 =< end
      BY <1>3
    <3> QED  BY <3>1, BytesShifted
  <2>6. ASSUME NEW h \in Nat, NEW out, NEW protocol, NEW other
        PROVE  Transport(out, g, to + h, last, protocol, other)
                 = Transport(out, f, pos + h, end, protocol, other)
    <3>1. pos + h \in Nat /\ to + h \in Nat /\ to + h = shift + (pos + h)
      OBVIOUS
    <3> QED  BY <3>1, TransportShifted
  <2>7. CASE HeaderLen4(f, pos) < 20 \/ end - pos < HeaderLen4(f, pos)
    BY <1>1, <1>3, <2>3, <2>7 DEF ParseIPv4
  <2>8. CASE ~(HeaderLen4(f, pos) < 20 \/ end - pos < HeaderLen4(f, pos))
    <3> DEFINE h == HeaderLen4(f, pos)
               out == Addresses(BytesAt(f, pos + 12, 4), BytesAt(f, pos + 16, 4))
               protocol == At(f, pos + 9)
    <3>1. ParseIPv4(f, pos, end)
            = Transport(out, f, pos + h, end, protocol, <<"IP", protocol>>)
      BY <1>3, <2>8 DEF ParseIPv4
    <3>2. ParseIPv4(g, to, last)
            = Transport(out, g, to + h, last, protocol, <<"IP", protocol>>)
      BY <1>1, <1>3, <2>2, <2>3, <2>4, <2>5, <2>8 DEF ParseIPv4
    <3>3. h \in Nat
      BY <2>3
    <3> HIDE DEF h, out, protocol
    <3> QED  BY <2>6, <3>1, <3>2, <3>3
  <2> QED  BY <2>7, <2>8
<1> QED  BY <1>2, <1>3

(* An IPv6 header has a fixed length.                                      *)
LEMMA IPv6Shifted ==
  ASSUME NEW f, NEW g, NEW shift \in Nat, NEW end \in Nat,
         NEW pos \in Nat, NEW to \in Nat, NEW last \in Nat,
         Shows(f, g, shift, end), to = shift + pos, last = shift + end
  PROVE  ParseIPv6(g, to, last) = ParseIPv6(f, pos, end)
<1>1. last - to = end - pos
  OBVIOUS
<1>2. CASE end - pos < 40
  BY <1>1, <1>2 DEF ParseIPv6
<1>3. CASE ~(end - pos < 40)
  <2>1. At(g, to + 6) = At(f, pos + 6)
    <3>1. At(g, shift + (pos + 6)) = At(f, pos + 6)
      BY <1>3 DEF Shows
    <3>2. shift + (pos + 6) = to + 6
      OBVIOUS
    <3> QED  BY <3>1, <3>2
  <2>2. BytesAt(g, to + 8, 16) = BytesAt(f, pos + 8, 16)
    <3>1. /\ pos + 8 \in Nat /\ to + 8 \in Nat /\ 16 \in Nat
          /\ to + 8 = shift + (pos + 8) /\ (pos + 8) + 16 =< end
      BY <1>3
    <3> QED  BY <3>1, BytesShifted
  <2>3. BytesAt(g, to + 24, 16) = BytesAt(f, pos + 24, 16)
    <3>1. /\ pos + 24 \in Nat /\ to + 24 \in Nat /\ 16 \in Nat
          /\ to + 24 = shift + (pos + 24) /\ (pos + 24) + 16 =< end
      BY <1>3
    <3> QED  BY <3>1, BytesShifted
  <2> DEFINE out == Addresses(BytesAt(f, pos + 8, 16), BytesAt(f, pos + 24, 16))
             protocol == At(f, pos + 6)
  <2>4. ParseIPv6(f, pos, end)
          = Transport(out, f, pos + 40, end, protocol, <<"IP6", protocol>>)
    BY <1>3 DEF ParseIPv6
  <2>5. ParseIPv6(g, to, last)
          = Transport(out, g, to + 40, last, protocol, <<"IP6", protocol>>)
    BY <1>1, <1>3, <2>1, <2>2, <2>3 DEF ParseIPv6
  <2> HIDE DEF out, protocol
  <2>6. pos + 40 \in Nat /\ to + 40 \in Nat /\ to + 40 = shift + (pos + 40)
    OBVIOUS
  <2> QED  BY <2>4, <2>5, <2>6, TransportShifted
<1> QED  BY <1>2, <1>3

(* What a link header leads to.                                            *)
LEMMA NetworkShifted ==
  ASSUME NEW f, NEW g, NEW shift \in Nat, NEW end \in Nat,
         NEW pos \in Nat, NEW to \in Nat, NEW last \in Nat,
         NEW type, NEW other,
         Shows(f, g, shift, end), to = shift + pos, last = shift + end
  PROVE  Network(g, to, last, type, other) = Network(f, pos, end, type, other)
BY IPv4Shifted, IPv6Shifted DEF Network

(* Every link layer, as long as the bytes are at the same place.           *)
LEMMA SameBytesSameFields ==
  ASSUME NEW f, NEW g, NEW end \in Nat, NEW l, Shows(f, g, 0, end)
  PROVE  ParseL4Fields(l, g, end) = ParseL4Fields(l, f, end)
<1>1. ASSUME NEW pos \in Nat, NEW type, NEW other
      PROVE  Network(g, pos, end, type, other) = Network(f, pos, end, type, other)
  <2>1. 0 \in Nat /\ pos = 0 + pos /\ end = 0 + end
    OBVIOUS
  <2> QED  BY <2>1, NetworkShifted
<1>2. ASSUME NEW pos \in Nat, pos + 2 =< end
      PROVE  ReadBE16(g, pos) = ReadBE16(f, pos)
  <2>1. 0 \in Nat /\ pos = 0 + pos
    OBVIOUS
  <2> QED  BY <1>2, <2>1, ReadShifted
<1>3. CASE end > 0
  <2>1. RawFields(g, end) = RawFields(f, end)
    <3>1. 0 \in Nat /\ 0 = 0 + 0 /\ end = 0 + end
      OBVIOUS
    <3>2. /\ ParseIPv4(g, 0, end) = ParseIPv4(f, 0, end)
          /\ ParseIPv6(g, 0, end) = ParseIPv6(f, 0, end)
      BY <3>1, IPv4Shifted, IPv6Shifted
    <3>3. At(g, 0) = At(f, 0)
      BY <1>3 DEF Shows
    <3> QED  BY <3>2, <3>3 DEF RawFields
  <2>2. SllFields(g, end) = SllFields(f, end)
    BY <1>1, <1>2 DEF SllFields
  <2>3. EthernetFields(g, end, l) = EthernetFields(f, end, l)
    <3>1. CASE end < 14
      BY <3>1 DEF EthernetFields
    <3>2. CASE ~(end < 14)
      <4>1. ReadBE16(g, 12) = ReadBE16(f, 12)
        BY <1>2, <3>2
      <4>2. Tagged(g, end) <=> Tagged(f, end)
        BY <4>1 DEF Tagged
      <4>3. CASE Tagged(f, end)
        <5>1. ReadBE16(g, 16) = ReadBE16(f, 16)
          BY <1>2, <4>3 DEF Tagged
        <5>2. Network(g, 18, end, ReadBE16(f, 16), "ETH")
                = Network(f, 18, end, ReadBE16(f, 16), "ETH")
          BY <1>1
        <5> QED  BY <3>2, <4>2, <4>3, <5>1, <5>2 DEF EthernetFields
      <4>4. CASE ~Tagged(f, end)
        <5>1. Network(g, 14, end, ReadBE16(f, 12), "ETH")
                = Network(f, 14, end, ReadBE16(f, 12), "ETH")
          BY <1>1
        <5> QED  BY <3>2, <4>1, <4>2, <4>4, <5>1 DEF EthernetFields
      <4> QED  BY <4>3, <4>4
    <3> QED  BY <3>1, <3>2
  <2> QED  BY <1>3, <2>1, <2>2, <2>3 DEF ParseL4Fields
<1>4. CASE end = 0
  BY <1>4 DEF ParseL4Fields
<1> QED  BY <1>3, <1>4

(* A packet's own bytes, cut anywhere, are bytes.                          *)
LEMMA CapturedBytes ==
  ASSUME NEW f \in Frame, NEW end \in 0..Len(f), NEW p \in 0..(end - 1)
  PROVE  At(f, p) \in Byte
<1>1. p + 1 \in 1..Len(f)
  OBVIOUS
<1> QED  BY <1>1 DEF At, Frame

LEMMA FieldsInvInit == Init => FieldsInv
BY FieldsAssumption DEF Init, FieldsInv, Frame

LEMMA FieldsInvStep == FieldsInv /\ [Next]_vars => FieldsInv'
<1> SUFFICES ASSUME FieldsInv, [Next]_vars  PROVE FieldsInv'
  OBVIOUS
<1>1. CASE Longer
  BY <1>1 DEF FieldsInv, Longer, Frame
<1>2. CASE Elsewhere
  BY <1>2, FieldsAssumption DEF FieldsInv, Elsewhere, Frame
<1>3. CASE UNCHANGED vars
  BY <1>3 DEF FieldsInv, vars
<1> QED  BY <1>1, <1>2, <1>3 DEF Next

LEMMA FieldsInvHolds == Spec => []FieldsInv
BY FieldsInvInit, FieldsInvStep, PTL DEF Spec

(* A step that keeps the snap length keeps the captured bytes.             *)
LEMMA SameSnapSameFields ==
  ASSUME FieldsInv, FieldsInv', [Next]_vars, snap' = snap
  PROVE  Fields' = Fields
<1>1. CASE Longer
  BY <1>1 DEF Longer, FieldsInv, Frame
<1>2. CASE Elsewhere
  <2>1. PICK g \in Frames : /\ g = frame' /\ Len(g) >= snap
                            /\ SubSeq(g, 1, snap) = SubSeq(frame, 1, snap)
    BY <1>2 DEF Elsewhere
  <2>2. g \in Frame /\ frame \in Frame /\ snap \in 0..Len(frame) /\ snap \in 0..Len(g)
    BY <2>1, FieldsAssumption DEF FieldsInv, Frame
  <2>3. ASSUME NEW p \in 0..(snap - 1)
        PROVE  At(g, 0 + p) = At(frame, p)
    <3>1. p + 1 \in 1..snap /\ 0 + p = p
      BY <2>2
    <3>2. SubSeq(g, 1, snap)[p + 1] = g[p + 1]
      BY <2>2, <3>1 DEF Frame
    <3>3. SubSeq(frame, 1, snap)[p + 1] = frame[p + 1]
      BY <2>2, <3>1 DEF Frame
    <3> QED  BY <2>1, <3>1, <3>2, <3>3 DEF At
  <2>4. Shows(frame, g, 0, snap)
    BY <2>2, <2>3, CapturedBytes DEF Shows
  <2>5. ParseL4Fields(link, g, snap) = ParseL4Fields(link, frame, snap)
    BY <2>2, <2>4, SameBytesSameFields
  <2> QED  BY <1>2, <2>1, <2>5 DEF Fields, Elsewhere
<1>3. CASE UNCHANGED vars
  BY <1>3 DEF vars, Fields
<1> QED  BY <1>1, <1>2, <1>3 DEF Next

(* No header length, tag or offset that a packet states makes              *)
(* ParseL4Fields look behind the captured bytes.                           *)
THEOREM CapturedBytesSuffice == Spec => OnlyCapturedBytes
<1>1. FieldsInv /\ FieldsInv' /\ [Next]_vars => [snap' = snap => Fields' = Fields]_vars
  BY SameSnapSameFields
<1> QED  BY <1>1, FieldsInvHolds, PTL DEF Spec, OnlyCapturedBytes

(***************************************************************************)
(* One more captured byte.                                                 *)
(***************************************************************************)
Kept(a, b) ==
  /\ a.src # <<>> => b.src = a.src /\ b.dst = a.dst
  /\ a.ports # <<>> => b.ports = a.ports /\ b.protocol = a.protocol

(* The addresses are known before the transport header is looked at, and   *)
(* ports are taken only when all that was tested stays true.               *)
LEMMA TransportLonger ==
  ASSUME NEW f, NEW end \in Nat, \A p \in 0..(end - 1) : At(f, p) \in Byte,
         NEW pos \in Nat, NEW src, NEW dst, NEW protocol, NEW other
  PROVE  LET out == Addresses(src, dst)
         IN  Kept(Transport(out, f, pos, end, protocol, other),
                  Transport(out, f, pos, end + 1, protocol, other))
<1> DEFINE out == Addresses(src, dst)
           T(e) == Transport(out, f, pos, e, protocol, other)
<1>1. ASSUME NEW e  PROVE T(e).src = src /\ T(e).dst = dst
  BY DEF Transport, WithPorts, Addresses
<1>2. CASE protocol = TCP /\ end - pos >= 20
  <2>1. At(f, pos + 12) \in 0..255
    BY <1>2 DEF Byte
  <2>2. TcpHeaderLen(f, pos) \in Nat
    BY <2>1 DEF TcpHeaderLen
  <2>3. CASE TcpHeaderLen(f, pos) >= 20 /\ end - pos >= TcpHeaderLen(f, pos)
    <3>1. (end + 1) - pos >= 20 /\ (end + 1) - pos >= TcpHeaderLen(f, pos)
      BY <1>2, <2>2, <2>3
    <3>2. T(end) = WithPorts(out, f, pos, <<"TCP">>)
      BY <1>2, <2>3 DEF Transport
    <3>3. T(end + 1) = WithPorts(out, f, pos, <<"TCP">>)
      BY <1>2, <2>3, <3>1 DEF Transport
    <3> QED  BY <3>2, <3>3 DEF Kept
  <2>4. CASE ~(TcpHeaderLen(f, pos) >= 20 /\ end - pos >= TcpHeaderLen(f, pos))
    <3>1. T(end) = out
      BY <1>2, <2>4 DEF Transport
    <3> QED  BY <1>1, <3>1 DEF Kept, Addresses
  <2> QED  BY <2>3, <2>4
<1>3. CASE ~(protocol = TCP /\ end - pos >= 20) /\ protocol = UDP /\ end - pos >= 8
  <2>1. protocol # TCP /\ (end + 1) - pos >= 8
    BY <1>3 DEF TCP, UDP
  <2>2. T(end) = WithPorts(out, f, pos, <<"UDP">>)
    BY <1>3 DEF Transport
  <2>3. T(end + 1) = WithPorts(out, f, pos, <<"UDP">>)
    BY <1>3, <2>1 DEF Transport
  <2> QED  BY <2>2, <2>3 DEF Kept
<1>4. CASE ~(protocol = TCP /\ end - pos >= 20) /\ ~(protocol = UDP /\ end - pos >= 8)
  <2>1. T(end).ports = <<>>
    BY <1>4 DEF Transport, Addresses
  <2> QED  BY <1>1, <2>1 DEF Kept
<1> QED  BY <1>2, <1>3, <1>4

LEMMA UnknownKept == \A b : Kept(Unknown, b)
BY DEF Kept, Unknown, Nothing

LEMMA IPv4Longer ==
  ASSUME NEW f, NEW end \in Nat, \A p \in 0..(end - 1) : At(f, p) \in Byte, NEW pos \in Nat
  PROVE  Kept(ParseIPv4(f, pos, end), ParseIPv4(f, pos, end + 1))
<1>1. CASE end - pos < 20
  BY <1>1, UnknownKept DEF ParseIPv4
<1>2. CASE ~(end - pos < 20)
  <2>1. At(f, pos) \in 0..255
    BY <1>2 DEF Byte
  <2>2. HeaderLen4(f, pos) \in Nat
    BY <2>1 DEF HeaderLen4
  <2>3. CASE HeaderLen4(f, pos) < 20 \/ end - pos < HeaderLen4(f, pos)
    BY <1>2, <2>3, UnknownKept DEF ParseIPv4
  <2>4. CASE ~(HeaderLen4(f, pos) < 20 \/ end - pos < HeaderLen4(f, pos))
    <3> DEFINE h == HeaderLen4(f, pos)
               src == BytesAt(f, pos + 12, 4)
               dst == BytesAt(f, pos + 16, 4)
               out == Addresses(src, dst)
               protocol == At(f, pos + 9)
    <3>2. (end + 1) - pos >= 20 /\ ~((end + 1) - pos < h)
      BY <1>2, <2>2, <2>4
    <3>3. ParseIPv4(f, pos, end)
            = Transport(out, f, pos + h, end, protocol, <<"IP", protocol>>)
      BY <1>2, <2>4 DEF ParseIPv4
    <3>4. ParseIPv4(f, pos, end + 1)
            = Transport(out, f, pos + h, end + 1, protocol, <<"IP", protocol>>)
      BY <2>4, <3>2 DEF ParseIPv4
    <3>5. pos + h \in Nat
      BY <2>2
    <3> HIDE DEF h, src, dst, protocol
    <3>6. Kept(Transport(out, f, pos + h, end, protocol, <<"IP", protocol>>),
               Transport(out, f, pos + h, end + 1, protocol, <<"IP", protocol>>))
      BY <3>5, TransportLonger
    <3> QED  BY <3>3, <3>4, <3>6
  <2> QED  BY <2>3, <2>4
<1> QED  BY <1>1, <1>2

LEMMA IPv6Longer ==
  ASSUME NEW f, NEW end \in Nat, \A p \in 0..(end - 1) : At(f, p) \in Byte, NEW pos \in Nat
  PROVE  Kept(ParseIPv6(f, pos, end), ParseIPv6(f, pos, end + 1))
<1>1. CASE end - pos < 40
  BY <1>1, UnknownKept DEF ParseIPv6
<1>2. CASE ~(end - pos < 40)
  <2> DEFINE src == BytesAt(f, pos + 8, 16)
             dst == BytesAt(f, pos + 24, 16)
             out == Addresses(src, dst)
             protocol == At(f, pos + 6)
  <2>2. ~((end + 1) - pos < 40)
    BY <1>2
  <2>3. ParseIPv6(f, pos, end)
          = Transport(out, f, pos + 40, end, protocol, <<"IP6", protocol>>)
    BY <1>2 DEF ParseIPv6
  <2>4. ParseIPv6(f, pos, end + 1)
          = Transport(out, f, pos + 40, end + 1, protocol, <<"IP6", protocol>>)
    BY <2>2 DEF ParseIPv6
  <2>5. pos + 40 \in Nat
    OBVIOUS
  <2> HIDE DEF src, dst, protocol
  <2>6. Kept(Transport(out, f, pos + 40, end, protocol, <<"IP6", protocol>>),
             Transport(out, f, pos + 40, end + 1, protocol, <<"IP6", protocol>>))
    BY <2>5, TransportLonger
  <2> QED  BY <2>3, <2>4, <2>6
<1> QED  BY <1>1, <1>2

LEMMA NothingKept == \A protocol, b : Kept(Nothing(protocol), b)
BY DEF Kept, Nothing

LEMMA NetworkLonger ==
  ASSUME NEW f, NEW end \in Nat, \A p \in 0..(end - 1) : At(f, p) \in Byte,
         NEW pos \in Nat, NEW type, NEW other
  PROVE  Kept(Network(f, pos, end, type, other), Network(f, pos, end + 1, type, other))
BY IPv4Longer, IPv6Longer, NothingKept DEF Network

(* A tag that is cut, and a type that is a tag's, show nothing; so what a  *)
(* longer capture makes of them takes nothing back.                        *)
LEMMA FieldsLonger ==
  ASSUME NEW f, NEW end \in Nat, \A p \in 0..(end - 1) : At(f, p) \in Byte, NEW l
  PROVE  Kept(ParseL4Fields(l, f, end), ParseL4Fields(l, f, end + 1))
<1>1. CASE end = 0
  BY <1>1, UnknownKept DEF ParseL4Fields
<1>2. CASE end > 0
  <2>1. Kept(RawFields(f, end), RawFields(f, end + 1))
    <3>1. 0 \in Nat
      OBVIOUS
    <3> QED  BY <3>1, IPv4Longer, IPv6Longer, NothingKept DEF RawFields
  <2>2. Kept(SllFields(f, end), SllFields(f, end + 1))
    BY NetworkLonger, NothingKept DEF SllFields
  <2>3. Kept(EthernetFields(f, end, l), EthernetFields(f, end + 1, l))
    <3>1. CASE end < 14
      BY <3>1, NothingKept DEF EthernetFields
    <3>2. CASE ~(end < 14) /\ Tagged(f, end)
      <4>1. ~(end + 1 < 14) /\ Tagged(f, end + 1)
        BY <3>2 DEF Tagged
      <4> QED  BY <3>2, <4>1, NetworkLonger DEF EthernetFields
    <3>3. CASE ~(end < 14) /\ ~Tagged(f, end) /\ ReadBE16(f, 12) \in VLAN
      <4>1. ReadBE16(f, 12) # IPV4 /\ ReadBE16(f, 12) # IPV6
        BY <3>3 DEF VLAN, IPV4, IPV6
      <4> QED  BY <3>3, <4>1, NothingKept DEF EthernetFields, Network
    <3>4. CASE ~(end < 14) /\ ReadBE16(f, 12) \notin VLAN
      <4>1. ~(end + 1 < 14) /\ ~Tagged(f, end) /\ ~Tagged(f, end + 1)
        BY <3>4 DEF Tagged
      <4> QED  BY <3>4, <4>1, NetworkLonger DEF EthernetFields
    <3> QED  BY <3>1, <3>2, <3>3, <3>4
  <2>4. end + 1 # 0
    OBVIOUS
  <2> QED  BY <1>2, <2>1, <2>2, <2>3, <2>4 DEF ParseL4Fields
<1> QED  BY <1>1, <1>2

(* What a shorter capture of a packet shows, a longer one shows.           *)
THEOREM LongerCaptureKeeps == Spec => SnapMonotone
<1>1. ASSUME FieldsInv, FieldsInv', [Next]_vars  PROVE Kept(Fields, Fields')
  <2>1. CASE snap' = snap
    BY <1>1, <2>1, SameSnapSameFields DEF Kept
  <2>2. CASE snap' # snap
    <3>1. snap' = snap + 1 /\ frame' = frame /\ link' = link
      BY <1>1, <2>2 DEF Next, Longer, Elsewhere, vars
    <3>2. snap \in Nat /\ \A p \in 0..(snap - 1) : At(frame, p) \in Byte
      BY <1>1, CapturedBytes DEF FieldsInv, Frame
    <3>3. Kept(ParseL4Fields(link, frame, snap), ParseL4Fields(link, frame, snap + 1))
      BY <3>2, FieldsLonger
    <3> QED  BY <3>1, <3>3 DEF Fields
  <2> QED  BY <2>1, <2>2
<1>2. FieldsInv /\ FieldsInv' /\ [Next]_vars
        => [/\ Fields.src # <<>> => Fields'.src = Fields.src /\ Fields'.dst = Fields.dst
            /\ Fields.ports # <<>> => Fields'.ports = Fields.ports
                                      /\ Fields'.protocol = Fields.protocol]_vars
  BY <1>1 DEF Kept
<1> QED  BY <1>2, FieldsInvHolds, PTL DEF Spec, SnapMonotone

(***************************************************************************)
(* What carries the datagram.                                              *)
(***************************************************************************)
TypeOf(version) == IF version = 4 THEN IPV4 ELSE IPV6

ParseIP(version, f, pos, end) ==
  IF version = 4 THEN ParseIPv4(f, pos, end) ELSE ParseIPv6(f, pos, end)

(* A header before the packet moves its bytes, and is read in their place. *)
LEMMA Behind ==
  ASSUME NEW h \in Seq(Byte), NEW f \in Frame, NEW end \in 0..Len(f)
  PROVE  /\ Shows(f, h \o f, Len(h), end)
         /\ \A p \in 0..(Len(h) - 1) : At(h \o f, p) = h[p + 1]
<1>1. Len(h) \in Nat /\ Len(f) \in Nat /\ f \in Seq(Byte)
  BY DEF Frame
<1>2. ASSUME NEW p \in 0..(end - 1)  PROVE At(h \o f, Len(h) + p) = At(f, p)
  <2>1. /\ Len(h) + p + 1 \in 1..(Len(h) + Len(f))
        /\ Len(h) + p + 1 > Len(h) /\ (Len(h) + p + 1) - Len(h) = p + 1
    BY <1>1
  <2>2. (h \o f)[Len(h) + p + 1] = f[p + 1]
    BY <1>1, <2>1
  <2> QED  BY <2>2 DEF At
<1>3. ASSUME NEW p \in 0..(Len(h) - 1)  PROVE At(h \o f, p) = h[p + 1]
  <2>1. p + 1 \in 1..(Len(h) + Len(f)) /\ p + 1 =< Len(h)
    BY <1>1
  <2>2. (h \o f)[p + 1] = h[p + 1]
    BY <1>1, <2>1
  <2> QED  BY <2>2 DEF At
<1> QED  BY <1>2, <1>3, CapturedBytes DEF Shows

(* The type at the end of a link header leads to the datagram behind it.   *)
LEMMA CarriedDatagram ==
  ASSUME NEW h \in Seq(Byte), NEW f \in Frame, NEW end \in 0..Len(f),
         NEW version \in {4, 6}, NEW other
  PROVE  Network(h \o f, Len(h), Len(h) + end, TypeOf(version), other)
           = ParseIP(version, f, 0, end)
<1>1. ASSUME NEW g, NEW n \in Nat, NEW last \in Nat, last = n + end, Shows(f, g, n, end)
      PROVE  /\ ParseIPv4(g, n, last) = ParseIPv4(f, 0, end)
             /\ ParseIPv6(g, n, last) = ParseIPv6(f, 0, end)
  <2>1. end \in Nat
    BY DEF Frame
  <2>2. ASSUME NEW pos \in Nat, NEW to \in Nat, to = n + pos
        PROVE  ParseIPv4(g, to, last) = ParseIPv4(f, pos, end)
    BY <1>1, <2>1, <2>2, IPv4Shifted
  <2>3. ASSUME NEW pos \in Nat, NEW to \in Nat, to = n + pos
        PROVE  ParseIPv6(g, to, last) = ParseIPv6(f, pos, end)
    BY <1>1, <2>1, <2>3, IPv6Shifted
  <2>4. 0 \in Nat /\ n = n + 0
    OBVIOUS
  <2> QED  BY <2>2, <2>3, <2>4
<1>2. /\ ParseIPv4(h \o f, Len(h), Len(h) + end) = ParseIPv4(f, 0, end)
      /\ ParseIPv6(h \o f, Len(h), Len(h) + end) = ParseIPv6(f, 0, end)
  <2>1. Len(h) \in Nat /\ Len(h) + end \in Nat /\ Shows(f, h \o f, Len(h), end)
    BY Behind DEF Frame
  <2> QED  BY <1>1, <2>1
<1>3. IPV4 # IPV6
  BY DEF IPV4, IPV6
<1> QED  BY <1>2, <1>3 DEF Network, TypeOf, ParseIP

(* A datagram alone.                                                       *)
LEMMA AloneDatagram ==
  ASSUME NEW f \in Frame, f # <<>>, NEW end \in 0..Len(f),
         NEW version \in {4, 6}, version = At(f, 0) \div 16
  PROVE  ParseL4Fields(DLT_RAW, f, end) = ParseIP(version, f, 0, end)
<1>1. CASE end = 0
  BY <1>1 DEF ParseL4Fields, ParseIP, ParseIPv4, ParseIPv6
<1>2. CASE end # 0
  BY <1>2 DEF ParseL4Fields, RawFields, ParseIP
<1> QED  BY <1>1, <1>2

(* The last two bytes of a header are the type of the datagram.            *)
LEMMA HeaderType ==
  ASSUME NEW h \in Seq(Byte), NEW f \in Frame, NEW version \in {4, 6},
         NEW pos \in Nat, Len(h) = pos + 2,
         h[pos + 1] = EtherType(version)[1], h[pos + 2] = EtherType(version)[2]
  PROVE  ReadBE16(h \o f, pos) = TypeOf(version)
<1>1. /\ 0 \in 0..Len(f) /\ pos \in 0..(Len(h) - 1) /\ pos + 1 \in 0..(Len(h) - 1)
      /\ (pos + 1) + 1 = pos + 2
  BY DEF Frame
<1>2. At(h \o f, pos) = h[pos + 1] /\ At(h \o f, pos + 1) = h[pos + 2]
  BY <1>1, Behind
<1>3. EtherType(version)[1] * 256 + EtherType(version)[2] = TypeOf(version)
  <2>1. CASE version = 4
    BY <2>1, SMT DEF EtherType, TypeOf, IPV4
  <2>2. CASE version = 6
    BY <2>2, SMT DEF EtherType, TypeOf, IPV6
  <2> QED  BY <2>1, <2>2
<1> QED  BY <1>2, <1>3 DEF ReadBE16

LEMMA UntaggedCarries ==
  ASSUME NEW h \in Seq(Byte), NEW f \in Frame, NEW end \in 0..Len(f), NEW version \in {4, 6},
         Len(h) = 14, h[13] = EtherType(version)[1], h[14] = EtherType(version)[2]
  PROVE  ParseL4Fields(DLT_EN10MB, h \o f, 14 + end) = ParseIP(version, f, 0, end)
<1>1. ReadBE16(h \o f, 12) = TypeOf(version)
  <2>1. ASSUME NEW pos \in Nat, pos = 12  PROVE ReadBE16(h \o f, pos) = TypeOf(version)
    <3>1. /\ Len(h) = pos + 2
          /\ h[pos + 1] = EtherType(version)[1] /\ h[pos + 2] = EtherType(version)[2]
      BY <2>1
    <3> QED  BY <3>1, HeaderType
  <2> QED  BY <2>1
<1>2. ~Tagged(h \o f, 14 + end)
  BY <1>1, SMT DEF Tagged, TypeOf, IPV4, IPV6, VLAN
<1>3. Network(h \o f, 14, 14 + end, TypeOf(version), "ETH") = ParseIP(version, f, 0, end)
  BY CarriedDatagram
<1>4. 14 + end # 0 /\ ~(14 + end < 14)
  OBVIOUS
<1>5. DLT_EN10MB # DLT_RAW /\ DLT_EN10MB # DLT_LINUX_SLL
  BY DEF DLT_EN10MB, DLT_RAW, DLT_LINUX_SLL
<1> QED  BY <1>1, <1>2, <1>3, <1>4, <1>5 DEF ParseL4Fields, EthernetFields

LEMMA TaggedCarries ==
  ASSUME NEW h \in Seq(Byte), NEW f \in Frame, NEW end \in 0..Len(f), NEW version \in {4, 6},
         Len(h) = 18, h[13] * 256 + h[14] \in VLAN,
         h[17] = EtherType(version)[1], h[18] = EtherType(version)[2]
  PROVE  ParseL4Fields(DLT_EN10MB, h \o f, 18 + end) = ParseIP(version, f, 0, end)
<1>1. ReadBE16(h \o f, 16) = TypeOf(version)
  <2>1. ASSUME NEW pos \in Nat, pos = 16  PROVE ReadBE16(h \o f, pos) = TypeOf(version)
    <3>1. /\ Len(h) = pos + 2
          /\ h[pos + 1] = EtherType(version)[1] /\ h[pos + 2] = EtherType(version)[2]
      BY <2>1
    <3> QED  BY <3>1, HeaderType
  <2> QED  BY <2>1
<1>2. ReadBE16(h \o f, 12) = h[13] * 256 + h[14]
  <2>1. 0 \in 0..Len(f) /\ 12 \in 0..(Len(h) - 1) /\ 13 \in 0..(Len(h) - 1)
    BY DEF Frame
  <2>2. At(h \o f, 12) = h[12 + 1] /\ At(h \o f, 13) = h[13 + 1]
    BY <2>1, Behind
  <2> QED  BY <2>2 DEF ReadBE16
<1>3. Tagged(h \o f, 18 + end)
  BY <1>2 DEF Tagged
<1>4. Network(h \o f, 18, 18 + end, TypeOf(version), "ETH") = ParseIP(version, f, 0, end)
  BY CarriedDatagram
<1>5. 18 + end # 0 /\ ~(18 + end < 14)
  OBVIOUS
<1>6. DLT_EN10MB # DLT_RAW /\ DLT_EN10MB # DLT_LINUX_SLL
  BY DEF DLT_EN10MB, DLT_RAW, DLT_LINUX_SLL
<1> QED  BY <1>1, <1>3, <1>4, <1>5, <1>6 DEF ParseL4Fields, EthernetFields

LEMMA CookedCarries ==
  ASSUME NEW h \in Seq(Byte), NEW f \in Frame, NEW end \in 0..Len(f), NEW version \in {4, 6},
         Len(h) = 16, h[15] = EtherType(version)[1], h[16] = EtherType(version)[2]
  PROVE  ParseL4Fields(DLT_LINUX_SLL, h \o f, 16 + end) = ParseIP(version, f, 0, end)
<1>1. ReadBE16(h \o f, 14) = TypeOf(version)
  <2>1. ASSUME NEW pos \in Nat, pos = 14  PROVE ReadBE16(h \o f, pos) = TypeOf(version)
    <3>1. /\ Len(h) = pos + 2
          /\ h[pos + 1] = EtherType(version)[1] /\ h[pos + 2] = EtherType(version)[2]
      BY <2>1
    <3> QED  BY <3>1, HeaderType
  <2> QED  BY <2>1
<1>2. Network(h \o f, 16, 16 + end, TypeOf(version), "SLL") = ParseIP(version, f, 0, end)
  BY CarriedDatagram
<1>3. 16 + end # 0 /\ ~(16 + end < 16)
  OBVIOUS
<1>4. DLT_LINUX_SLL # DLT_RAW
  BY DEF DLT_RAW, DLT_LINUX_SLL
<1> QED  BY <1>1, <1>2, <1>3, <1>4 DEF ParseL4Fields, SllFields

(* A header is put together from zeros, a tag and a type.                  *)
LEMMA ZerosAreBytes ==
  ASSUME NEW n \in Nat
  PROVE  Zeros(n) \in Seq(Byte) /\ Len(Zeros(n)) = n
BY DEF Zeros, Byte

LEMMA EtherTypeBytes ==
  ASSUME NEW version \in {4, 6}
  PROVE  EtherType(version) \in Seq(Byte) /\ Len(EtherType(version)) = 2
<1>1. <<8, 0>> \in Seq(Byte) /\ Len(<<8, 0>>) = 2
  BY DEF Byte
<1>2. <<134, 221>> \in Seq(Byte) /\ Len(<<134, 221>>) = 2
  BY DEF Byte
<1> QED  BY <1>1, <1>2 DEF EtherType

LEMMA Joined ==
  ASSUME NEW a \in Seq(Byte), NEW b \in Seq(Byte), NEW h, h = a \o b
  PROVE  /\ h \in Seq(Byte)
         /\ Len(h) = Len(a) + Len(b)
         /\ \A i \in 1..(Len(a) + Len(b)) : h[i] = IF i <= Len(a) THEN a[i] ELSE b[i - Len(a)]
BY ConcatProperties

(* An IP datagram gives the same columns whatever carries it, with any of  *)
(* its bytes captured.                                                     *)
THEOREM CarrierMakesNoDifference == Spec => []CarrierIndependent
<1>1. FieldsInv => CarrierIndependent
  <2> SUFFICES ASSUME FieldsInv, link = DLT_RAW, frame # <<>>,
                      NEW version \in {4, 6}, version = At(frame, 0) \div 16,
                      NEW c \in Carriers(version)
               PROVE  ParseL4Fields(c.link, c.header \o frame, Len(c.header) + snap) = Fields
    BY DEF CarrierIndependent
  <2>1. frame \in Frame /\ snap \in 0..Len(frame)
    BY DEF FieldsInv
  <2>2. Fields = ParseIP(version, frame, 0, snap)
    BY <2>1, AloneDatagram DEF Fields
  <2> DEFINE e == EtherType(version)
  <2>3. e \in Seq(Byte) /\ Len(e) = 2
    BY EtherTypeBytes
  <2> HIDE DEF e
  <2>4. CASE c = [link |-> DLT_EN10MB, header |-> Zeros(12) \o e]
    <3>1. PICK z \in Seq(Byte) : z = Zeros(12) /\ Len(z) = 12
      BY ZerosAreBytes
    <3>2. PICK h : h = z \o e
      OBVIOUS
    <3>3. h \in Seq(Byte) /\ Len(h) = 14 /\ h[13] = e[1] /\ h[14] = e[2]
      <4>1. /\ h \in Seq(Byte) /\ Len(h) = Len(z) + Len(e)
            /\ \A i \in 1..(Len(z) + Len(e)) :
                 h[i] = IF i <= Len(z) THEN z[i] ELSE e[i - Len(z)]
        BY <2>3, <3>2, Joined
      <4>2. Len(z) = 12
        BY <3>1
      <4> QED  BY <2>3, <4>1, <4>2
    <3>4. ParseL4Fields(DLT_EN10MB, h \o frame, 14 + snap) = ParseIP(version, frame, 0, snap)
      BY <2>1, <3>3, UntaggedCarries DEF e
    <3> QED  BY <2>2, <2>4, <3>1, <3>2, <3>3, <3>4
  <2>5. ASSUME NEW t \in Seq(Byte), Len(t) = 4, t[1] * 256 + t[2] \in VLAN,
               c = [link |-> DLT_EN10MB, header |-> Zeros(12) \o t \o e]
        PROVE  ParseL4Fields(c.link, c.header \o frame, Len(c.header) + snap) = Fields
    <3>1. PICK z \in Seq(Byte) : z = Zeros(12) /\ Len(z) = 12
      BY ZerosAreBytes
    <3>2. PICK u : u = z \o t
      OBVIOUS
    <3>3. PICK h : h = u \o e
      OBVIOUS
    <3>4. u \in Seq(Byte) /\ Len(u) = 16 /\ u[13] = t[1] /\ u[14] = t[2]
      <4>1. /\ u \in Seq(Byte) /\ Len(u) = Len(z) + Len(t)
            /\ \A i \in 1..(Len(z) + Len(t)) :
                 u[i] = IF i <= Len(z) THEN z[i] ELSE t[i - Len(z)]
        BY <2>5, <3>2, Joined
      <4>2. Len(z) = 12
        BY <3>1
      <4> QED  BY <2>5, <4>1, <4>2
    <3>5. /\ h \in Seq(Byte) /\ Len(h) = 18 /\ h[17] = e[1] /\ h[18] = e[2]
          /\ h[13] = u[13] /\ h[14] = u[14]
      <4>1. /\ h \in Seq(Byte) /\ Len(h) = Len(u) + Len(e)
            /\ \A i \in 1..(Len(u) + Len(e)) :
                 h[i] = IF i <= Len(u) THEN u[i] ELSE e[i - Len(u)]
        BY <2>3, <3>3, <3>4, Joined
      <4> QED  BY <2>3, <3>4, <4>1
    <3>6. h[13] * 256 + h[14] \in VLAN
      BY <2>5, <3>4, <3>5
    <3>7. ParseL4Fields(DLT_EN10MB, h \o frame, 18 + snap) = ParseIP(version, frame, 0, snap)
      BY <2>1, <3>5, <3>6, TaggedCarries DEF e
    <3> QED  BY <2>2, <2>5, <3>1, <3>2, <3>3, <3>5, <3>7
  <2>6. CASE c = [link |-> DLT_LINUX_SLL, header |-> Zeros(14) \o e]
    <3>1. PICK z \in Seq(Byte) : z = Zeros(14) /\ Len(z) = 14
      BY ZerosAreBytes
    <3>2. PICK h : h = z \o e
      OBVIOUS
    <3>3. h \in Seq(Byte) /\ Len(h) = 16 /\ h[15] = e[1] /\ h[16] = e[2]
      <4>1. /\ h \in Seq(Byte) /\ Len(h) = Len(z) + Len(e)
            /\ \A i \in 1..(Len(z) + Len(e)) :
                 h[i] = IF i <= Len(z) THEN z[i] ELSE e[i - Len(z)]
        BY <2>3, <3>2, Joined
      <4>2. Len(z) = 14
        BY <3>1
      <4> QED  BY <2>3, <4>1, <4>2
    <3>4. ParseL4Fields(DLT_LINUX_SLL, h \o frame, 16 + snap) = ParseIP(version, frame, 0, snap)
      BY <2>1, <3>3, CookedCarries DEF e
    <3> QED  BY <2>2, <2>6, <3>1, <3>2, <3>3, <3>4
  <2>7. /\ <<129, 0, 0, 5>> \in Seq(Byte) /\ Len(<<129, 0, 0, 5>>) = 4
        /\ 129 * 256 + 0 \in VLAN
    BY SMT DEF Byte, VLAN
  <2>8. /\ <<136, 168, 0, 5>> \in Seq(Byte) /\ Len(<<136, 168, 0, 5>>) = 4
        /\ 136 * 256 + 168 \in VLAN
    BY SMT DEF Byte, VLAN
  <2>9. CASE c = [link |-> DLT_EN10MB, header |-> Zeros(12) \o <<129, 0, 0, 5>> \o e]
    BY <2>5, <2>7, <2>9
  <2>10. CASE c = [link |-> DLT_EN10MB, header |-> Zeros(12) \o <<136, 168, 0, 5>> \o e]
    BY <2>5, <2>8, <2>10
  <2> QED  BY <2>4, <2>6, <2>9, <2>10 DEF Carriers, e
<1> QED  BY <1>1, FieldsInvHolds, PTL

=============================================================================
