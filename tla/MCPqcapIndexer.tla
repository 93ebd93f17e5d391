--------------------------- MODULE MCPqcapIndexer ---------------------------
(***************************************************************************)
(* Instances of PqcapIndexer: captures that tell the cases of the indexer  *)
(* apart, a few blocks each.                                               *)
(***************************************************************************)
EXTENDS PqcapIndexer, TLC

MCPacket == 1..6

RECURSIVE ImageOf(_)
ImageOf(blocks) ==
  IF blocks = <<>>
  THEN EmptyImage
  ELSE AppendBlock(ImageOf(SubSeq(blocks, 1, Len(blocks) - 1)), blocks[Len(blocks)])

Shb == [type |-> "SHB", at |-> 0, held |-> 28, len |-> 28, body |-> [section |-> TRUE]]

Idb(link) == [type |-> "IDB", at |-> 0, held |-> 20, len |-> 20, body |-> [link |-> link]]

PacketOf(type, header, p, size, link) ==
  [type |-> type, at |-> 0, held |-> header + PadTo4(size),
   len |-> header + PadTo4(size),
   body |-> [pkt |-> p, cap |-> size, link |-> link, ord |-> 0]]

Epb(p, size, link) == PacketOf("EPB", 32, p, size, link)
Spb(p, size, link) == PacketOf("SPB", 16, p, size, link)

PcapNg(blocks) == [image |-> ImageOf(blocks), classic |-> FALSE, records |-> <<>>]

Classic(records) ==
  [image |-> [size |-> 24 + 20 * Len(records), blocks |-> <<>>],
   classic |-> TRUE, records |-> records]

Plain    == PcapNg(<<Shb, Idb(1), Epb(1, 20, 1), Spb(2, 6, 1), Idb(7), Epb(3, 0, 7)>>)
Other    == PcapNg(<<Shb, Idb(5), Epb(4, 3, 5)>>)
NoPacket == PcapNg(<<Shb>>)
Cut      == PcapNg(<<Shb, Idb(1), Epb(5, 4, 1), [Epb(6, 80, 1) EXCEPT !.held = 40]>>)

Small    == PcapNg(<<Shb, Epb(1, 8, 1)>>)

(* The same capture with an index of its packets.                          *)
Index(c) ==
  LET packets == PacketsOf(c.image)
      listed  == [n \in 1..Len(packets) |->
                    [pkt  |-> packets[n].body.pkt, captured |-> packets[n].body.cap,
                     link |-> packets[n].body.link]]
      located == [n \in 1..Len(packets) |->
                    [offset |-> DataAt(packets[n]), size |-> packets[n].body.cap]]
  IN  [c EXCEPT !.image = EmbedParquet(@, MetadataTable(listed, located, 1), 5)]

Indexed == Index(Other)

(* A loopback capture: LINKTYPE_NULL is 0.                                 *)
Loopback == PcapNg(<<Shb, Idb(0), Epb(1, 8, 0), Idb(1), Epb(2, 8, 1)>>)

SerialCaptures ==
  {Plain, Other, NoPacket, Cut, Indexed, Classic(<<>>),
   Classic(<<[pkt |-> 1, captured |-> 4, link |-> 1]>>)}

WholeCaptures == {Small, Indexed}
PlainCaptures == {Plain}
LoopbackCaptures == {Loopback, Plain}

(* The captures are such that the theorems speak of these instances.       *)
ASSUME CapturesAssumption ==
  /\ \A c \in SerialCaptures : Linked(c) /\ RightlyIndexed(c.image)
  /\ \A c \in WholeCaptures : Linked(c) /\ Intact(c) /\ Legible(c)

(* Jobs are alike.                                                         *)
JobSymmetry == Permutations(Job)
==============================================================================
