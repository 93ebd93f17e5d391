--------------------------- MODULE MCPacketTable ---------------------------
(***************************************************************************)
(* Instances of PacketTable, with two bits to a byte: small captures of    *)
(* both formats, both byte orders and both units.                          *)
(***************************************************************************)
EXTENDS PacketTable

MCPayload == {"p", "q"}

(* Numbers that have another value when they are read in the wrong order.  *)
W(n) == <<n % 4, (n \div 4) % 4, n \div 16, 0>>

Packet(sec, sub, incl, data) ==
  [sec |-> W(sec), sub |-> W(sub), incl |-> W(incl), orig |-> W(incl + 5),
   interface |-> 1, link |-> 3, comment |-> "", data |-> data]

(* A packet of another interface, whose link type is 0.                    *)
Commented ==
  [Packet(3, 30, 6, "q") EXCEPT !.comment = "note", !.link = 0, !.interface = 2]

File(format, swapped, nanos, records) ==
  [format |-> format, swapped |-> swapped, nanos |-> nanos, linktype |-> <<1, 0, 0, 2>>,
   records |-> records]

(* Its link type has bits only above the lower 16.                         *)
NoLink(f) == [f EXCEPT !.linktype = <<0, 0, 0, 2>>]

Two   == <<Packet(2, 5, 6, "p"), Packet(1, 60, 0, "q")>>
Three == <<Packet(2, 5, 6, "p"), Commented, Packet(1, 7, 1, "p")>>

TableCaptures ==
  {File("pcapng", FALSE, FALSE, Two), File("pcap", FALSE, FALSE, Two),
   File("pcap", TRUE, FALSE, Three), NoLink(File("pcap", TRUE, TRUE, Two)),
   File("pcapng", FALSE, FALSE, Three), File("other", FALSE, FALSE, <<>>)}

==============================================================================
