---------------------------- MODULE MCPqcapQuery ----------------------------
(***************************************************************************)
(* Instances of PqcapQuery.  Twin has an index of the same length at the   *)
(* same offset as Single gets from a job, with another packet.  The packet *)
(* of either ends where the first packet of Plain does.                    *)
(***************************************************************************)
EXTENDS PqcapQuery, MCPqcapIndexer

Single == PcapNg(<<Shb, Idb(5), Epb(4, 20, 5)>>)
Twin   == Index(PcapNg(<<Shb, Idb(5), Epb(5, 20, 5)>>))

QueryCaptures ==
  {Plain, Single, Twin, Classic(<<[pkt |-> 6, captured |-> 4, link |-> 1]>>)}

(* Nothing that a property speaks of is still to come once calls are not   *)
(* Orderly, or once no query can take another step.                        *)
Goes(q) == at[q] # "done" /\ (at[q] = "failed" => loc[q] # {})

Awaited == Orderly /\ \E q \in Query : Goes(q)

(* The captures are such that the theorems speak of this instance.         *)
ASSUME QueryCapturesAssumption ==
  \A c \in QueryCaptures : Linked(c) /\ Intact(c) /\ RightlyIndexed(c.image)
==============================================================================
