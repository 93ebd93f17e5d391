---------------------------- MODULE PacketStream ----------------------------
(***************************************************************************)
(* What a query may expect of a scan of a capture, whatever its format and *)
(* whoever is still writing it: the rows of the packets, in file order,    *)
(* each once, in batches; an end only after every packet that was in the   *)
(* capture when it was opened; a failure of a scan that has begun only if  *)
(* the capture was not complete then.                                      *)
(***************************************************************************)
EXTENDS Integers, Sequences

CONSTANTS
  Streams,  \* the row sequences of the captures that may be opened
  Batch     \* the most rows of one delivery

VARIABLES
  status,     \* "closed", "open", "ended", "failed" or "cancelled"
  stream,     \* the rows of the capture that was opened, when it is complete
  present,    \* how many of them were in it when it was opened
  delivered   \* the rows the query has received

vars == <<status, stream, present, delivered>>

Open ==
  /\ status = "closed"
  /\ status' = "open"
  /\ stream' \in Streams
  /\ present' \in 0..Len(stream')
  /\ UNCHANGED delivered

Deliver ==
  /\ status = "open"
  /\ \E n \in (Len(delivered) + 1)..(Len(delivered) + Batch) :
       /\ n <= Len(stream)
       /\ delivered' = SubSeq(stream, 1, n)
  /\ UNCHANGED <<status, stream, present>>

End ==
  /\ status = "open"
  /\ Len(delivered) >= present
  /\ status' = "ended"
  /\ UNCHANGED <<stream, present, delivered>>

Fail ==
  /\ \/ status = "closed"
     \/ status = "open" /\ present < Len(stream)
  /\ status' = "failed"
  /\ UNCHANGED <<stream, present, delivered>>

Cancel ==
  /\ status = "open"
  /\ status' = "cancelled"
  /\ UNCHANGED <<stream, present, delivered>>

Init ==
  /\ status = "closed"
  /\ stream = <<>>
  /\ present = 0
  /\ delivered = <<>>

Next == Open \/ Deliver \/ End \/ Fail \/ Cancel

Spec == Init /\ [][Next]_vars
==============================================================================
