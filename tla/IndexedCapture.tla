--------------------------- MODULE IndexedCapture ---------------------------
(***************************************************************************)
(* What a program that writes an indexed capture promises to those who     *)
(* read it: the index appears in one step, when the last packet has been   *)
(* written, and lists exactly the packets of the capture; from then on     *)
(* neither changes.  Who is told of success finds the index, if one was    *)
(* asked for and the write that should have published it did not miss;     *)
(* who is told of a failure finds none.  Packets may be lost as long as    *)
(* there is no index.                                                      *)
(***************************************************************************)
VARIABLES
  outcome,   \* "running", "done" or "failed"
  indexing,  \* an index was asked for
  intact,    \* no write of the index has missed
  packets,   \* what an index has to say of each packet in the file
  index      \* the index that a reader finds: a set of at most one

vars == <<outcome, indexing, intact, packets, index>>

Choose ==
  /\ outcome = "running"
  /\ packets = {} /\ index = {}
  /\ indexing' \in BOOLEAN
  /\ UNCHANGED <<outcome, intact, packets, index>>

Capture ==
  /\ outcome = "running"
  /\ index = {}
  /\ packets \subseteq packets' \/ packets' \subseteq packets
  /\ UNCHANGED <<outcome, indexing, intact, index>>

Publish ==
  /\ outcome = "running"
  /\ indexing
  /\ index = {}
  /\ index' = {packets}
  /\ UNCHANGED <<outcome, indexing, intact, packets>>

(* The write of the index is lost, and may take packets with it.           *)
Miss ==
  /\ outcome = "running"
  /\ indexing
  /\ index = {} /\ index' = {}
  /\ intact' = FALSE
  /\ packets' \subseteq packets
  /\ UNCHANGED <<outcome, indexing>>

Finish ==
  /\ outcome = "running"
  /\ intact => (indexing <=> index # {})
  /\ outcome' = "done"
  /\ packets' \subseteq packets
  /\ index # {} => packets' = packets
  /\ UNCHANGED <<indexing, intact, index>>

(* A failure may cost packets, those of a file that was being rewritten.   *)
Fail ==
  /\ outcome = "running"
  /\ index = {} /\ index' = {}
  /\ outcome' = "failed"
  /\ packets' \subseteq packets
  /\ intact' \in BOOLEAN
  /\ UNCHANGED indexing

Init ==
  /\ outcome = "running"
  /\ indexing \in BOOLEAN
  /\ intact = TRUE
  /\ packets = {}
  /\ index = {}

Next == Choose \/ Capture \/ Publish \/ Miss \/ Finish \/ Fail

Spec == Init /\ [][Next]_vars
==============================================================================
