------------------------- MODULE PqcapPromiseProofs -------------------------
(***************************************************************************)
(* What a COPY promises, for every value of the constants: the outcome it  *)
(* reports agrees with the index that a reader finds unless its last write *)
(* was not placed, the statement implements IndexedCapture, chunks stay    *)
(* together, a COPY that succeeds has lost nothing, and one that failed    *)
(* has a reason.                                                           *)
(***************************************************************************)
EXTENDS PqcapWriterProofs

(***************************************************************************)
(* A write of the index that fails.                                        *)
(***************************************************************************)

(* What a failing write leaves of an indexed capture has no packet that    *)
(* the capture did not have.                                               *)
LEMMA TornLosesPackets ==
  ASSUME NEW f \in Image, NEW t \in Table, NEW length \in Nat \ {0},
         NEW cuts \in SUBSET Nat,
         NEW g \in TornImages(EmbedParquet(f, t, length), cuts)
  PROVE  PacketsIn(g) \subseteq PacketsIn(f)
<1> DEFINE e == EmbedParquet(f, t, length)
<1>1. e \in Image /\ PacketBlocks(e) = PacketBlocks(f)
      /\ \A i \in PacketBlocks(f) : e.blocks[i] = f.blocks[i]
  <2>1. Embeds(f, t, length, e)
    BY EmbedFacts
  <2>2. e \in Image
    BY <2>1 DEF Embeds
  <2> QED BY <2>2, EmbedKeepsPackets
<1>2. g \in TornImages(e, cuts)
  OBVIOUS
<1> HIDE DEF e
<1>3. CASE g = EmptyImage
  BY <1>3 DEF EmptyImage, PacketsIn, PacketBlocks
<1>4. ASSUME NEW k \in DOMAIN e.blocks, NEW h \in Nat, g = TornAfter(e, k, h)
      PROVE  PacketsIn(g) \subseteq PacketsIn(f)
  <2>1. /\ DOMAIN g.blocks = 1..k /\ k \in 1..Len(e.blocks) /\ DOMAIN e.blocks = 1..Len(e.blocks)
        /\ \A i \in 1..(k - 1) : g.blocks[i] = e.blocks[i]
        /\ g.blocks[k].at = e.blocks[k].at /\ g.blocks[k].type = e.blocks[k].type
        /\ g.blocks[k].body = e.blocks[k].body
    BY <1>1, <1>4, TornFacts
  <2>2. \A i \in DOMAIN g.blocks :
          /\ i \in DOMAIN e.blocks
          /\ g.blocks[i].at = e.blocks[i].at
          /\ g.blocks[i].type = e.blocks[i].type
          /\ g.blocks[i].body = e.blocks[i].body
    BY <2>1
  <2>3. \A i \in PacketBlocks(g) :
          /\ i \in PacketBlocks(f)
          /\ DataAt(g.blocks[i]) = DataAt(f.blocks[i])
          /\ g.blocks[i].body = f.blocks[i].body
    BY <1>1, <2>2 DEF PacketBlocks, DataAt
  <2> QED BY <2>3 DEF PacketsIn
<1> QED BY <1>1, <1>2, <1>3, <1>4, TornCases

(* What is left of a write of the index has no index, and no packet that   *)
(* was not in the capture.                                                 *)
LEMMA TornUnindexed ==
  ASSUME FullInv, stage = "embed", NEW p \in parquet,
         file' \in TornImages(Embedded(p), TornSizes)
  PROVE  ~ LocatorAccepted(file') /\ PacketsIn(file') \subseteq PacketsIn(file)
<1>1. /\ file \in Image /\ WellLaid(file) /\ p.table \in Table /\ p.length \in Nat \ {0}
      /\ TornSizes \in SUBSET Nat
  BY WriterAssumption DEF FullInv, IndexInv, TypeOK, LayoutInv, Capturing
<1>2. file' \in TornImages(EmbedParquet(file, p.table, p.length), TornSizes)
  BY DEF Embedded
<1> QED BY <1>1, <1>2, TornHasNoIndex, TornLosesPackets

(* A write of the index that fails leaves no index either.                 *)
LEMMA EmbedFailsUnindexed ==
  ASSUME FullInv, EmbedFails
  PROVE  ~ LocatorAccepted(file') /\ PacketsIn(file') \subseteq PacketsIn(file)
<1>1. file \in Image /\ WellLaid(file)
  BY DEF FullInv, IndexInv, TypeOK, LayoutInv, Capturing, EmbedFails
<1>2. CASE file' = file
  BY <1>1, <1>2, CaptureHasNoIndex
<1>3. ~ Embed
  <2>1. stage' = "failed"
    BY DEF EmbedFails, Fail
  <2> QED BY <2>1 DEF Embed
<1> QED BY <1>2, <1>3, TornUnindexed, EmbedCases

(* A close, whatever it loses, leaves a capture without an index.          *)
LEMMA CloseUnindexed ==
  ASSUME FullInv, Close
  PROVE  ~ LocatorAccepted(file') /\ PacketsIn(file') \subseteq PacketsIn(file)
<1>1. file \in Image /\ WellLaid(file) /\ file' \in Image
  BY CloseImage DEF FullInv, IndexInv, TypeOK, LayoutInv, Capturing, Close
<1>2. CASE file' = file
  BY <1>1, <1>2, CaptureHasNoIndex
<1>3. CASE file' \in TornImages(file, TornSizes)
  <2>1. TornSizes \in SUBSET (Nat \ {0})
    BY WriterAssumption
  <2>2. /\ WellLaid(file')
        /\ \A i \in PacketBlocks(file') : /\ i \in PacketBlocks(file)
                                          /\ file'.blocks[i].at = file.blocks[i].at
                                          /\ file'.blocks[i].type = file.blocks[i].type
                                          /\ file'.blocks[i].body = file.blocks[i].body
    BY <1>1, <1>3, <2>1, TornLaid
  <2>3. \A i \in PacketBlocks(file') : DataAt(file'.blocks[i]) = DataAt(file.blocks[i])
    BY <2>2 DEF DataAt
  <2> QED BY <1>1, <2>2, <2>3, CaptureHasNoIndex DEF PacketsIn
<1> QED BY <1>2, <1>3 DEF Close

(***************************************************************************)
(* The outcome and the index.                                              *)
(***************************************************************************)

(* Where the statement is tells whether it was asked for an index, whether *)
(* there is one, and that no write of the index has missed.                *)
StatusInv ==
  /\ Capturing => Placed
  /\ stage \in {"resolve", "scan", "walk", "meta", "read", "embed", "tidy"} => cfg.mode = "pqcap"
  /\ stage = "tidy" /\ Placed => LocatorAccepted(file)
  /\ stage = "done" /\ Placed => (cfg.mode = "pqcap" <=> LocatorAccepted(file))
  /\ stage = "failed" => ~ LocatorAccepted(file)

PromiseInv == FullInv /\ StatusInv

(* As long as the statement captures, there is no index.                   *)
LEMMA CapturingUnindexed ==
  ASSUME FullInv, Capturing
  PROVE  ~ LocatorAccepted(file) /\ PublishedTables(file) = {}
<1>1. file \in Image /\ WellLaid(file)
  BY DEF FullInv, IndexInv, LayoutInv, TypeOK
<1> QED BY <1>1, CaptureHasNoIndex DEF PublishedTables

(* The steps of the statement that change neither file nor options.        *)
LEMMA QuietStatus ==
  ASSUME PromiseInv, UNCHANGED <<file, cfg, stray, unflushed>>,
         \/ stage' = stage
         \/ /\ Capturing
            /\ stage' # "tidy"
            /\ stage' \in {"resolve", "scan", "walk", "meta", "read", "embed"} =>
                 cfg.mode = "pqcap"
            /\ stage' = "done" => cfg.mode # "pqcap"
         \/ stage = "tidy" /\ stage' = "done"
  PROVE  StatusInv'
<1>1. FullInv /\ StatusInv /\ Placed' = Placed
  BY DEF PromiseInv, Placed
<1>2. CASE stage' = stage
  BY <1>1, <1>2 DEF StatusInv, Capturing
<1>3. CASE Capturing /\ stage' # stage
  <2>1. Placed /\ ~ LocatorAccepted(file)
    BY <1>1, <1>3, CapturingUnindexed DEF StatusInv
  <2> QED BY <1>1, <1>3, <2>1 DEF StatusInv, Capturing
<1>4. CASE stage = "tidy" /\ stage' = "done"
  BY <1>1, <1>4 DEF StatusInv, Capturing
<1> QED BY <1>2, <1>3, <1>4

(* Every step of the statement keeps the invariant.                        *)
LEMMA NextPromiseInv == PromiseInv /\ [Next]_vars => PromiseInv'
<1> SUFFICES ASSUME PromiseInv, [Next]_vars
             PROVE  PromiseInv'
  OBVIOUS
<1>0. FullInv /\ FullInv' /\ StatusInv
  BY NextFullInv DEF PromiseInv
<1> SUFFICES StatusInv'
  BY <1>0 DEF PromiseInv
<1> USE DEF Capturing
<1>1. ASSUME NEW s \in CopyStatements, Bind(s)
      PROVE  StatusInv'
  <2>1. /\ stage = "bind" /\ stage' \in {"open", "failed"}
        /\ UNCHANGED <<file, stray, unflushed>>
    BY <1>1 DEF Bind, capture, placing
  <2>2. Placed' /\ ~ LocatorAccepted(file')
    BY <1>0, <2>1, CapturingUnindexed DEF StatusInv, Placed
  <2> QED BY <2>1, <2>2 DEF StatusInv
<1>2. CASE InitializeGlobal
  <2>1. stage = "open" /\ stage' = "copy" /\ UNCHANGED <<stray, unflushed>>
    BY <1>2 DEF InitializeGlobal, placing
  <2> QED BY <1>0, <2>1 DEF StatusInv, Placed
<1>3. ASSUME NEW t \in Thread, Sink(t)
      PROVE  StatusInv'
  <2>1. CASE WriteBlock(t)
    <3>1. stage' = stage /\ stage \in {"copy", "abort"} /\ UNCHANGED <<stray, unflushed>>
      BY <1>0, <2>1 DEF WriteBlock, FullInv, IndexInv, CallInv, placing
    <3> QED BY <1>0, <3>1 DEF StatusInv, Placed
  <2>2. CASE \E c \in Chunk : SinkCall(t, c)
    BY <2>2, QuietStatus DEF SinkCall, statement, capture, placing
  <2>3. CASE Acquire(t) \/ PushRow(t) \/ SinkReturn(t)
    BY <2>3, QuietStatus DEF Acquire, PushRow, SinkReturn, statement, capture, placing
  <2>4. CASE SinkReject(t)
    <3>1. /\ stage \in {"copy", "abort"} /\ stage' = "abort"
          /\ UNCHANGED <<file, cfg, stray, unflushed>>
      BY <1>0, <2>4 DEF SinkReject, FullInv, IndexInv, CallInv, statement, capture, placing
    <3> QED BY <3>1, QuietStatus
  <2> QED BY <1>3, <2>1, <2>2, <2>3, <2>4 DEF Sink
<1>4. CASE Destroy
  BY <1>4, QuietStatus DEF Destroy, statement, capture, placing
<1>5. CASE Close
  <2>1. /\ stage = "copy" /\ cfg' = cfg /\ UNCHANGED <<stray, unflushed>>
        /\ IF cfg.mode # "pqcap" THEN stage' = "done" ELSE stage' = "resolve"
    BY <1>5 DEF Close, statement, placing
  <2>2. Placed' /\ ~ LocatorAccepted(file')
    BY <1>0, <1>5, <2>1, CloseUnindexed DEF StatusInv, Placed
  <2> QED BY <2>1, <2>2 DEF StatusInv
<1>6. CASE Resolve \/ OpenForScan \/ EmbedRead
  <2>1. /\ stage \in {"resolve", "scan", "read"} /\ stage' \in {"scan", "walk", "embed", "failed"}
        /\ UNCHANGED <<file, cfg, stray, unflushed>>
    BY <1>6 DEF Resolve, OpenForScan, EmbedRead, Fail, statement, capture, placing
  <2> QED BY <1>0, <2>1, QuietStatus DEF StatusInv
<1>7. CASE ScanStep \/ ScanEnd
  BY <1>0, <1>7, QuietStatus DEF ScanStep, ScanEnd, statement, capture, placing, StatusInv
<1>8. CASE WriteMetadata \/ WriteMetadataFails
  <2>1. /\ stage = "meta" /\ stage' \in {"read", "failed"}
        /\ UNCHANGED <<file, cfg, stray, unflushed>>
    BY <1>8 DEF WriteMetadata, WriteMetadataFails, Fail, statement, capture, placing
  <2> QED BY <1>0, <2>1, QuietStatus DEF StatusInv
<1>9. CASE Embed
  <2>1. stage = "embed" /\ stage' = "tidy" /\ cfg' = cfg /\ cfg.mode = "pqcap"
    BY <1>0, <1>9 DEF Embed, statement, StatusInv
  <2>2. ASSUME NEW p \in parquet, Embedded(p).size < U64, file' = Embedded(p)
        PROVE  LocatorAccepted(file')
    <3>1. file \in Image /\ p.table \in Table /\ p.length \in Nat \ {0}
      BY <1>0, <2>2, WriterAssumption DEF FullInv, TypeOK
    <3> QED BY <2>2, <3>1, EmbedAccepted DEF Embedded
  <2>3. ~ EmbedFails
    BY <2>1 DEF EmbedFails, Fail
  <2>4. ~ Placed' \/ LocatorAccepted(file')
    BY <1>9, <2>2, <2>3, EmbedCases DEF Placed
  <2> QED BY <2>1, <2>4 DEF StatusInv
<1>10. CASE RemoveTemp
  BY <1>10, QuietStatus DEF RemoveTemp, statement, capture, placing
<1>11. CASE MoveTmpFile
  BY <1>11, QuietStatus DEF MoveTmpFile, statement
<1>12. CASE InitializeGlobalFails
  BY <1>12, QuietStatus DEF InitializeGlobalFails, statement, capture, placing
<1>13. CASE EmbedFails
  <2>1. stage' = "failed"
    BY <1>13 DEF EmbedFails, Fail
  <2>2. ~ LocatorAccepted(file')
    BY <1>0, <1>13, EmbedFailsUnindexed
  <2> QED BY <2>1, <2>2 DEF StatusInv
<1>14. CASE UNCHANGED vars
  BY <1>14, QuietStatus DEF vars, statement, capture, placing
<1> QED BY <1>1, <1>2, <1>3, <1>4, <1>5, <1>6, <1>7, <1>8, <1>9, <1>10, <1>11, <1>12, <1>13,
           <1>14 DEF Next, Finalize, Failures

(* Nothing has been written when the statement is bound.                   *)
LEMMA InitPromiseInv == Init => PromiseInv
<1> SUFFICES ASSUME Init PROVE StatusInv
  BY InitFullInv DEF PromiseInv
<1> QED BY DEF Init, StatusInv, Placed

(* Whatever the threads and the failing writes do: a COPY in mode pqcap    *)
(* that reports success has left an index that read_pqcap accepts, if      *)
(* fclose flushed it and the capture was not renamed under way; one that   *)
(* reports a failure has left none.                                        *)
THEOREM OutcomeAgrees == Spec => []IndexIffSucceeded
<1>1. Init => PromiseInv
  BY InitPromiseInv
<1>2. PromiseInv /\ [Next]_vars => PromiseInv'
  BY NextPromiseInv
<1>3. PromiseInv => IndexIffSucceeded
  BY DEF PromiseInv, StatusInv, IndexIffSucceeded
<1> QED BY <1>1, <1>2, <1>3, PTL DEF Spec

(***************************************************************************)
(* The refinement.                                                         *)
(***************************************************************************)

(* A running statement that leaves file and options alone does nothing     *)
(* that a reader could see.                                                *)
LEMMA UnseenStep ==
  ASSUME UNCHANGED <<file, cfg, stray, unflushed>>,
         stage' = stage \/ (stage \notin {"done", "failed"} /\ stage' \notin {"done", "failed"})
  PROVE  UNCHANGED Promise!vars
<1>1. PacketsIn(file)' = PacketsIn(file)
      /\ { Entries(t) : t \in PublishedTables(file) }' = { Entries(t) : t \in PublishedTables(file) }
  OBVIOUS
<1>2. Placed' = Placed
  BY DEF Placed
<1> QED BY <1>1, <1>2 DEF Promise!vars

(* A failure before there is an index is one the promise allows, if it     *)
(* costs packets at most.                                                  *)
LEMMA FailureStep ==
  ASSUME FullInv, Capturing, stage' = "failed", cfg' = cfg,
         ~ LocatorAccepted(file'), PacketsIn(file') \subseteq PacketsIn(file)
  PROVE  Promise!Fail
<1>1. PublishedTables(file) = {} /\ PublishedTables(file') = {}
  BY CapturingUnindexed DEF PublishedTables
<1>2. Placed' \in BOOLEAN
  BY DEF Placed
<1> QED BY <1>1, <1>2 DEF Promise!Fail, Capturing

(* Packets that are added, or lost, as long as there is no index.          *)
LEMMA CaptureStep ==
  ASSUME FullInv, FullInv', Capturing, Capturing', UNCHANGED <<cfg, stray, unflushed>>,
         \/ PacketsIn(file) \subseteq PacketsIn(file')
         \/ PacketsIn(file') \subseteq PacketsIn(file)
  PROVE  Promise!Capture
<1>1. file' \in Image /\ WellLaid(file')
  BY DEF FullInv, IndexInv, LayoutInv, TypeOK
<1>2. PublishedTables(file) = {} /\ PublishedTables(file') = {}
  BY <1>1, CapturingUnindexed, CaptureHasNoIndex DEF PublishedTables
<1>3. Placed' = Placed
  BY DEF Placed
<1> QED BY <1>2, <1>3 DEF Promise!Capture, Capturing

(* A table that describes the packets of a file lists what the file holds. *)
LEMMA DescribedEntries ==
  ASSUME NEW t, NEW f, DescribesPackets(t, f)
  PROVE  Entries(t) = PacketsIn(f)
<1>1. \A n \in DOMAIN t : \E i \in PacketBlocks(f) : Describes(t[n], f.blocks[i])
  BY DEF DescribesPackets
<1>2. \A i \in PacketBlocks(f) : \E n \in DOMAIN t : Describes(t[n], f.blocks[i])
  BY DEF DescribesPackets
<1>3. Entries(t) \subseteq PacketsIn(f)
  BY <1>1 DEF Entries, PacketsIn, Describes
<1>4. PacketsIn(f) \subseteq Entries(t)
  BY <1>2 DEF Entries, PacketsIn, Describes
<1> QED BY <1>3, <1>4

(* light_write_packet, whole or failing, takes no packet away.             *)
LEMMA WriteBlockAdds ==
  ASSUME FullInv, NEW t \in Thread, WriteBlock(t)
  PROVE  PacketsIn(file) \subseteq PacketsIn(file')
<1> DEFINE link == EffectiveLink(DataLink(Row(t)), cfg.linktype)
           ord  == Len(rows) + 1
<1>1. TypeInv /\ CallInv /\ LayoutInv
  BY DEF FullInv, IndexInv, TypeInv
<1>2. stage \in {"copy", "abort"}
  BY <1>1 DEF WriteBlock, CallInv
<1>3. WellLaid(file) /\ file \in Image
  BY <1>1, <1>2 DEF Capturing, LayoutInv, TypeInv, TypeOK
<1>4. Row(t) \in InputRow /\ link \in Nat
  BY <1>1, CurrentRow, LinkTypes DEF WriteBlock
<1>5. ord \in Nat
  BY <1>1 DEF TypeInv, TypeOK
<1>6. file' \in {Written(file, Row(t), link, ord)} \cup PartlyWritten(file, Row(t), link, ord)
  BY DEF WriteBlock
<1> HIDE DEF link, ord
<1>7. Grows(file, file', Row(t).pkt, link, ord)
  BY <1>3, <1>4, <1>5, <1>6, WritesGrow
<1>8. \A i \in PacketBlocks(file) : i \in PacketBlocks(file') /\ file'.blocks[i] = file.blocks[i]
  BY <1>7 DEF Grows, PacketBlocks
<1> QED BY <1>8 DEF PacketsIn

(* The embedded index is the one the promise publishes.                    *)
LEMMA EmbedStep ==
  ASSUME PromiseInv, Embed, UNCHANGED <<stray, unflushed>>,
         NEW p \in parquet, Embedded(p).size < U64, file' = Embedded(p)
  PROVE  Promise!Publish
<1>1. FullInv /\ StatusInv /\ Placed' = Placed
  BY DEF PromiseInv, Placed
<1>2. stage = "embed" /\ stage' = "tidy" /\ cfg' = cfg
  BY DEF Embed, statement
<1>3. /\ file \in Image /\ WellLaid(file) /\ p.table \in Table /\ p.length \in Nat \ {0}
      /\ DescribesPackets(p.table, file)
  BY <1>1, <1>2, WriterAssumption DEF FullInv, IndexInv, TypeOK, LayoutInv, Capturing, ParquetInv
<1>4. file' = EmbedParquet(file, p.table, p.length) /\ EmbedParquet(file, p.table, p.length).size < U64
  BY DEF Embedded
<1>5. LocatorAccepted(file')
  BY <1>3, <1>4, EmbedAccepted
<1>6. PublishedTables(file') = {p.table}
  BY <1>3, <1>4, <1>5, EmbedPublishes
<1>7. PublishedTables(file) = {}
  BY <1>1, <1>2, CapturingUnindexed DEF Capturing
<1>8. PacketsIn(file') = PacketsIn(file)
  <2>1. PacketBlocks(file') = PacketBlocks(file)
        /\ \A i \in PacketBlocks(file) : file'.blocks[i] = file.blocks[i]
    BY <1>3, <1>4, EmbedKeepsPackets
  <2> QED BY <2>1 DEF PacketsIn
<1>9. Entries(p.table) = PacketsIn(file)
  BY <1>3, DescribedEntries
<1>10. { Entries(t) : t \in PublishedTables(file') } = {PacketsIn(file)}
  BY <1>6, <1>9
<1>11. cfg.mode = "pqcap"
  BY <1>1, <1>2 DEF StatusInv
<1> QED BY <1>1, <1>2, <1>7, <1>8, <1>10, <1>11 DEF Promise!Publish

(* A write of the index that does not reach the capture is the miss of the *)
(* promise.                                                                *)
LEMMA MissStep ==
  ASSUME PromiseInv, Embed, ~ Placed',
         \/ file' = file
         \/ \E p \in parquet : file' \in TornImages(Embedded(p), TornSizes)
  PROVE  Promise!Miss
<1>1. FullInv /\ StatusInv
  BY DEF PromiseInv
<1>2. stage = "embed" /\ stage' = "tidy" /\ cfg' = cfg /\ cfg.mode = "pqcap"
  BY <1>1 DEF Embed, statement, StatusInv
<1>3. ~ LocatorAccepted(file) /\ PublishedTables(file) = {}
  BY <1>1, <1>2, CapturingUnindexed DEF Capturing
<1>4. ~ LocatorAccepted(file') /\ PacketsIn(file') \subseteq PacketsIn(file)
  BY <1>1, <1>2, <1>3, TornUnindexed
<1>5. PublishedTables(file') = {} /\ Placed' = FALSE
  BY <1>4 DEF PublishedTables, Placed
<1> QED BY <1>2, <1>3, <1>4, <1>5 DEF Promise!Miss

(* Every step of the statement is one of the promise, or none.             *)
LEMMA NextImplements ==
  ASSUME PromiseInv, PromiseInv', [Next]_vars
  PROVE  [Promise!Next]_(Promise!vars)
<1>0. FullInv /\ FullInv' /\ StatusInv
  BY DEF PromiseInv
<1> USE DEF Capturing
<1>1. ASSUME NEW s \in CopyStatements, Bind(s)
      PROVE  [Promise!Next]_(Promise!vars)
  <2>1. /\ stage = "bind" /\ stage' \in {"open", "failed"}
        /\ file' = file /\ Placed' = Placed
    BY <1>1 DEF Bind, capture, placing, Placed
  <2>2. PacketsIn(file) = {} /\ PublishedTables(file) = {} /\ ~ LocatorAccepted(file)
    <3>1. file = EmptyImage
      BY <1>0, <2>1 DEF FullInv, IndexInv, LayoutInv
    <3> QED BY <1>0, <2>1, <3>1, CapturingUnindexed DEF PacketsIn, PacketBlocks, EmptyImage
  <2>3. CASE stage' = "open"
    <3>1. Promise!Choose
      BY <2>1, <2>2, <2>3 DEF Promise!Choose
    <3> QED BY <3>1 DEF Promise!Next
  <2>4. CASE stage' = "failed"
    <3>1. cfg' = cfg
      BY <1>1, <2>4 DEF Bind
    <3>2. Promise!Fail
      BY <1>0, <2>1, <2>2, <2>4, <3>1, FailureStep
    <3> QED BY <3>2 DEF Promise!Next
  <2> QED BY <2>1, <2>3, <2>4
<1>2. CASE InitializeGlobal
  <2>1. stage = "open" /\ stage' = "copy" /\ UNCHANGED <<cfg, stray, unflushed>>
    BY <1>2 DEF InitializeGlobal, statement, placing
  <2>2. PacketsIn(file) = {}
    <3>1. file = EmptyImage
      BY <1>0, <2>1 DEF FullInv, IndexInv, LayoutInv
    <3> QED BY <3>1 DEF PacketsIn, PacketBlocks, EmptyImage
  <2>3. Promise!Capture
    BY <1>0, <2>1, <2>2, CaptureStep
  <2> QED BY <2>3 DEF Promise!Next
<1>3. ASSUME NEW t \in Thread, Sink(t)
      PROVE  [Promise!Next]_(Promise!vars)
  <2>1. CASE WriteBlock(t)
    <3>1. stage' = stage /\ stage \in {"copy", "abort"} /\ UNCHANGED <<cfg, stray, unflushed>>
      BY <1>0, <2>1 DEF WriteBlock, FullInv, IndexInv, CallInv, statement, placing
    <3>2. Promise!Capture
      BY <1>0, <2>1, <3>1, WriteBlockAdds, CaptureStep
    <3> QED BY <3>2 DEF Promise!Next
  <2>2. CASE \E c \in Chunk : SinkCall(t, c)
    BY <2>2, UnseenStep DEF SinkCall, statement, capture, placing
  <2>3. CASE Acquire(t) \/ PushRow(t) \/ SinkReturn(t)
    BY <2>3, UnseenStep DEF Acquire, PushRow, SinkReturn, statement, capture, placing
  <2>4. CASE SinkReject(t)
    <3>1. /\ stage \in {"copy", "abort"} /\ stage' = "abort"
          /\ UNCHANGED <<file, cfg, stray, unflushed>>
      BY <1>0, <2>4 DEF SinkReject, FullInv, IndexInv, CallInv, statement, capture, placing
    <3> QED BY <3>1, UnseenStep
  <2> QED BY <1>3, <2>1, <2>2, <2>3, <2>4 DEF Sink
<1>4. CASE Destroy \/ InitializeGlobalFails \/ WriteMetadataFails
  <2>1. /\ stage \in {"abort", "open", "meta"} /\ stage' = "failed"
        /\ UNCHANGED <<file, cfg>>
    BY <1>4 DEF Destroy, InitializeGlobalFails, WriteMetadataFails, Fail, statement, capture
  <2>2. Promise!Fail
    BY <1>0, <2>1, FailureStep, CapturingUnindexed
  <2> QED BY <2>2 DEF Promise!Next
<1>5. CASE Close
  <2>1. stage = "copy" /\ UNCHANGED <<cfg, stray, unflushed>> /\ Placed' = Placed
    BY <1>5 DEF Close, statement, placing, Placed
  <2>2. ~ LocatorAccepted(file') /\ PacketsIn(file') \subseteq PacketsIn(file)
    BY <1>0, <1>5, CloseUnindexed
  <2>3. CASE cfg.mode # "pqcap"
    <3>1. stage' = "done"
      BY <1>5, <2>3 DEF Close
    <3>2. PublishedTables(file) = {} /\ PublishedTables(file') = {}
      BY <1>0, <2>1, <2>2, CapturingUnindexed DEF PublishedTables
    <3>3. Promise!Finish
      BY <2>1, <2>2, <2>3, <3>1, <3>2 DEF Promise!Finish
    <3> QED BY <3>3 DEF Promise!Next
  <2>4. CASE cfg.mode = "pqcap"
    <3>1. stage' = "resolve"
      BY <1>5, <2>4 DEF Close
    <3>2. Promise!Capture
      BY <1>0, <2>1, <2>2, <3>1, CaptureStep
    <3> QED BY <3>2 DEF Promise!Next
  <2> QED BY <2>3, <2>4
<1>6. CASE Resolve \/ OpenForScan \/ WriteMetadata \/ EmbedRead
  <2>1. /\ stage \in {"resolve", "scan", "meta", "read"}
        /\ stage' \in {"scan", "walk", "read", "embed", "failed"}
        /\ UNCHANGED <<file, cfg, stray, unflushed>>
    BY <1>6 DEF Resolve, OpenForScan, WriteMetadata, EmbedRead, Fail, statement, capture, placing
  <2>2. CASE stage' = "failed"
    <3>1. Promise!Fail
      BY <1>0, <2>1, <2>2, FailureStep, CapturingUnindexed
    <3> QED BY <3>1 DEF Promise!Next
  <2>3. CASE stage' # "failed"
    BY <2>1, <2>3, UnseenStep
  <2> QED BY <2>2, <2>3
<1>7. CASE ScanStep \/ ScanEnd
  BY <1>7, UnseenStep DEF ScanStep, ScanEnd, statement, copyVars, capture, placing
<1>8. CASE Embed
  <2>1. UNCHANGED <<stray, unflushed>> \/ ~ Placed'
    BY <1>8 DEF Embed, Put, Placed
  <2>2. ~ EmbedFails
    BY <1>8 DEF Embed, EmbedFails, Fail
  <2>3. CASE /\ ~ Placed'
             /\ \/ file' = file
                \/ \E p \in parquet : file' \in TornImages(Embedded(p), TornSizes)
    BY <1>8, <2>3, MissStep DEF Promise!Next
  <2>4. CASE Placed'
    <3>1. PICK p \in parquet : Embedded(p).size < U64 /\ file' = Embedded(p)
      BY <1>8, <2>2, <2>4, EmbedCases DEF Placed
    <3>2. Promise!Publish
      BY <1>8, <2>1, <2>4, <3>1, EmbedStep
    <3> QED BY <3>2 DEF Promise!Next
  <2>5. Placed' \/ file' = file
        \/ \E p \in parquet : file' \in TornImages(Embedded(p), TornSizes)
    <3>1. Placed
      BY <1>0, <1>8 DEF StatusInv, Embed
    <3> QED BY <1>8, <3>1 DEF Embed, Put, Placed
  <2> QED BY <2>3, <2>4, <2>5
<1>9. CASE RemoveTemp
  <2>1. /\ stage = "tidy" /\ stage' = "done" /\ UNCHANGED <<file, cfg>>
        /\ Placed' = Placed
    BY <1>9 DEF RemoveTemp, statement, capture, placing, Placed
  <2>2. cfg.mode = "pqcap" /\ (Placed => LocatorAccepted(file))
    BY <1>0, <2>1 DEF StatusInv
  <2>3. Placed => \E t : PublishedTables(file) = {t}
    BY <1>0, <2>2 DEF FullInv, IndexInv, IndexDescribesPackets
  <2>4. Promise!Finish
    BY <2>1, <2>2, <2>3 DEF Promise!Finish
  <2> QED BY <2>4 DEF Promise!Next
<1>10. CASE MoveTmpFile
  BY <1>10, UnseenStep DEF MoveTmpFile, statement
<1>11. CASE EmbedFails
  <2>1. stage \in {"read", "embed"} /\ stage' = "failed" /\ cfg' = cfg
    BY <1>11 DEF EmbedFails, Fail, statement
  <2>2. Promise!Fail
    BY <1>0, <1>11, <2>1, EmbedFailsUnindexed, FailureStep
  <2> QED BY <2>2 DEF Promise!Next
<1>12. CASE UNCHANGED vars
  BY <1>12, UnseenStep DEF vars, statement, capture, placing
<1> QED BY <1>1, <1>2, <1>3, <1>4, <1>5, <1>6, <1>7, <1>8, <1>9, <1>10, <1>11, <1>12
        DEF Next, Finalize, Failures

(* Nothing has been captured when the statement is bound.                  *)
LEMMA InitImplements == Init => Promise!Init
<1> SUFFICES ASSUME Init PROVE Promise!Init
  OBVIOUS
<1>1. file = EmptyImage /\ stage = "bind"
  BY DEF Init
<1>2. PacketsIn(file) = {}
  BY <1>1 DEF PacketsIn, PacketBlocks, EmptyImage
<1>3. PublishedTables(file) = {}
  BY <1>1, NoFooterNoIndex DEF PublishedTables, EmptyImage
<1>4. Placed = TRUE
  BY DEF Init, Placed
<1> QED BY <1>1, <1>2, <1>3, <1>4 DEF Promise!Init

(* A COPY is an indexed capture, for any number of threads, chunks, rows   *)
(* and failing writes: its index appears in one step, complete and exact,  *)
(* nothing is captured behind it, and the reported outcome agrees with it  *)
(* if the last write was placed.                                           *)
THEOREM CopyKeepsPromise == Spec => ImplementsPromise
<1>1. Init => PromiseInv /\ Promise!Init
  BY InitPromiseInv, InitImplements
<1>2. PromiseInv /\ [Next]_vars => PromiseInv'
  BY NextPromiseInv
<1>3. PromiseInv /\ PromiseInv' /\ [Next]_vars => [Promise!Next]_(Promise!vars)
  BY NextImplements
<1> QED BY <1>1, <1>2, <1>3, PTL DEF Spec, ImplementsPromise, Promise!Spec

(***************************************************************************)
(* What a COPY that succeeds has taken.                                    *)
(***************************************************************************)

(* The rows of a chunk are next to each other in the row buffer.           *)
Stands(c, R) ==
  \E k \in 0..(Len(R) - Len(RowsOf[c])) :
    \A i \in DOMAIN RowsOf[c] : R[k + i] = Buffered(RowsOf[c][i])

InHand(c) == \E t \in Thread : pc[t] # "idle" /\ chunk[t] = c

(* The writer is open while the sink is called, and closed from then on.   *)
StageInv ==
  /\ stage \in {"bind", "open"} => writer = "none" /\ queue = input
  /\ stage \in {"copy", "abort"} => writer = "open"
  /\ stage \in {"resolve", "scan", "walk", "meta", "read", "embed", "tidy", "done"} =>
       writer = "closed"

(* No chunk is lost on its way to the row buffer.                          *)
TakenInv ==
  /\ stage = "copy" => \A c \in input : c \in queue \/ InHand(c) \/ Stands(c, rows)
  /\ writer = "closed" => \A c \in input : Stands(c, rows)

(* A call has buffered the rows before its loop variable, behind whatever  *)
(* was there.                                                              *)
BegunInv ==
  \A t \in Thread :
    /\ pc[t] = "wait" => r[t] = 1
    /\ pc[t] \in {"write", "push"} =>
         /\ r[t] <= Len(RowsOf[chunk[t]]) + 1
         /\ r[t] <= Len(rows) + 1
         /\ \A i \in 1..(r[t] - 1) :
              rows[Len(rows) + 1 - r[t] + i] = Buffered(RowsOf[chunk[t]][i])

ProgressInv == StageInv /\ TakenInv /\ BegunInv

(* Rows that are buffered behind it leave a chunk where it stands.         *)
LEMMA StandsBehind ==
  ASSUME NEW c \in Chunk, NEW R \in Seq(BufferedRow), NEW x \in BufferedRow, Stands(c, R)
  PROVE  Stands(c, Append(R, x))
<1>1. PICK k \in 0..(Len(R) - Len(RowsOf[c])) :
        \A i \in DOMAIN RowsOf[c] : R[k + i] = Buffered(RowsOf[c][i])
  BY DEF Stands
<1> DEFINE n == Len(RowsOf[c])
           Q == Append(R, x)
<1>2. n \in Nat /\ DOMAIN RowsOf[c] = 1..n
  BY WriterAssumption
<1>3. Len(R) \in Nat /\ Len(Q) = Len(R) + 1 /\ \A j \in 1..Len(R) : Q[j] = R[j]
  OBVIOUS
<1> HIDE DEF n, Q
<1>4. k \in Nat /\ k + n <= Len(R)
  BY <1>1, <1>2, <1>3 DEF n
<1>5. \A i \in 1..n : k + i \in 1..Len(R)
  BY <1>2, <1>3, <1>4
<1>6. \A i \in DOMAIN RowsOf[c] : Q[k + i] = Buffered(RowsOf[c][i])
  BY <1>1, <1>2, <1>3, <1>5
<1>7. k \in 0..(Len(Q) - Len(RowsOf[c]))
  BY <1>2, <1>3, <1>4 DEF n
<1> QED BY <1>6, <1>7 DEF Stands, Q

(* A call whose loop has ended has buffered its whole chunk.               *)
LEMMA LoopEndStands ==
  ASSUME TypeInv, BegunInv, NEW t \in Thread, pc[t] = "write", LoopEnds(t)
  PROVE  Stands(chunk[t], rows)
<1> DEFINE n == Len(RowsOf[chunk[t]])
           k == Len(rows) - n
<1>1. chunk[t] \in Chunk /\ r[t] \in Nat /\ Len(rows) \in Nat
  BY DEF TypeInv, TypeOK, CallInv
<1>2. n \in Nat /\ DOMAIN RowsOf[chunk[t]] = 1..n
  BY <1>1, WriterAssumption
<1>3. r[t] > n /\ r[t] <= n + 1 /\ r[t] <= Len(rows) + 1
      /\ \A i \in 1..(r[t] - 1) :
           rows[Len(rows) + 1 - r[t] + i] = Buffered(RowsOf[chunk[t]][i])
  BY DEF BegunInv, LoopEnds
<1> HIDE DEF n
<1>4. r[t] = n + 1
  BY <1>1, <1>2, <1>3
<1>5. k \in 0..(Len(rows) - n) /\ \A i \in 1..n : Len(rows) + 1 - r[t] + i = k + i
  BY <1>1, <1>2, <1>3, <1>4
<1>6. \A i \in 1..n : i \in 1..(r[t] - 1)
  BY <1>1, <1>2, <1>4
<1>7. \A i \in 1..n : rows[k + i] = Buffered(RowsOf[chunk[t]][i])
  BY <1>3, <1>5, <1>6
<1> QED BY <1>2, <1>5, <1>7 DEF Stands, n

(* Buffering a row moves its call on by one.                               *)
LEMMA PushRowBegun ==
  ASSUME TypeInv, BegunInv, NEW t \in Thread, PushRow(t)
  PROVE  BegunInv'
<1>1. pc[t] = "push" /\ chunk[t] \in Chunk /\ r[t] \in Nat /\ r[t] >= 1 /\ lock = t
      /\ r[t] <= Len(RowsOf[chunk[t]])
  BY DEF PushRow, TypeInv, TypeOK, CallInv
<1>2. /\ rows' = Append(rows, Buffered(Row(t))) /\ chunk' = chunk
      /\ r' = [r EXCEPT ![t] = @ + 1]
      /\ pc' = [pc EXCEPT ![t] = "write"]
  BY DEF PushRow
<1>3. Buffered(Row(t)) \in BufferedRow /\ rows \in Seq(BufferedRow)
  BY <1>1, CurrentRow DEF TypeInv, TypeOK
<1>4. /\ Len(rows) \in Nat /\ Len(rows') = Len(rows) + 1
      /\ \A n \in 1..Len(rows) : rows'[n] = rows[n]
      /\ rows'[Len(rows) + 1] = Buffered(Row(t))
  BY <1>2, <1>3
<1>5. r'[t] = r[t] + 1 /\ \A u \in Thread : u # t => r'[u] = r[u] /\ pc'[u] = pc[u]
  BY <1>2 DEF TypeInv, TypeOK
<1>6. \A u \in Thread : u # t => pc[u] \notin {"write", "push"}
  BY <1>1 DEF TypeInv, CallInv
<1>7. Len(RowsOf[chunk[t]]) \in Nat
  BY <1>1, WriterAssumption
<1>8. r[t] <= Len(rows) + 1
      /\ \A i \in 1..(r[t] - 1) :
           rows[Len(rows) + 1 - r[t] + i] = Buffered(RowsOf[chunk[t]][i])
  BY <1>1 DEF BegunInv
<1>9. ASSUME NEW i \in 1..(r'[t] - 1)
      PROVE  rows'[Len(rows') + 1 - r'[t] + i] = Buffered(RowsOf[chunk[t]][i])
  <2>0. i \in 1..r[t] /\ i \in Nat
    BY <1>1, <1>5
  <2>1. Len(rows') + 1 - r'[t] + i = Len(rows) + 1 - r[t] + i
    <3> DEFINE x == Len(rows)
               y == r[t]
    <3>1. x \in Nat /\ y \in Nat /\ Len(rows') = x + 1 /\ r'[t] = y + 1
      BY <1>1, <1>4, <1>5
    <3> HIDE DEF x, y
    <3>2. Len(rows') + 1 - r'[t] + i = x + 1 - y + i
      BY <2>0, <3>1
    <3> QED BY <3>2 DEF x, y
  <2>2. CASE i = r[t]
    <3>1. Len(rows) + 1 - r[t] + i = Len(rows) + 1
      BY <1>1, <1>4, <2>2
    <3> QED BY <1>4, <2>1, <2>2, <3>1 DEF Row
  <2>3. CASE i # r[t]
    <3>1. i \in 1..(r[t] - 1)
      BY <1>1, <1>5, <2>3
    <3>2. Len(rows) + 1 - r[t] + i \in 1..Len(rows)
      BY <1>1, <1>4, <1>8, <3>1
    <3> QED BY <1>4, <1>8, <2>1, <3>1, <3>2
  <2> QED BY <2>2, <2>3
<1>10. r'[t] <= Len(RowsOf[chunk[t]]) + 1 /\ r'[t] <= Len(rows') + 1
  BY <1>1, <1>4, <1>5, <1>7, <1>8
<1>11. ASSUME NEW u \in Thread, u # t
       PROVE  /\ pc'[u] = "wait" => r'[u] = 1
              /\ pc'[u] \notin {"write", "push"}
  BY <1>5, <1>6, <1>11 DEF BegunInv
<1>12. pc'[t] # "wait"
  BY <1>2 DEF TypeInv, TypeOK
<1> QED BY <1>2, <1>9, <1>10, <1>11, <1>12 DEF BegunInv

(* The calls of the sink keep the order of stages, lose no chunk and       *)
(* buffer their rows in turn.                                              *)
LEMMA SinkProgress ==
  ASSUME TypeInv, ProgressInv, NEW t \in Thread, Sink(t)
  PROVE  ProgressInv'
<1>0. StageInv /\ TakenInv /\ BegunInv
  BY DEF ProgressInv
<1>1. input' = input /\ writer' = writer
  BY DEF Sink, SinkCall, Acquire, SinkReject, WriteBlock, PushRow, SinkReturn, statement
<1>2. ASSUME NEW c \in Chunk, SinkCall(t, c)
      PROVE  ProgressInv'
  <2>1. /\ stage = "copy" /\ stage' = stage /\ rows' = rows /\ queue' = queue \ {c}
        /\ pc[t] = "idle"
        /\ pc' = [pc EXCEPT ![t] = "wait"] /\ chunk' = [chunk EXCEPT ![t] = c]
        /\ r' = [r EXCEPT ![t] = 1]
    BY <1>2 DEF SinkCall
  <2>2. /\ pc'[t] = "wait" /\ chunk'[t] = c /\ r'[t] = 1
        /\ \A u \in Thread : u # t => pc'[u] = pc[u] /\ chunk'[u] = chunk[u] /\ r'[u] = r[u]
    BY <2>1 DEF TypeInv, TypeOK
  <2>3. \A d \in input : InHand(d) => InHand(d)'
    BY <2>1, <2>2 DEF InHand
  <2>4. InHand(c)'
    BY <2>2 DEF InHand
  <2>5. TakenInv'
    BY <1>0, <1>1, <2>1, <2>3, <2>4 DEF TakenInv, StageInv
  <2>6. BegunInv'
    BY <1>0, <2>1, <2>2 DEF BegunInv
  <2>7. StageInv'
    BY <1>0, <1>1, <2>1 DEF StageInv
  <2> QED BY <2>5, <2>6, <2>7 DEF ProgressInv
<1>3. CASE Acquire(t)
  <2>1. /\ UNCHANGED <<stage, rows, queue, chunk, r>> /\ pc[t] = "wait"
        /\ pc' = [pc EXCEPT ![t] = "write"]
    BY <1>3 DEF Acquire
  <2>2. pc'[t] = "write" /\ \A u \in Thread : u # t => pc'[u] = pc[u]
    BY <2>1 DEF TypeInv, TypeOK
  <2>3. \A d \in input : InHand(d) => InHand(d)'
    BY <2>1, <2>2 DEF InHand
  <2>4. TakenInv'
    BY <1>0, <1>1, <2>1, <2>3 DEF TakenInv
  <2>5. r[t] = 1 /\ chunk[t] \in Chunk /\ Len(rows) \in Nat
    BY <1>0, <2>1 DEF BegunInv, TypeInv, TypeOK, CallInv
  <2>6. Len(RowsOf[chunk[t]]) \in Nat
    BY <2>5, WriterAssumption
  <2>7. r[t] <= Len(RowsOf[chunk[t]]) + 1 /\ r[t] <= Len(rows) + 1 /\ 1..(r[t] - 1) = {}
    BY <2>5, <2>6
  <2>8. BegunInv'
    BY <1>0, <2>1, <2>2, <2>7 DEF BegunInv
  <2>9. StageInv'
    BY <1>0, <1>1, <2>1 DEF StageInv
  <2> QED BY <2>4, <2>8, <2>9 DEF ProgressInv
<1>4. CASE SinkReject(t)
  <2>1. /\ stage' = "abort" /\ UNCHANGED <<rows, r, queue>> /\ pc[t] = "write"
        /\ pc' = [pc EXCEPT ![t] = "idle"] /\ chunk' = [chunk EXCEPT ![t] = NoChunk]
    BY <1>4 DEF SinkReject
  <2>2. /\ pc'[t] = "idle"
        /\ \A u \in Thread : u # t => pc'[u] = pc[u] /\ chunk'[u] = chunk[u]
    BY <2>1 DEF TypeInv, TypeOK
  <2>3. stage \in {"copy", "abort"}
    BY <2>1 DEF TypeInv, CallInv
  <2>4. BegunInv'
    BY <1>0, <2>1, <2>2 DEF BegunInv
  <2>5. StageInv' /\ TakenInv'
    BY <1>0, <1>1, <2>1, <2>3 DEF StageInv, TakenInv
  <2> QED BY <2>4, <2>5 DEF ProgressInv
<1>5. CASE WriteBlock(t)
  <2>1. /\ UNCHANGED <<stage, rows, queue, chunk, r>> /\ pc[t] = "write"
        /\ pc' = [pc EXCEPT ![t] = "push"]
    BY <1>5 DEF WriteBlock
  <2>2. pc'[t] = "push" /\ \A u \in Thread : u # t => pc'[u] = pc[u]
    BY <2>1 DEF TypeInv, TypeOK
  <2>3. \A d \in input : InHand(d) => InHand(d)'
    BY <2>1, <2>2 DEF InHand
  <2>4. BegunInv'
    BY <1>0, <2>1, <2>2 DEF BegunInv
  <2>5. StageInv' /\ TakenInv'
    BY <1>0, <1>1, <2>1, <2>3 DEF StageInv, TakenInv
  <2> QED BY <2>4, <2>5 DEF ProgressInv
<1>6. CASE PushRow(t)
  <2>1. /\ UNCHANGED <<stage, queue, chunk>> /\ pc[t] = "push"
        /\ pc' = [pc EXCEPT ![t] = "write"] /\ rows' = Append(rows, Buffered(Row(t)))
    BY <1>6 DEF PushRow
  <2>2. pc'[t] = "write" /\ \A u \in Thread : u # t => pc'[u] = pc[u]
    BY <2>1 DEF TypeInv, TypeOK
  <2>3. \A d \in input : InHand(d) => InHand(d)'
    BY <2>1, <2>2 DEF InHand
  <2>4. Buffered(Row(t)) \in BufferedRow /\ rows \in Seq(BufferedRow) /\ input \subseteq Chunk
    BY <2>1, CurrentRow DEF TypeInv, TypeOK
  <2>5. \A d \in input : Stands(d, rows) => Stands(d, rows')
    BY <2>1, <2>4, StandsBehind
  <2>6. BegunInv'
    BY <1>0, <1>6, PushRowBegun
  <2>7. TakenInv'
    BY <1>0, <1>1, <2>1, <2>3, <2>5 DEF TakenInv
  <2>8. StageInv'
    BY <1>0, <1>1, <2>1 DEF StageInv
  <2> QED BY <2>6, <2>7, <2>8 DEF ProgressInv
<1>7. CASE SinkReturn(t)
  <2>1. /\ UNCHANGED <<stage, rows, r, queue>> /\ pc[t] = "write" /\ LoopEnds(t)
        /\ pc' = [pc EXCEPT ![t] = "idle"] /\ chunk' = [chunk EXCEPT ![t] = NoChunk]
    BY <1>7 DEF SinkReturn
  <2>2. /\ pc'[t] = "idle"
        /\ \A u \in Thread : u # t => pc'[u] = pc[u] /\ chunk'[u] = chunk[u]
    BY <2>1 DEF TypeInv, TypeOK
  <2>3. Stands(chunk[t], rows)
    BY <1>0, <2>1, LoopEndStands
  <2>4. \A d \in input : InHand(d) => InHand(d)' \/ Stands(d, rows)
    BY <2>2, <2>3 DEF InHand
  <2>5. BegunInv'
    BY <1>0, <2>1, <2>2 DEF BegunInv
  <2>6. TakenInv'
    BY <1>0, <1>1, <2>1, <2>4 DEF TakenInv
  <2>7. StageInv'
    BY <1>0, <1>1, <2>1 DEF StageInv
  <2> QED BY <2>5, <2>6, <2>7 DEF ProgressInv
<1> QED BY <1>2, <1>3, <1>4, <1>5, <1>6, <1>7 DEF Sink

(* A step outside of the sink, once it has been called or before, leaves   *)
(* rows and calls alone.                                                   *)
LEMMA QuietProgress ==
  ASSUME ProgressInv, StageInv', UNCHANGED <<input, rows, pc, chunk, r, queue>>,
         stage' = "copy" => stage = "copy",
         writer' = "closed" => writer = "closed"
  PROVE  ProgressInv'
<1>1. BegunInv'
  BY DEF ProgressInv, BegunInv
<1>2. \A c \in input : InHand(c)' = InHand(c)
  BY DEF InHand
<1>3. TakenInv'
  BY <1>2 DEF ProgressInv, TakenInv
<1> QED BY <1>1, <1>3 DEF ProgressInv

(* Every step of the statement keeps ProgressInv.                          *)
LEMMA NextProgress == TypeInv /\ ProgressInv /\ [Next]_vars => ProgressInv'
<1> SUFFICES ASSUME TypeInv, ProgressInv, [Next]_vars
             PROVE  ProgressInv'
  OBVIOUS
<1>0. StageInv /\ TakenInv /\ BegunInv
  BY DEF ProgressInv
<1>1. ASSUME NEW s \in CopyStatements, Bind(s)
      PROVE  ProgressInv'
  <2>1. /\ stage = "bind" /\ stage' \in {"open", "failed"} /\ writer' = writer
        /\ UNCHANGED <<input, rows, pc, chunk, r, queue>>
    BY <1>1 DEF Bind, copyVars, calls
  <2> QED BY <1>0, <2>1, QuietProgress DEF StageInv
<1>2. CASE InitializeGlobal
  <2>1. /\ stage = "open" /\ stage' = "copy" /\ writer' = "open"
        /\ UNCHANGED <<input, rows, pc, chunk, r, queue>>
    BY <1>2 DEF InitializeGlobal, statement, copyVars, calls
  <2>2. StageInv'
    BY <2>1 DEF StageInv
  <2>3. BegunInv'
    BY <1>0, <2>1 DEF BegunInv
  <2>4. TakenInv'
    BY <1>0, <2>1 DEF StageInv, TakenInv
  <2> QED BY <2>2, <2>3, <2>4 DEF ProgressInv
<1>3. CASE \E t \in Thread : Sink(t)
  BY <1>3, SinkProgress
<1>4. CASE Destroy
  <2>1. /\ stage = "abort" /\ stage' = "failed" /\ writer' = "leaked"
        /\ UNCHANGED <<input, rows, pc, chunk, r, queue>>
    BY <1>4 DEF Destroy, statement, copyVars, calls
  <2> QED BY <1>0, <2>1, QuietProgress DEF StageInv
<1>5. CASE Close
  <2>1. /\ stage = "copy" /\ stage' \in {"done", "resolve"} /\ writer' = "closed"
        /\ queue = {} /\ \A t \in Thread : pc[t] = "idle"
        /\ UNCHANGED <<input, rows, pc, chunk, r, queue>>
    BY <1>5 DEF Close, statement, calls
  <2>2. \A c \in input : Stands(c, rows)
    BY <1>0, <2>1 DEF TakenInv, InHand
  <2>3. BegunInv'
    BY <1>0, <2>1 DEF BegunInv
  <2>4. StageInv' /\ TakenInv'
    BY <2>1, <2>2 DEF StageInv, TakenInv
  <2> QED BY <2>3, <2>4 DEF ProgressInv
<1>6. CASE \/ Resolve \/ OpenForScan \/ ScanStep \/ ScanEnd \/ WriteMetadata
           \/ EmbedRead \/ Embed \/ RemoveTemp
  <2>1. /\ stage \in {"resolve", "scan", "walk", "meta", "read", "embed", "tidy"}
        /\ stage' \in {"scan", "walk", "meta", "read", "embed", "tidy", "done", "failed"}
        /\ UNCHANGED <<writer, input, rows, pc, chunk, r, queue>>
    BY <1>6 DEF Resolve, EmbedRead, OpenForScan, ScanStep, ScanEnd, WriteMetadata, Embed, RemoveTemp, Fail,
                statement, copyVars, calls
  <2> QED BY <1>0, <2>1, QuietProgress DEF StageInv
<1>7. CASE InitializeGlobalFails \/ WriteMetadataFails \/ EmbedFails
  <2>1. /\ stage' = "failed"
        /\ UNCHANGED <<writer, input, rows, pc, chunk, r, queue>>
    BY <1>7 DEF InitializeGlobalFails, WriteMetadataFails, EmbedFails, Fail,
                statement, copyVars, calls
  <2> QED BY <1>0, <2>1, QuietProgress DEF StageInv
<1>8. CASE MoveTmpFile \/ UNCHANGED vars
  <2>1. UNCHANGED <<stage, writer, input, rows, pc, chunk, r, queue>>
    BY <1>8 DEF MoveTmpFile, vars, statement, copyVars, calls
  <2> QED BY <1>0, <2>1, QuietProgress DEF StageInv
<1> QED BY <1>1, <1>2, <1>3, <1>4, <1>5, <1>6, <1>7, <1>8 DEF Next, Finalize, Failures

(* Nothing is on its way when the statement is bound.                      *)
LEMMA InitProgress == Init => ProgressInv
BY DEF Init, ProgressInv, StageInv, TakenInv, BegunInv

(* Whatever the threads and their interleaving: once the capture is        *)
(* closed, the rows of each chunk stand in the row buffer next to each     *)
(* other, in the order of the chunk.                                       *)
THEOREM ChunksStayTogether == Spec => []ChunksContiguous
<1>1. Init => TypeInv /\ ProgressInv
  BY InitTypeInv, InitProgress
<1>2. TypeInv /\ ProgressInv /\ [Next]_vars => TypeInv' /\ ProgressInv'
  BY NextTypeInv, NextProgress
<1>3. ProgressInv => ChunksContiguous
  BY DEF ProgressInv, TakenInv, Stands, ChunksContiguous
<1> QED BY <1>1, <1>2, <1>3, PTL DEF Spec

(***************************************************************************)
(* A COPY that succeeds has written what it has taken.                     *)
(***************************************************************************)

(* A walk that is at p is behind the packets that it has located, and each *)
(* of them ends before the next one that it has located.                   *)
Cleared(f, p, found) ==
  \A i \in PacketBlocks(f) : \A n \in DOMAIN found :
    found[n].offset = DataAt(f.blocks[i]) =>
      /\ f.blocks[i].at + f.blocks[i].len <= p
      /\ \A m \in DOMAIN found :
           n < m => f.blocks[i].at + f.blocks[i].len + EPB_DATA <= found[m].offset

(* Where a block ends, by the length that it shows, is a position.         *)
LEMMA EndsSomewhere ==
  ASSUME NEW f \in Image, NEW i \in DOMAIN f.blocks
  PROVE  f.blocks[i].at + f.blocks[i].len \in Nat
<1>1. f.blocks[i].at \in Nat /\ f.blocks[i].len \in Nat
  BY ImageNumbers
<1> QED BY <1>1

(* One iteration of the walk keeps that.                                   *)
LEMMA ScanStepCleared ==
  ASSUME NEW f \in Image, WellLaid(f), NEW p \in Nat,
         NEW found \in Seq([offset : Nat, size : Nat]),
         Located(f, p, found), Cleared(f, p, found), ~ ScanStops(f, p)
  PROVE  /\ Cleared(f, p + HeaderAt(f, p).len, found \o LocationsAt(HeaderAt(f, p), p))
         /\ p + HeaderAt(f, p).len <= f.size
<1>1. PICK k \in DOMAIN f.blocks : /\ HeaderAt(f, p) = f.blocks[k]
                                   /\ f.blocks[k].at = p
                                   /\ f.blocks[k].len >= 12
  BY ScanReadsBlock
<1> DEFINE b == f.blocks[k]
           q == p + b.len
           N == Len(found)
<1>2. b.len \in Nat /\ q \in Nat /\ p < q /\ f.size \in Nat
  <2>1. b.len \in Nat
    BY ImageNumbers
  <2> QED BY <1>1, <2>1 DEF Image
<1>3. q <= f.size
  BY <1>1, <1>2 DEF ScanStops
<1>4. N \in Nat /\ DOMAIN found = 1..N /\ \A n \in 1..N : found[n].offset \in Nat
  <2>1. N \in Nat /\ DOMAIN found = 1..N
    OBVIOUS
  <2>2. \A n \in 1..N : found[n] \in [offset : Nat, size : Nat]
    BY ElementsOf
  <2> QED BY <2>1, <2>2
<1>5. \A i \in PacketBlocks(f) : /\ DataAt(f.blocks[i]) = f.blocks[i].at + 28
                                 /\ f.blocks[i].at \in Nat /\ f.blocks[i].len \in Nat
                                 /\ i \in DOMAIN f.blocks
  BY PacketBlockFields, ImageNumbers
<1>6. \A n \in 1..N : found[n].offset < p + 28
  <2> SUFFICES ASSUME NEW n \in 1..N PROVE found[n].offset < p + 28
    OBVIOUS
  <2>1. PICK i \in PacketBlocks(f) : Locates(found[n], f.blocks[i]) /\ f.blocks[i].at < p
    BY <1>4 DEF Located
  <2> QED BY <1>5, <2>1 DEF Locates
<1> HIDE DEF q, N
<1>7. CASE k \notin PacketBlocks(f)
  <2>1. LocationsAt(b, p) = <<>>
    BY <1>7 DEF LocationsAt, PacketBlocks
  <2>2. found \o LocationsAt(b, p) = found
    BY <2>1
  <2>3. ASSUME NEW i \in PacketBlocks(f), NEW n \in DOMAIN found,
               found[n].offset = DataAt(f.blocks[i])
        PROVE  f.blocks[i].at + f.blocks[i].len <= q
    <3>1. f.blocks[i].at + f.blocks[i].len <= p
      BY <2>3 DEF Cleared
    <3> DEFINE z == f.blocks[i].at + f.blocks[i].len
    <3>2. z <= p
      BY <3>1, Zenon
    <3>3. z \in Nat
      BY <1>5, EndsSomewhere
    <3> HIDE DEF z, b
    <3>4. z <= q
      BY <1>2, <3>2, <3>3
    <3> QED BY <3>4 DEF z
  <2>4. Cleared(f, q, found)
    BY <2>3 DEF Cleared
  <2> QED BY <1>1, <1>3, <2>2, <2>4 DEF q
<1>8. CASE k \in PacketBlocks(f)
  <2> DEFINE new == [offset |-> p + EPB_DATA, size |-> b.body.cap]
             more == Append(found, new)
  <2>1. b.type = "EPB" /\ b.len >= 32
    BY <1>1, <1>8, PacketBlockFields DEF WellLaid
  <2>2. found \o LocationsAt(b, p) = more
    BY <2>1 DEF LocationsAt
  <2>3. /\ DOMAIN more = 1..(N + 1)
        /\ \A n \in 1..N : more[n] = found[n]
        /\ more[N + 1].offset = p + 28
    BY <1>4 DEF EPB_DATA, N
  <2> HIDE DEF more
  <2>4. \A n \in 1..(N + 1) : n \in 1..N \/ n = N + 1
    BY <1>4
  <2>5. ASSUME NEW i \in PacketBlocks(f), NEW n \in 1..N,
               more[n].offset = DataAt(f.blocks[i])
        PROVE  /\ f.blocks[i].at + f.blocks[i].len <= q
               /\ \A m \in 1..(N + 1) :
                    n < m => f.blocks[i].at + f.blocks[i].len + 28 <= more[m].offset
    <3>1. /\ f.blocks[i].at + f.blocks[i].len <= p
          /\ \A m \in 1..N :
               n < m => f.blocks[i].at + f.blocks[i].len + 28 <= found[m].offset
      BY <1>4, <2>3, <2>5 DEF Cleared, EPB_DATA
    <3>2. f.blocks[i].at + f.blocks[i].len <= q
      BY <1>2, <1>5, <3>1
    <3>3. f.blocks[i].at + f.blocks[i].len + 28 <= p + 28
      BY <1>5, <3>1
    <3> QED BY <2>3, <2>4, <3>1, <3>2, <3>3
  <2>6. ASSUME NEW i \in PacketBlocks(f), more[N + 1].offset = DataAt(f.blocks[i])
        PROVE  f.blocks[i].at + f.blocks[i].len <= q
    <3>1. f.blocks[i].at = p
      BY <1>5, <2>3, <2>6
    <3>2. i = k
      BY <1>1, <1>5, <3>1, PacketBlocksApart
    <3> QED BY <1>1, <1>2, <3>2 DEF q
  <2>7. Cleared(f, q, more)
    BY <1>4, <2>3, <2>4, <2>5, <2>6 DEF Cleared, EPB_DATA
  <2> QED BY <1>1, <1>3, <2>2, <2>7 DEF q
<1> QED BY <1>7, <1>8

(* Every buffered row has a packet block with its packet, which is the     *)
(* file's, and where no other packet starts, from the moment the counts    *)
(* have been compared.                                                     *)
WrittenAt(j) ==
  /\ Unmixed(file, j)
  /\ file.blocks[j].at + file.blocks[j].len <= file.size

AllWritten == \A n \in DOMAIN rows : \E j \in PacketBlocks(file) :
                /\ file.blocks[j].body.pkt = rows[n].pkt
                /\ WrittenAt(j)

LossInv ==
  /\ stage \in {"walk", "meta"} => Cleared(file, pos, locs) /\ pos <= file.size
  /\ \/ stage \in {"read", "embed"}
     \/ stage \in {"tidy", "done"} /\ cfg.mode = "pqcap" /\ ~ unflushed
     => AllWritten

(* If the walk has located every packet, each of them is where it should   *)
(* be.                                                                     *)
LEMMA ClearedWritten ==
  ASSUME FullInv, stage = "meta", Cleared(file, pos, locs), pos <= file.size,
         \A i \in PacketBlocks(file) : \E n \in DOMAIN locs :
            locs[n].offset = DataAt(file.blocks[i]),
         NEW j \in PacketBlocks(file)
  PROVE  WrittenAt(j)
<1>1. /\ file \in Image /\ WellLaid(file) /\ Located(file, pos, locs)
      /\ pos \in Nat /\ file.size \in Nat
      /\ locs \in Seq([offset : Nat, size : Nat])
  BY DEF FullInv, IndexInv, TypeOK, LayoutInv, ScanInv, Capturing, Image
<1>2. \A i \in PacketBlocks(file) : /\ DataAt(file.blocks[i]) = file.blocks[i].at + 28
                                    /\ file.blocks[i].at \in Nat /\ file.blocks[i].len \in Nat
  BY <1>1, PacketBlockFields, ImageNumbers
<1>3. PICK n \in DOMAIN locs : locs[n].offset = DataAt(file.blocks[j])
  OBVIOUS
<1>4. /\ file.blocks[j].at + file.blocks[j].len <= pos
      /\ \A m \in DOMAIN locs :
           n < m => file.blocks[j].at + file.blocks[j].len + 28 <= locs[m].offset
  BY <1>3 DEF Cleared, EPB_DATA
<1>5. file.blocks[j].at + file.blocks[j].len <= file.size
  <2>1. file.blocks[j].at \in Nat /\ file.blocks[j].len \in Nat
    BY <1>2
  <2> DEFINE z == file.blocks[j].at + file.blocks[j].len
  <2>2. z \in Nat /\ z <= pos
    BY <1>4, <2>1
  <2> HIDE DEF z
  <2>3. z <= file.size
    BY <1>1, <2>2
  <2> QED BY <2>3 DEF z
<1>6. ASSUME NEW k \in DOMAIN file.blocks, file.blocks[k].type \notin {"SHB", "IDB"},
             file.blocks[j].at < file.blocks[k].at
      PROVE  ~ (file.blocks[k].at < file.blocks[j].at + file.blocks[j].len)
  <2>1. k \in PacketBlocks(file)
    BY <1>1, <1>6 DEF WellLaid, PacketBlocks
  <2>2. PICK m \in DOMAIN locs : locs[m].offset = DataAt(file.blocks[k])
    BY <2>1
  <2>3. n \in Nat /\ m \in Nat /\ locs[n].offset < locs[m].offset
    <3>1. n \in Nat /\ m \in Nat
      BY <1>1
    <3>2. file.blocks[j].at + 28 < file.blocks[k].at + 28
      BY <1>2, <1>6, <2>1
    <3> QED BY <1>2, <1>3, <2>1, <2>2, <3>1, <3>2
  <2>4. n < m
    <3>1. ~ (m < n)
      <4>1. m < n => locs[m].offset < locs[n].offset
        BY <1>1 DEF Located
      <4>2. locs[m].offset \in Nat /\ locs[n].offset \in Nat
        <5>1. locs[m].offset = file.blocks[k].at + 28
          BY <1>2, <2>1, <2>2
        <5>2. locs[n].offset = file.blocks[j].at + 28
          BY <1>2, <1>3
        <5> QED BY <1>2, <2>1, <5>1, <5>2
      <4> QED BY <2>3, <4>1, <4>2
    <3>2. m # n
      <4>1. locs[n].offset = file.blocks[j].at + 28
        BY <1>2, <1>3
      <4>2. locs[m].offset = file.blocks[k].at + 28
        BY <1>2, <2>1, <2>2
      <4>3. file.blocks[j].at + 28 # file.blocks[k].at + 28
        BY <1>2, <1>6, <2>1
      <4> QED BY <4>1, <4>2, <4>3
    <3> QED BY <2>3, <3>1, <3>2
  <2>5. file.blocks[j].at + file.blocks[j].len + 28 <= file.blocks[k].at + 28
    BY <1>2, <1>4, <2>1, <2>2, <2>4
  <2> QED BY <1>2, <2>1, <2>5
<1> QED BY <1>5, <1>6 DEF WrittenAt, Unmixed

(* The table that is written lists every row, and describes packet blocks: *)
(* no row is without one, and no packet block was passed by.               *)
LEMMA MetadataWritten ==
  ASSUME FullInv, FullInv', LossInv, WriteMetadata, stage' = "read"
  PROVE  AllWritten'
<1>1. UNCHANGED <<file, rows, cfg, pos, locs>> /\ stage = "meta"
  BY DEF WriteMetadata, statement, capture, scanVars
<1>2. CountsMatch
  BY DEF WriteMetadata, Fail
<1>3. PICK length \in ParquetSizes :
        parquet' = {[table |-> MetadataTable(rows, locs, cfg.linktype), length |-> length]}
  BY <1>2 DEF WriteMetadata
<1> DEFINE t == MetadataTable(rows, locs, cfg.linktype)
           p == [table |-> t, length |-> length]
<1>4. /\ DOMAIN t = DOMAIN rows /\ DOMAIN locs = DOMAIN rows
      /\ \A n \in DOMAIN rows : t[n].pkt = rows[n].pkt /\ t[n].offset = locs[n].offset
  <2>1. rows \in Seq(BufferedRow) /\ locs \in Seq([offset : Nat, size : Nat])
    BY DEF FullInv, TypeOK
  <2>2. DOMAIN rows = 1..Len(rows) /\ DOMAIN locs = 1..Len(rows)
    BY <1>2, <2>1 DEF CountsMatch
  <2> QED BY <2>2 DEF MetadataTable
<1>5. p \in parquet' /\ p.table = t
  BY <1>3
<1> HIDE DEF t
<1>6. DescribesPackets(t, file)
  BY <1>1, <1>5 DEF FullInv, IndexInv, ParquetInv
<1>7. \A i \in PacketBlocks(file) : \E n \in DOMAIN locs :
         locs[n].offset = DataAt(file.blocks[i])
  BY <1>4, <1>6 DEF DescribesPackets, Describes
<1>8. \A j \in PacketBlocks(file) : WrittenAt(j)
  BY <1>1, <1>7, ClearedWritten DEF LossInv
<1>9. \A n \in DOMAIN rows : \E j \in PacketBlocks(file) : file.blocks[j].body.pkt = rows[n].pkt
  BY <1>4, <1>6 DEF DescribesPackets, Describes
<1>10. AllWritten
  BY <1>8, <1>9 DEF AllWritten
<1> QED BY <1>1, <1>10 DEF AllWritten, WrittenAt

(* Where the packets are, the index does not get in their way.             *)
LEMMA EmbedWritten ==
  ASSUME FullInv, AllWritten, Embed, NEW p \in parquet, file' = Embedded(p)
  PROVE  AllWritten'
<1>1. /\ file \in Image /\ p.table \in Table /\ p.length \in Nat \ {0} /\ rows' = rows
      /\ file.size \in Nat
  BY WriterAssumption DEF FullInv, TypeOK, Embed, copyVars, Image
<1>2. PacketBlocks(file') = PacketBlocks(file)
      /\ \A i \in PacketBlocks(file) : file'.blocks[i] = file.blocks[i]
  BY <1>1, EmbedKeepsPackets DEF Embedded
<1> DEFINE n == Len(file.blocks)
<1>3. /\ n \in Nat /\ DOMAIN file.blocks = 1..n
      /\ DOMAIN file'.blocks = 1..(n + 2)
      /\ \A i \in 1..n : file'.blocks[i] = file.blocks[i]
      /\ file'.blocks[n + 1].at = file.size
      /\ file'.blocks[n + 2].at >= file.size
      /\ file'.size >= file.size
      /\ file'.blocks[n + 2].at \in Nat /\ file'.size \in Nat
  <2>1. Embeds(file, p.table, p.length, Embedded(p))
    BY <1>1, EmbedFacts DEF Embedded
  <2>2. /\ file' \in Image /\ n + 1 \in DOMAIN file'.blocks
        /\ n + 2 \in DOMAIN file'.blocks
    BY <1>1, <2>1 DEF Embeds
  <2>3. file'.blocks[n + 1].held \in Nat /\ file'.blocks[n + 2].at \in Nat
    BY <2>2, ImageNumbers
  <2>4. /\ n \in Nat /\ DOMAIN file.blocks = 1..n
        /\ DOMAIN file'.blocks = 1..(n + 2)
        /\ \A i \in 1..n : file'.blocks[i] = file.blocks[i]
        /\ file'.blocks[n + 1].at = file.size
    BY <1>1, <2>1 DEF Embeds
  <2>5. /\ file'.blocks[n + 2].at = file.size + file'.blocks[n + 1].held
        /\ file'.size = file.size + file'.blocks[n + 1].held + 44
    BY <1>1, <2>1 DEF Embeds
  <2>6. /\ file'.blocks[n + 2].at >= file.size /\ file'.size >= file.size
        /\ file'.size \in Nat
    BY <1>1, <2>3, <2>5
  <2> QED BY <2>3, <2>4, <2>6
<1> HIDE DEF n
<1>4. ASSUME NEW j \in PacketBlocks(file), WrittenAt(j)
      PROVE  WrittenAt(j)'
  <2>1. file'.blocks[j] = file.blocks[j]
        /\ file.blocks[j].at \in Nat /\ file.blocks[j].len \in Nat
    BY <1>1, <1>2, ImageNumbers DEF PacketBlocks
  <2>2. file'.blocks[j].at + file'.blocks[j].len <= file'.size
    BY <1>1, <1>3, <1>4, <2>1 DEF WrittenAt
  <2>3. ASSUME NEW k \in DOMAIN file'.blocks, file'.blocks[k].type \notin {"SHB", "IDB"},
               file'.blocks[j].at < file'.blocks[k].at
        PROVE  ~ (file'.blocks[k].at < file'.blocks[j].at + file'.blocks[j].len)
    <3>1. CASE k \in 1..n
      BY <1>3, <1>4, <2>1, <2>3, <3>1 DEF WrittenAt, Unmixed
    <3>2. CASE k = n + 1 \/ k = n + 2
      <4>1. file'.blocks[k].at >= file.size /\ file'.blocks[k].at \in Nat
        BY <1>1, <1>3, <3>2
      <4> QED BY <1>1, <1>4, <2>1, <4>1 DEF WrittenAt
    <3> QED BY <1>3, <3>1, <3>2
  <2> QED BY <2>2, <2>3 DEF WrittenAt, Unmixed
<1> QED BY <1>1, <1>2, <1>4 DEF AllWritten

(* Every step keeps what has been written.                                 *)
LEMMA NextLoss == FullInv /\ FullInv' /\ LossInv /\ [Next]_vars => LossInv'
<1> SUFFICES ASSUME FullInv, FullInv', LossInv, [Next]_vars
             PROVE  LossInv'
  OBVIOUS
<1>1. CASE Embed
  <2>1. /\ stage = "embed" /\ stage' = "tidy" /\ rows' = rows /\ AllWritten
    BY <1>1 DEF Embed, copyVars, LossInv
  <2>2. ~ EmbedFails
    BY <2>1 DEF EmbedFails, Fail
  <2>3. CASE unflushed'
    BY <2>1, <2>3 DEF LossInv
  <2>4. CASE file' = file
    BY <2>1, <2>4 DEF LossInv, AllWritten, WrittenAt
  <2>5. CASE \E p \in parquet : file' = Embedded(p)
    BY <1>1, <2>1, <2>5, EmbedWritten DEF LossInv
  <2> QED BY <1>1, <2>2, <2>3, <2>4, <2>5, EmbedCases
<1>2. CASE WriteMetadata
  <2>1. stage' \in {"read", "failed"}
    BY <1>2 DEF WriteMetadata, Fail
  <2> QED BY <1>2, <2>1, MetadataWritten DEF LossInv
<1>3. CASE RemoveTemp
  <2>1. stage = "tidy" /\ stage' = "done" /\ UNCHANGED <<file, rows, cfg, unflushed>>
    BY <1>3 DEF RemoveTemp, statement, capture, placing
  <2> QED BY <2>1 DEF LossInv, AllWritten, WrittenAt
<1>4. CASE Close
  <2>1. cfg' = cfg /\ stage' \in {"done", "resolve"} /\ (stage' = "done" => cfg.mode # "pqcap")
    BY <1>4 DEF Close, statement
  <2> QED BY <2>1 DEF LossInv
<1>5. CASE MoveTmpFile \/ UNCHANGED vars
  <2>1. UNCHANGED <<stage, file, rows, cfg, unflushed, pos, locs>>
    BY <1>5 DEF MoveTmpFile, vars, statement, copyVars, capture, placing, scanVars
  <2> QED BY <2>1 DEF LossInv, AllWritten, WrittenAt
<1>6. CASE EmbedRead
  <2>1. stage = "read" /\ stage' \in {"embed", "failed"} /\ UNCHANGED <<file, rows>>
    BY <1>6 DEF EmbedRead, Fail, capture
  <2> QED BY <2>1 DEF LossInv, AllWritten, WrittenAt
<1>7. CASE OpenForScan
  <2>1. stage' \in {"walk", "failed"} /\ pos' = 0 /\ locs' = <<>> /\ file' = file
    BY <1>7 DEF OpenForScan, Fail, capture
  <2>2. file.size \in Nat
    BY DEF FullInv, TypeOK, Image
  <2> QED BY <2>1, <2>2 DEF LossInv, Cleared
<1>8. CASE ScanStep
  <2>1. /\ stage = "walk" /\ stage' = "walk" /\ ~ ScanStops(file, pos) /\ file' = file
        /\ locs' = locs \o LocationsAt(HeaderAt(file, pos), pos)
        /\ pos' = pos + HeaderAt(file, pos).len
    BY <1>8 DEF ScanStep, capture
  <2>2. /\ file \in Image /\ WellLaid(file) /\ Located(file, pos, locs)
        /\ pos \in Nat /\ locs \in Seq([offset : Nat, size : Nat])
    BY <2>1 DEF FullInv, IndexInv, TypeOK, LayoutInv, ScanInv, Capturing
  <2>3. /\ Cleared(file, pos + HeaderAt(file, pos).len, locs \o LocationsAt(HeaderAt(file, pos), pos))
        /\ pos + HeaderAt(file, pos).len <= file.size
    BY <2>1, <2>2, ScanStepCleared DEF LossInv
  <2> QED BY <2>1, <2>3 DEF LossInv
<1>9. CASE ScanEnd
  <2>1. stage = "walk" /\ stage' = "meta" /\ UNCHANGED <<file, pos, locs>>
    BY <1>9 DEF ScanEnd, capture, scanVars
  <2> QED BY <2>1 DEF LossInv
<1>10. CASE \/ \E s \in CopyStatements : Bind(s)
            \/ InitializeGlobal \/ Destroy \/ Resolve
            \/ InitializeGlobalFails \/ WriteMetadataFails \/ EmbedFails
  <2>1. stage' \in {"open", "failed", "copy", "scan"}
    BY <1>10 DEF Bind, InitializeGlobal, Destroy, Resolve, Fail,
                 InitializeGlobalFails, WriteMetadataFails, EmbedFails
  <2> QED BY <2>1 DEF LossInv
<1>11. ASSUME NEW t \in Thread, Sink(t)
       PROVE  LossInv'
  <2>1. stage \in {"copy", "abort"} /\ stage' \in {stage, "abort"}
    BY <1>11 DEF Sink, SinkCall, Acquire, SinkReject, WriteBlock, PushRow, SinkReturn, FullInv,
                 IndexInv, CallInv
  <2> QED BY <2>1 DEF LossInv
<1> QED BY <1>1, <1>2, <1>3, <1>4, <1>5, <1>6, <1>7, <1>8, <1>9, <1>10, <1>11
        DEF Next, Finalize, Failures

(* The rows of a chunk that stands in the row buffer are written if all    *)
(* rows of the buffer are.                                                 *)
LEMMA StandingWritten ==
  ASSUME NEW c \in Chunk, rows \in Seq(BufferedRow), Stands(c, rows), AllWritten,
         NEW i \in DOMAIN RowsOf[c]
  PROVE  \E j \in PacketBlocks(file) : /\ file.blocks[j].body.pkt = RowsOf[c][i].pkt
                                       /\ Unmixed(file, j)
<1>1. PICK k \in 0..(Len(rows) - Len(RowsOf[c])) :
        \A n \in DOMAIN RowsOf[c] : rows[k + n] = Buffered(RowsOf[c][n])
  BY DEF Stands
<1> DEFINE n == Len(RowsOf[c])
<1>2. n \in Nat /\ i \in 1..n
  BY WriterAssumption
<1>3. Len(rows) \in Nat /\ DOMAIN rows = 1..Len(rows)
  OBVIOUS
<1>4. k \in 0..(Len(rows) - n)
  BY <1>1
<1> HIDE DEF n
<1>5. k + i \in DOMAIN rows
  BY <1>2, <1>3, <1>4
<1>6. rows[k + i].pkt = RowsOf[c][i].pkt
  <2>1. rows[k + i] = Buffered(RowsOf[c][i])
    BY <1>1
  <2>2. Buffered(RowsOf[c][i]).pkt = RowsOf[c][i].pkt
    BY DEF Buffered
  <2> QED BY <2>1, <2>2
<1> QED BY <1>5, <1>6 DEF AllWritten, WrittenAt

(* Whatever light_write_packet and light_pcapng_close lose or cut: a COPY  *)
(* in mode pqcap that reports success, and whose last fclose was flushed,  *)
(* has the packet block of every row that it was given in the file, and    *)
(* neither another packet nor the index where that packet's bytes belong.  *)
THEOREM NothingLost == Spec => []NoSilentLoss
<1>1. Init => FullInv /\ ProgressInv /\ LossInv
  BY InitFullInv, InitProgress DEF Init, LossInv
<1>2. FullInv /\ ProgressInv /\ LossInv /\ [Next]_vars => FullInv' /\ ProgressInv' /\ LossInv'
  BY NextFullInv, NextProgress, NextLoss DEF FullInv, IndexInv, TypeInv
<1>3. FullInv /\ ProgressInv /\ LossInv => NoSilentLoss
  <2> SUFFICES ASSUME FullInv, ProgressInv, LossInv, stage = "done", cfg.mode = "pqcap",
                      ~ unflushed, NEW c \in input, NEW i \in DOMAIN RowsOf[c]
               PROVE  \E j \in PacketBlocks(file) :
                        /\ file.blocks[j].body.pkt = RowsOf[c][i].pkt
                        /\ Unmixed(file, j)
    BY DEF NoSilentLoss
  <2>1. AllWritten
    BY DEF LossInv
  <2>2. Stands(c, rows)
    BY DEF ProgressInv, StageInv, TakenInv
  <2>3. c \in Chunk /\ rows \in Seq(BufferedRow)
    BY DEF FullInv, TypeOK
  <2> QED BY <2>1, <2>2, <2>3, StandingWritten
<1> QED BY <1>1, <1>2, <1>3, PTL DEF Spec

(***************************************************************************)
(* Without a failing write the scan finds as many packets as there are     *)
(* rows.                                                                   *)
(***************************************************************************)

(* Block boundaries, and a file that is a chain of whole blocks.           *)
Boundary(f, p) == p = f.size \/ \E i \in DOMAIN f.blocks : f.blocks[i].at = p

Chain(f) ==
  /\ Boundary(f, 0)
  /\ \A i \in DOMAIN f.blocks :
       /\ f.blocks[i].len = f.blocks[i].held
       /\ f.blocks[i].held >= 12
       /\ Boundary(f, f.blocks[i].at + f.blocks[i].held)
  /\ \A i, j \in DOMAIN f.blocks :
       f.blocks[i].at < f.blocks[j].at => f.blocks[i].at + f.blocks[i].held <= f.blocks[j].at

HasTurn(f, n) == \E i \in PacketBlocks(f) : f.blocks[i].body.ord = n

(* The name that was found is the file's, unless it has been overtaken.    *)
NamingInv ==
  /\ stage \in {"scan", "walk", "meta", "read"} => path \in {"tmp_", "final"}
  /\ path = "final" => moved
  /\ path = "tmp_" /\ moved => overtaken

(* As long as nothing has failed, the file is whole, every turn has its    *)
(* packet block, the walk has located all packet blocks behind it, and     *)
(* only a rename can fail the finalizer.                                   *)
CauseInv ==
  faults = 0 =>
    /\ Capturing => Chain(file) /\ \A n \in DOMAIN rows : HasTurn(file, n)
    /\ \A t \in Thread : pc[t] = "push" => HasTurn(file, Len(rows) + 1)
    /\ stage = "walk" => Boundary(file, pos)
    /\ stage = "meta" => pos = file.size
    /\ stage \in {"walk", "meta"} =>
         \A i \in PacketBlocks(file) :
           file.blocks[i].at < pos => file.blocks[i].body.ord <= Len(locs)
    /\ stage = "failed" /\ writer = "closed" => overtaken

(* A whole block that is appended continues the chain.                     *)
LEMMA AppendChain ==
  ASSUME NEW f \in Image, WellLaid(f), Chain(f), NEW b \in Block, b.len = b.held, b.held >= 12
  PROVE  Chain(AppendBlock(f, b))
<1> DEFINE g == AppendBlock(f, b)
           n == Len(f.blocks) + 1
<1>1. /\ n \in Nat /\ n >= 1 /\ DOMAIN f.blocks = 1..(n - 1) /\ DOMAIN g.blocks = 1..n
      /\ g.size = f.size + b.held
      /\ \A i \in DOMAIN f.blocks : g.blocks[i] = f.blocks[i]
      /\ g.blocks[n].at = f.size /\ g.blocks[n].held = b.held /\ g.blocks[n].len = b.len
  BY AppendFacts
<1>2. f.size \in Nat /\ b.held \in Nat
  BY BlockNumbers DEF Image
<1> HIDE DEF g, n
<1>3. n \in DOMAIN g.blocks /\ \A i \in DOMAIN g.blocks : i \in DOMAIN f.blocks \/ i = n
  <2>1. n \in 1..n /\ \A i \in 1..n : i \in 1..(n - 1) \/ i = n
    BY <1>1
  <2> QED BY <1>1, <2>1
<1>4. ASSUME NEW p, Boundary(f, p)
      PROVE  Boundary(g, p)
  <2>1. CASE p = f.size
    BY <1>1, <1>3, <2>1 DEF Boundary
  <2>2. CASE \E i \in DOMAIN f.blocks : f.blocks[i].at = p
    <3>1. PICK i \in DOMAIN f.blocks : f.blocks[i].at = p
      BY <2>2
    <3>2. i \in DOMAIN g.blocks /\ g.blocks[i].at = p
      BY <1>1, <3>1
    <3> QED BY <3>2 DEF Boundary
  <2> QED BY <1>4, <2>1, <2>2 DEF Boundary
<1>5. Boundary(g, 0)
  BY <1>4 DEF Chain
<1>6. ASSUME NEW i \in DOMAIN g.blocks
      PROVE  /\ g.blocks[i].len = g.blocks[i].held
             /\ g.blocks[i].held >= 12
             /\ Boundary(g, g.blocks[i].at + g.blocks[i].held)
  <2>1. CASE i \in DOMAIN f.blocks
    <3>1. g.blocks[i] = f.blocks[i] /\ Boundary(f, f.blocks[i].at + f.blocks[i].held)
      BY <1>1, <2>1 DEF Chain
    <3> QED BY <1>4, <2>1, <3>1 DEF Chain
  <2>2. CASE i = n
    BY <1>1, <2>2 DEF Boundary
  <2> QED BY <1>3, <2>1, <2>2
<1>7. \A i \in DOMAIN f.blocks : f.blocks[i].at + f.blocks[i].held <= f.size
  BY DEF WellLaid
<1>8. ASSUME NEW i \in DOMAIN g.blocks, NEW j \in DOMAIN g.blocks,
             g.blocks[i].at < g.blocks[j].at
      PROVE  g.blocks[i].at + g.blocks[i].held <= g.blocks[j].at
  <2>1. CASE i \in DOMAIN f.blocks /\ j \in DOMAIN f.blocks
    BY <1>1, <1>8, <2>1 DEF Chain
  <2>2. CASE i \in DOMAIN f.blocks /\ j = n
    BY <1>1, <1>7, <2>2
  <2>3. CASE i = n /\ j \in DOMAIN f.blocks
    <3>1. f.blocks[j].at \in Nat /\ f.blocks[j].held \in Nat
      BY <2>3, ImageNumbers
    <3>2. g.blocks[i].at = f.size /\ g.blocks[j].at = f.blocks[j].at
      BY <1>1, <2>3
    <3>3. FALSE
      BY <1>2, <1>7, <1>8, <2>3, <3>1, <3>2
    <3> QED BY <3>3
  <2>4. CASE i = n /\ j = n
    BY <1>1, <1>2, <1>8, <2>4
  <2> QED BY <1>3, <2>1, <2>2, <2>3, <2>4
<1>9. Chain(g)
  BY <1>5, <1>6, <1>8 DEF Chain
<1> QED BY <1>9 DEF g

(* At a boundary before the end the walk goes on, with the block that      *)
(* starts there, to the next boundary.                                     *)
LEMMA ChainWalks ==
  ASSUME NEW f \in Image, WellLaid(f), Chain(f), NEW p \in Nat, Boundary(f, p), p # f.size
  PROVE  /\ ~ ScanStops(f, p)
         /\ Boundary(f, p + HeaderAt(f, p).len)
         /\ \A i \in DOMAIN f.blocks : f.blocks[i].at < p + HeaderAt(f, p).len =>
              f.blocks[i].at < p \/ (f.blocks[i].at = p /\ HeaderAt(f, p) = f.blocks[i])
<1>1. PICK k \in DOMAIN f.blocks : f.blocks[k].at = p
  BY DEF Boundary
<1>2. /\ f.blocks[k].at \in Nat /\ f.blocks[k].held \in Nat /\ f.blocks[k].len \in Nat
      /\ f.size \in Nat
  BY ImageNumbers DEF Image
<1>3. /\ f.blocks[k].len = f.blocks[k].held /\ f.blocks[k].held >= 12
      /\ Boundary(f, f.blocks[k].at + f.blocks[k].held)
      /\ f.blocks[k].at + f.blocks[k].held <= f.size
  BY DEF Chain, WellLaid
<1>4. \A i \in DOMAIN f.blocks : f.blocks[i].at = p => i = k
  BY <1>1, PacketBlocksApart
<1>5. HeaderAt(f, p) = f.blocks[k]
  <2>1. f.blocks[k].held >= 8
    BY <1>2, <1>3
  <2>2. (CHOOSE i \in DOMAIN f.blocks : f.blocks[i].at = p /\ f.blocks[i].held >= 8) = k
    BY <1>1, <1>4, <2>1
  <2> QED BY <1>1, <2>1, <2>2 DEF HeaderAt
<1>6. ~ ScanStops(f, p)
  BY <1>1, <1>2, <1>3, <1>5 DEF ScanStops
<1>7. ASSUME NEW i \in DOMAIN f.blocks, f.blocks[i].at < p + f.blocks[k].len
      PROVE  f.blocks[i].at < p \/ (f.blocks[i].at = p /\ f.blocks[k] = f.blocks[i])
  <2>1. f.blocks[i].at \in Nat
    BY ImageNumbers
  <2>2. ~ (p < f.blocks[i].at)
    <3>1. f.blocks[k].at < f.blocks[i].at =>
            f.blocks[k].at + f.blocks[k].held <= f.blocks[i].at
      BY DEF Chain
    <3> QED BY <1>1, <1>2, <1>3, <1>7, <2>1, <3>1
  <2> QED BY <1>4, <2>1, <2>2
<1> QED BY <1>1, <1>3, <1>5, <1>6, <1>7

(* The section and interface blocks and the packet blocks are whole.       *)
LEMMA WholeBlocks ==
  ASSUME NEW row \in InputRow, NEW link \in Nat, NEW ord \in Nat
  PROVE  LET b == PacketBlock(row.pkt, row.payload, link, ord)
         IN  b \in Block /\ b.len = b.held /\ b.held >= 12 /\ b.type = "EPB" /\ b.body.ord = ord
             /\ b.held > 0 /\ b.len >= 32
<1>1. row.pkt \in Packet /\ row.payload \in Nat /\ row.payload + 36 <= U32 /\ U32 \in Nat
  BY WidthAssumption DEF InputRow
<1>2. PadTo4(row.payload) \in Nat /\ PadTo4(row.payload) <= row.payload + 3
  BY <1>1, PadBounds
<1>3. 32 + PadTo4(row.payload) \in 0..(U32 - 1)
  BY <1>1, <1>2
<1>4. (32 + PadTo4(row.payload)) % U32 = 32 + PadTo4(row.payload)
  BY <1>1, <1>3
<1>5. PacketBlock(row.pkt, row.payload, link, ord) \in Block
  BY <1>1, WrittenBlocks
<1> QED BY <1>2, <1>4, <1>5 DEF PacketBlock

(* The blocks of the preamble are whole.                                   *)
LEMMA WholePreamble ==
  ASSUME NEW link \in Nat
  PROVE  /\ SectionBlock \in Block /\ SectionBlock.type = "SHB"
         /\ SectionBlock.len = SectionBlock.held /\ SectionBlock.held >= 12
         /\ InterfaceBlock(link) \in Block /\ InterfaceBlock(link).type = "IDB"
         /\ InterfaceBlock(link).len = InterfaceBlock(link).held
         /\ InterfaceBlock(link).held >= 12
<1>1. U32 \in Nat /\ 44 < U32 /\ SHBSize \in 12..(U32 - 1)
  BY WidthAssumption, WriterAssumption
<1>2. SHBSize % U32 = SHBSize /\ 20 % U32 = 20
  <2>1. SHBSize \in 0..(U32 - 1) /\ 20 \in 0..(U32 - 1)
    BY <1>1
  <2> QED BY <1>1, <2>1
<1>3. SectionBlock \in Block
  BY <1>1, <1>2 DEF SectionBlock, Block, BlockOf
<1>4. InterfaceBlock(link) \in Block
  BY <1>1, <1>2 DEF InterfaceBlock, Block, BlockOf
<1> QED BY <1>1, <1>2, <1>3, <1>4 DEF SectionBlock, InterfaceBlock

(* A write that does not fail continues the chain with the packet block of *)
(* its turn, and keeps those of the others.                                *)
LEMMA WrittenChain ==
  ASSUME NEW f \in Image, WellLaid(f), Chain(f), NEW row \in InputRow, NEW link \in Nat,
         NEW ord \in Nat
  PROVE  /\ Chain(Written(f, row, link, ord))
         /\ HasTurn(Written(f, row, link, ord), ord)
         /\ \A n : HasTurn(f, n) => HasTurn(Written(f, row, link, ord), n)
<1> DEFINE b == PacketBlock(row.pkt, row.payload, link, ord)
           h == WithInterface(f, link)
           g == AppendBlock(h, b)
<1>1. /\ b \in Block /\ b.len = b.held /\ b.held >= 12 /\ b.type = "EPB" /\ b.body.ord = ord
      /\ b.held > 0 /\ b.len >= 32
  BY WholeBlocks
<1>2. /\ InterfaceBlock(link) \in Block /\ InterfaceBlock(link).type = "IDB"
      /\ InterfaceBlock(link).len = InterfaceBlock(link).held /\ InterfaceBlock(link).held >= 12
      /\ InterfaceBlock(link).held \in Nat
  BY WholePreamble, BlockNumbers
<1> HIDE DEF b
<1>3. /\ h \in Image /\ WellLaid(h) /\ Chain(h)
      /\ \A i \in DOMAIN f.blocks : i \in DOMAIN h.blocks /\ h.blocks[i] = f.blocks[i]
  <2>1. CASE h = f
    BY <2>1
  <2>2. CASE h = AppendBlock(f, InterfaceBlock(link))
    <3>1. h \in Image /\ WellLaid(h) /\ Chain(h)
      BY <1>2, <2>2, AppendImage, AppendLaid, AppendChain
    <3>2. /\ Len(f.blocks) \in Nat /\ DOMAIN f.blocks = 1..Len(f.blocks)
          /\ DOMAIN h.blocks = 1..(Len(f.blocks) + 1)
          /\ \A i \in DOMAIN f.blocks : h.blocks[i] = f.blocks[i]
      BY <1>2, <2>2, AppendFacts
    <3> QED BY <3>1, <3>2
  <2> QED BY <2>1, <2>2 DEF WithInterface
<1> HIDE DEF h
<1>4. Chain(g)
  BY <1>1, <1>3, AppendChain
<1>5. /\ Len(h.blocks) \in Nat /\ DOMAIN h.blocks = 1..Len(h.blocks)
      /\ DOMAIN g.blocks = 1..(Len(h.blocks) + 1)
      /\ \A i \in DOMAIN h.blocks : g.blocks[i] = h.blocks[i]
      /\ g.blocks[Len(h.blocks) + 1].type = "EPB"
      /\ g.blocks[Len(h.blocks) + 1].body.ord = ord
  BY <1>1, <1>3, AppendFacts
<1> HIDE DEF g
<1>6. HasTurn(g, ord)
  <2>1. Len(h.blocks) + 1 \in PacketBlocks(g)
    BY <1>5 DEF PacketBlocks
  <2> QED BY <1>5, <2>1 DEF HasTurn
<1>7. ASSUME NEW n, HasTurn(f, n)
      PROVE  HasTurn(g, n)
  <2>1. PICK i \in PacketBlocks(f) : f.blocks[i].body.ord = n
    BY <1>7 DEF HasTurn
  <2>2. i \in DOMAIN f.blocks
    BY DEF PacketBlocks
  <2>3. i \in DOMAIN h.blocks /\ h.blocks[i] = f.blocks[i]
    BY <1>3, <2>2
  <2>4. i \in DOMAIN g.blocks /\ g.blocks[i] = f.blocks[i]
    BY <1>5, <2>3
  <2> QED BY <2>1, <2>4 DEF HasTurn, PacketBlocks
<1>8. Written(f, row, link, ord) = g
  BY DEF Written, g, h, b
<1> QED BY <1>4, <1>6, <1>7, <1>8

(* A walk along a chain locates the packet blocks it passes, each of them. *)
LEMMA ScanStepFinds ==
  ASSUME FullInv, CauseInv, faults = 0, ScanStep
  PROVE  /\ Boundary(file, pos')
         /\ \A i \in PacketBlocks(file) :
              file.blocks[i].at < pos' => file.blocks[i].body.ord <= Len(locs')
<1>1. /\ stage = "walk" /\ ~ ScanStops(file, pos)
      /\ locs' = locs \o LocationsAt(HeaderAt(file, pos), pos)
      /\ pos' = pos + HeaderAt(file, pos).len
  BY DEF ScanStep
<1>2. /\ file \in Image /\ WellLaid(file) /\ Chain(file) /\ InRowOrder(file)
      /\ pos \in Nat /\ Boundary(file, pos) /\ locs \in Seq([offset : Nat, size : Nat])
      /\ rows \in Seq(BufferedRow) /\ file.size \in Nat
  BY <1>1 DEF FullInv, IndexInv, TypeOK, LayoutInv, OrderInv, CauseInv, Capturing, Image
<1>3. \A i \in PacketBlocks(file) :
        file.blocks[i].at < pos => file.blocks[i].body.ord <= Len(locs)
  BY <1>1 DEF CauseInv
<1>4. pos # file.size
  BY <1>1, <1>2 DEF ScanStops
<1>5. /\ Boundary(file, pos + HeaderAt(file, pos).len)
      /\ \A i \in DOMAIN file.blocks : file.blocks[i].at < pos + HeaderAt(file, pos).len =>
           \/ file.blocks[i].at < pos
           \/ file.blocks[i].at = pos /\ HeaderAt(file, pos) = file.blocks[i]
  BY <1>2, <1>4, ChainWalks
<1>6. PICK k \in DOMAIN file.blocks : HeaderAt(file, pos) = file.blocks[k]
  BY <1>1, <1>2, ScanReadsBlock
<1>7. LocationsAt(HeaderAt(file, pos), pos) \in Seq([offset : Nat, size : Nat])
  BY <1>2, <1>6, ImageNumbers, LocationTypes
<1>8. Len(locs) \in Nat /\ Len(locs') \in Nat
      /\ Len(locs') = Len(locs) + Len(LocationsAt(HeaderAt(file, pos), pos))
      /\ Len(locs') >= Len(locs)
  BY <1>1, <1>2, <1>7
<1>9. ASSUME NEW i \in PacketBlocks(file), file.blocks[i].at < pos'
      PROVE  file.blocks[i].body.ord <= Len(locs')
  <2>1. /\ i \in DOMAIN file.blocks /\ i \in Nat /\ file.blocks[i].type = "EPB"
        /\ file.blocks[i].body.ord \in Nat /\ file.blocks[i].at \in Nat
    BY <1>2, PacketBlockFields
  <2>2. CASE file.blocks[i].at < pos
    BY <1>3, <1>8, <2>1, <2>2
  <2>3. CASE file.blocks[i].at = pos /\ HeaderAt(file, pos) = file.blocks[i]
    <3>1. file.blocks[i].len >= 32
      BY <1>2, <2>1 DEF WellLaid
    <3>2. Len(LocationsAt(HeaderAt(file, pos), pos)) = 1
      BY <2>1, <2>3, <3>1 DEF LocationsAt
    <3>3. Len(locs') = Len(locs) + 1
      BY <1>8, <3>2
    <3>4. CASE file.blocks[i].body.ord <= 1
      BY <1>8, <2>1, <3>3, <3>4
    <3>5. CASE file.blocks[i].body.ord > 1
      <4> DEFINE n == file.blocks[i].body.ord - 1
      <4>1. \A u \in Thread : pc[u] # "push"
        BY <1>1, FinalizeExcludes DEF FullInv, IndexInv
      <4>2. file.blocks[i].body.ord \in DOMAIN rows
        BY <1>1, <4>1, AllBuffered DEF FullInv, IndexInv, BufferedAs, Capturing
      <4>3. n \in DOMAIN rows
        BY <1>2, <2>1, <3>5, <4>2
      <4>4. HasTurn(file, n)
        BY <1>1, <4>3 DEF CauseInv, Capturing
      <4>5. PICK j \in PacketBlocks(file) : file.blocks[j].body.ord = n
        BY <4>4 DEF HasTurn
      <4>6. j \in DOMAIN file.blocks /\ j \in Nat
        BY <1>2, PacketBlockFields
      <4>7. j < i
        <5>1. ~ (i < j)
          BY <1>2, <2>1, <4>5 DEF InRowOrder
        <5>2. i # j
          BY <2>1, <4>5
        <5> QED BY <2>1, <4>6, <5>1, <5>2
      <4>8. file.blocks[j].at < pos
        BY <1>2, <2>1, <2>3, <4>6, <4>7, BlocksAscend
      <4>9. file.blocks[j].body.ord <= Len(locs)
        BY <1>3, <4>8
      <4> QED BY <1>8, <2>1, <3>3, <4>5, <4>9
    <3> QED BY <2>1, <3>4, <3>5
  <2> QED BY <1>1, <1>5, <1>9, <2>1, <2>2, <2>3
<1> QED BY <1>1, <1>5, <1>9

(* At the end of such a walk there are as many locations as rows.          *)
LEMMA CountsAgree ==
  ASSUME FullInv, CauseInv, faults = 0, stage = "meta"
  PROVE  CountsMatch
<1>1. /\ file \in Image /\ WellLaid(file) /\ Located(file, pos, locs)
      /\ rows \in Seq(BufferedRow) /\ locs \in Seq([offset : Nat, size : Nat])
      /\ file.size \in Nat
  BY DEF FullInv, IndexInv, TypeOK, LayoutInv, ScanInv, Capturing, Image
<1>2. /\ Len(rows) \in Nat /\ Len(locs) \in Nat
      /\ DOMAIN rows = 1..Len(rows) /\ DOMAIN locs = 1..Len(locs)
  BY <1>1
<1>3. \A i \in PacketBlocks(file) : file.blocks[i].body.ord \in 1..Len(rows)
  <2>1. \A u \in Thread : pc[u] # "push"
    BY FinalizeExcludes DEF FullInv, IndexInv
  <2> QED BY <1>2, <2>1, AllBuffered DEF FullInv, IndexInv, BufferedAs, Capturing
<1>4. CASE Len(locs) > Len(rows)
  <2>1. Len(locs) \in DOMAIN locs
    BY <1>2, <1>4
  <2>2. PICK i \in PacketBlocks(file) : file.blocks[i].body.ord >= Len(locs)
    BY <1>1, <2>1 DEF Located
  <2> QED BY <1>2, <1>3, <1>4, <2>2
<1>5. CASE Len(locs) < Len(rows)
  <2>1. Len(rows) \in DOMAIN rows
    BY <1>2, <1>5
  <2>2. PICK i \in PacketBlocks(file) : file.blocks[i].body.ord = Len(rows)
    BY <2>1 DEF CauseInv, Capturing, HasTurn
  <2>3. i \in DOMAIN file.blocks /\ file.blocks[i].at \in Nat /\ file.blocks[i].held \in Nat
    BY <1>1, ImageNumbers DEF PacketBlocks
  <2>4. file.blocks[i].at < file.size
    BY <1>1, <2>3 DEF WellLaid
  <2>5. file.blocks[i].body.ord <= Len(locs)
    BY <2>4 DEF CauseInv
  <2> QED BY <1>2, <1>5, <2>2, <2>5
<1>6. CASE Len(rows) = Len(locs)
  BY <1>6 DEF CountsMatch
<1>7. Len(locs) > Len(rows) \/ Len(locs) < Len(rows) \/ Len(rows) = Len(locs)
  <2> DEFINE x == Len(rows)
             y == Len(locs)
  <2>1. x \in Nat /\ y \in Nat
    BY <1>2
  <2> HIDE DEF x, y
  <2>2. y > x \/ y < x \/ x = y
    BY <2>1
  <2> QED BY <2>2 DEF x, y
<1> QED BY <1>4, <1>5, <1>6, <1>7

(* The writer's preamble is a chain without packets.                       *)
LEMMA PreambleChain ==
  ASSUME NEW link \in Nat
  PROVE  Chain(Preamble(link))
<1> DEFINE e == AppendBlock(EmptyImage, SectionBlock)
<1>1. EmptyImage \in Image /\ WellLaid(EmptyImage) /\ Chain(EmptyImage)
  <2>1. DOMAIN EmptyImage.blocks = {} /\ EmptyImage.size = 0
    BY DEF EmptyImage
  <2>2. EmptyImage \in Image
    BY DEF EmptyImage, Image
  <2> QED BY <2>1, <2>2 DEF WellLaid, Chain, Boundary
<1>2. /\ SectionBlock \in Block /\ SectionBlock.type = "SHB"
      /\ SectionBlock.len = SectionBlock.held /\ SectionBlock.held >= 12
      /\ InterfaceBlock(link) \in Block
      /\ InterfaceBlock(link).len = InterfaceBlock(link).held
      /\ InterfaceBlock(link).held >= 12
      /\ SectionBlock.held \in Nat
  BY WholePreamble, BlockNumbers
<1>3. e \in Image /\ WellLaid(e) /\ Chain(e)
  BY <1>1, <1>2, AppendImage, AppendLaid, AppendChain
<1> QED BY <1>2, <1>3, AppendChain DEF Preamble

(* The calls of the sink keep CauseInv.                                    *)
LEMMA SinkCause ==
  ASSUME FullInv, StageInv, CauseInv, NEW t \in Thread, Sink(t)
  PROVE  CauseInv'
<1> SUFFICES ASSUME faults' = 0 PROVE CauseInv'
  BY DEF CauseInv
<1>0. TypeInv /\ CallInv /\ LayoutInv
  BY DEF FullInv, IndexInv, TypeInv
<1>1. stage \in {"copy", "abort"} /\ stage' \in {"copy", "abort"}
  BY <1>0 DEF Sink, SinkCall, Acquire, SinkReject, WriteBlock, PushRow, SinkReturn, CallInv
<1>2. faults = 0
  BY <1>0, WriterAssumption DEF Sink, SinkCall, Acquire, SinkReject, WriteBlock, PushRow,
                                SinkReturn, TypeInv, TypeOK
<1>3. /\ Chain(file) /\ WellLaid(file) /\ file \in Image
      /\ \A n \in DOMAIN rows : HasTurn(file, n)
      /\ \A u \in Thread : pc[u] = "push" => HasTurn(file, Len(rows) + 1)
  BY <1>0, <1>1, <1>2 DEF CauseInv, Capturing, LayoutInv, TypeInv, TypeOK
<1>4. SUFFICES /\ Chain(file')
               /\ \A n \in DOMAIN rows' : HasTurn(file', n)
               /\ \A u \in Thread : pc'[u] = "push" => HasTurn(file', Len(rows') + 1)
  BY <1>1 DEF CauseInv
<1>5. CASE (\E c \in Chunk : SinkCall(t, c)) \/ Acquire(t) \/ SinkReject(t) \/ SinkReturn(t)
  <2>1. file' = file /\ rows' = rows
        /\ \A u \in Thread : pc'[u] = "push" => pc[u] = "push"
    BY <1>0, <1>5 DEF SinkCall, Acquire, SinkReject, SinkReturn, capture, TypeInv, TypeOK
  <2> QED BY <1>3, <2>1
<1>6. CASE WriteBlock(t)
  <2> DEFINE link == EffectiveLink(DataLink(Row(t)), cfg.linktype)
             ord  == Len(rows) + 1
  <2>1. rows' = rows /\ file' = Written(file, Row(t), link, ord)
    <3>1. faults' # faults + 1
      BY <1>2
    <3> QED BY <1>6, <3>1 DEF WriteBlock
  <2>2. Row(t) \in InputRow /\ link \in Nat /\ ord \in Nat
    BY <1>0, <1>6, CurrentRow, LinkTypes DEF WriteBlock, TypeInv, TypeOK
  <2> HIDE DEF link
  <2>3. /\ Chain(file') /\ HasTurn(file', ord) /\ \A n : HasTurn(file, n) => HasTurn(file', n)
    BY <1>3, <2>1, <2>2, WrittenChain
  <2> QED BY <1>3, <2>1, <2>3
<1>7. CASE PushRow(t)
  <2>1. /\ file' = file /\ rows' = Append(rows, Buffered(Row(t))) /\ pc[t] = "push"
        /\ pc' = [pc EXCEPT ![t] = "write"]
    BY <1>7 DEF PushRow, capture
  <2>2. Buffered(Row(t)) \in BufferedRow /\ rows \in Seq(BufferedRow)
    BY <1>0, <2>1, CurrentRow DEF TypeInv, TypeOK
  <2>3. Len(rows) \in Nat /\ DOMAIN rows = 1..Len(rows) /\ DOMAIN rows' = 1..(Len(rows) + 1)
    BY <2>1, <2>2
  <2>4. \A n \in DOMAIN rows' : n \in DOMAIN rows \/ n = Len(rows) + 1
    BY <2>3
  <2>5. \A u \in Thread : pc'[u] # "push"
    BY <1>0, <2>1, LockExcludes DEF TypeInv, TypeOK
  <2> QED BY <1>3, <2>1, <2>4, <2>5
<1> QED BY <1>5, <1>6, <1>7 DEF Sink

(* A name that is not the file's has been overtaken.                       *)
LEMMA NameOvertaken ==
  ASSUME NamingInv, stage \in {"scan", "read"}, ~ FileExists(path)
  PROVE  overtaken
BY DEF NamingInv, FileExists

(* Every step keeps track of the name.                                     *)
LEMMA NextNaming == TypeInv /\ NamingInv /\ [Next]_vars => NamingInv'
<1> SUFFICES ASSUME TypeInv, NamingInv, [Next]_vars
             PROVE  NamingInv'
  OBVIOUS
<1>1. CASE Resolve
  BY <1>1 DEF Resolve, ResolveCapturePath, FileExists, NamingInv
<1>2. CASE MoveTmpFile
  BY <1>2 DEF MoveTmpFile, NamingInv
<1>3. CASE OpenForScan \/ ScanStep \/ ScanEnd \/ WriteMetadata \/ EmbedRead
  <2>1. stage \in {"scan", "walk", "meta", "read"} /\ UNCHANGED <<moved, path, overtaken>>
    BY <1>3 DEF OpenForScan, ScanStep, ScanEnd, WriteMetadata, EmbedRead, capture, placing, naming
  <2> QED BY <2>1 DEF NamingInv
<1>4. CASE \/ \E s \in CopyStatements : Bind(s)
           \/ InitializeGlobal \/ Destroy \/ Close \/ Embed \/ RemoveTemp \/ Failures
  <2>1. UNCHANGED <<moved, path, overtaken>>
    BY <1>4 DEF Bind, InitializeGlobal, Destroy, Close, Embed, RemoveTemp, Failures,
                InitializeGlobalFails, WriteMetadataFails, EmbedFails, capture, placing, naming
  <2>2. stage' \notin {"scan", "walk", "meta", "read"}
    BY <1>4 DEF Bind, InitializeGlobal, Destroy, Close, Embed, RemoveTemp, Failures, Fail,
                InitializeGlobalFails, WriteMetadataFails, EmbedFails
  <2> QED BY <2>1, <2>2 DEF NamingInv
<1>5. ASSUME NEW t \in Thread, Sink(t)
      PROVE  NamingInv'
  <2>1. UNCHANGED <<moved, path, overtaken>>
    BY <1>5 DEF Sink, SinkCall, Acquire, SinkReject, WriteBlock, PushRow, SinkReturn,
                capture, placing, naming
  <2>2. stage' \in {"copy", "abort"}
    BY <1>5 DEF Sink, SinkCall, Acquire, SinkReject, WriteBlock, PushRow, SinkReturn,
                TypeInv, CallInv
  <2> QED BY <2>1, <2>2 DEF NamingInv
<1>6. CASE UNCHANGED vars
  BY <1>6 DEF vars, capture, placing, naming, NamingInv
<1> QED BY <1>1, <1>2, <1>3, <1>4, <1>5, <1>6 DEF Next, Finalize

(* Every step keeps CauseInv.                                              *)
LEMMA NextCause ==
  FullInv /\ StageInv /\ NamingInv /\ CauseInv /\ [Next]_vars => CauseInv'
<1> SUFFICES ASSUME FullInv, StageInv, NamingInv, CauseInv, [Next]_vars, faults' = 0
             PROVE  CauseInv'
  BY DEF CauseInv
<1>0. TypeInv /\ CallInv /\ LayoutInv /\ MaxFaults \in Nat /\ faults \in Nat
  BY WriterAssumption DEF FullInv, IndexInv, TypeInv, TypeOK
<1>1. stage \notin {"copy", "abort"} => \A t \in Thread : pc[t] # "push"
  BY <1>0, FinalizeExcludes
<1>2. ASSUME NEW s \in CopyStatements, Bind(s)
      PROVE  CauseInv'
  <2>1. /\ stage = "bind" /\ stage' \in {"open", "failed"}
        /\ UNCHANGED <<file, rows, pc, writer, faults>>
    BY <1>2 DEF Bind, copyVars, calls, capture
  <2> QED BY <1>1, <2>1 DEF CauseInv, StageInv, Capturing
<1>3. CASE InitializeGlobal
  <2>1. /\ stage = "open" /\ stage' = "copy" /\ file' = Preamble(cfg.linktype)
        /\ UNCHANGED <<rows, pc, faults>>
    BY <1>3 DEF InitializeGlobal, copyVars, calls
  <2>2. file = EmptyImage /\ faults = 0
    BY <1>0, <2>1 DEF LayoutInv, Capturing
  <2>3. \A n : ~ HasTurn(EmptyImage, n)
    BY DEF EmptyImage, HasTurn, PacketBlocks
  <2>4. \A n \in DOMAIN rows : FALSE
    BY <2>1, <2>2, <2>3 DEF CauseInv, Capturing
  <2>5. Chain(file')
    BY <1>0, <2>1, PreambleChain DEF TypeInv, TypeOK
  <2> QED BY <1>1, <2>1, <2>4, <2>5 DEF CauseInv
<1>4. CASE \E t \in Thread : Sink(t)
  BY <1>4, SinkCause
<1>5. CASE Destroy
  <2>1. stage = "abort" /\ stage' = "failed" /\ writer' = "leaked"
        /\ \A t \in Thread : pc'[t] # "push"
    BY <1>5 DEF Destroy, copyVars, calls
  <2> QED BY <2>1 DEF CauseInv, Capturing
<1>6. CASE Close
  <2>1. /\ stage = "copy" /\ stage' \in {"done", "resolve"}
        /\ rows' = rows /\ \A t \in Thread : pc'[t] # "push"
    BY <1>6 DEF Close, calls
  <2>2. UNCHANGED <<file, faults>>
    BY <1>0, <1>6 DEF Close
  <2> QED BY <2>1, <2>2 DEF CauseInv, Capturing
<1>7. CASE Resolve
  <2>1. /\ stage = "resolve" /\ stage' = "scan"
        /\ UNCHANGED <<file, rows, faults, pc>>
    BY <1>7 DEF Resolve, copyVars, calls
  <2> QED BY <1>1, <2>1 DEF CauseInv, Capturing
<1>8. CASE OpenForScan
  <2>1. /\ stage = "scan" /\ stage' \in {"walk", "failed"} /\ pos' = 0 /\ locs' = <<>>
        /\ UNCHANGED <<file, rows, faults, pc, overtaken>>
    BY <1>8 DEF OpenForScan, Fail, capture, placing, naming, calls
  <2>2. Chain(file) /\ Boundary(file, 0)
    BY <2>1 DEF CauseInv, Capturing, Chain
  <2>3. \A i \in PacketBlocks(file) : ~ (file.blocks[i].at < 0)
    BY <1>0, ImageNumbers DEF PacketBlocks, TypeInv, TypeOK
  <2>4. stage' = "failed" => overtaken
    BY <1>8, <2>1, NameOvertaken DEF OpenForScan
  <2> QED BY <1>1, <2>1, <2>2, <2>3, <2>4 DEF CauseInv, Capturing
<1>9. CASE ScanStep
  <2>1. stage = "walk" /\ UNCHANGED <<stage, file, rows, faults, pc>>
    BY <1>9 DEF ScanStep, copyVars, calls, capture
  <2>2. /\ Boundary(file, pos')
        /\ \A i \in PacketBlocks(file) :
             file.blocks[i].at < pos' => file.blocks[i].body.ord <= Len(locs')
    BY <1>9, <2>1, ScanStepFinds
  <2> QED BY <1>1, <2>1, <2>2 DEF CauseInv, Capturing
<1>10. CASE ScanEnd
  <2>1. /\ stage = "walk" /\ stage' = "meta" /\ ScanStops(file, pos)
        /\ UNCHANGED <<file, rows, faults, pc, pos, locs>>
    BY <1>10 DEF ScanEnd, copyVars, calls, capture, scanVars
  <2>2. pos = file.size
    BY <1>0, <2>1, ChainWalks DEF CauseInv, Capturing, LayoutInv, TypeInv, TypeOK
  <2> QED BY <1>1, <2>1, <2>2 DEF CauseInv, Capturing
<1>11. CASE WriteMetadata
  <2>1. stage = "meta" /\ UNCHANGED <<file, rows, faults, pc>>
    BY <1>11 DEF WriteMetadata, calls, capture
  <2>2. CountsMatch
    BY <2>1, CountsAgree
  <2>3. stage' = "read"
    BY <1>11, <2>2 DEF WriteMetadata
  <2> QED BY <1>1, <2>1, <2>3 DEF CauseInv, Capturing
<1>12. CASE EmbedRead
  <2>1. /\ stage = "read" /\ stage' \in {"embed", "failed"}
        /\ UNCHANGED <<file, rows, faults, pc, overtaken>>
    BY <1>12 DEF EmbedRead, Fail, capture, placing, naming, calls
  <2>2. stage' = "failed" => overtaken
    BY <1>12, <2>1, NameOvertaken DEF EmbedRead
  <2> QED BY <1>1, <2>1, <2>2 DEF CauseInv, Capturing
<1>13. CASE Embed \/ RemoveTemp
  <2>1. stage \in {"embed", "tidy"} /\ stage' \in {"tidy", "done"} /\ pc' = pc
    BY <1>13 DEF Embed, RemoveTemp, copyVars, calls
  <2>2. faults = 0
    BY <1>0, <1>13 DEF Embed, RemoveTemp
  <2> QED BY <1>1, <2>1, <2>2 DEF CauseInv, Capturing
<1>14. CASE MoveTmpFile
  <2>1. /\ UNCHANGED <<stage, file, rows, faults, pc, pos, locs, writer>>
        /\ stage # "failed"
    BY <1>14 DEF MoveTmpFile, copyVars, calls, scanVars
  <2> QED BY <2>1 DEF CauseInv, Capturing, HasTurn
<1>15. CASE UNCHANGED vars
  <2>1. UNCHANGED <<stage, file, rows, faults, pc, pos, locs, writer, overtaken>>
    BY <1>15 DEF vars, copyVars, calls, capture, placing, naming, scanVars
  <2> QED BY <2>1 DEF CauseInv, Capturing, HasTurn
<1>16. CASE InitializeGlobalFails \/ WriteMetadataFails \/ EmbedFails
  <2>1. faults' = faults + 1
    BY <1>16 DEF InitializeGlobalFails, WriteMetadataFails, EmbedFails
  <2> QED BY <1>0, <2>1
<1> QED BY <1>2, <1>3, <1>4, <1>5, <1>6, <1>7, <1>8, <1>9, <1>10, <1>11, <1>12, <1>13, <1>14,
           <1>15, <1>16 DEF Next, Finalize, Failures

(* The empty image is a chain, and there is no row yet.                    *)
LEMMA InitCause == Init => CauseInv
<1> SUFFICES ASSUME Init PROVE CauseInv
  OBVIOUS
<1>1. /\ file = EmptyImage /\ stage = "bind" /\ rows = <<>>
      /\ \A t \in Thread : pc[t] = "idle"
  BY DEF Init
<1>2. DOMAIN EmptyImage.blocks = {} /\ EmptyImage.size = 0 /\ DOMAIN rows = {}
  BY <1>1 DEF EmptyImage
<1> QED BY <1>1, <1>2 DEF CauseInv, Chain, Boundary

(* A COPY that has closed its file does not fail unless a write failed or  *)
(* the file was renamed between the finalizer's look at the name and its   *)
(* use: the scan finds the file under either name, and in it as many       *)
(* packet blocks as there are rows, whatever the sizes of the packets.     *)
THEOREM FailuresHaveCause == Spec => []FailureHasCause
<1>1. Init => FullInv /\ ProgressInv /\ NamingInv /\ CauseInv
  BY InitFullInv, InitProgress, InitCause DEF Init, NamingInv
<1>2. FullInv /\ ProgressInv /\ NamingInv /\ CauseInv /\ [Next]_vars
        => FullInv' /\ ProgressInv' /\ NamingInv' /\ CauseInv'
  BY NextFullInv, NextProgress, NextNaming, NextCause
     DEF FullInv, IndexInv, TypeInv, ProgressInv
<1>3. FullInv /\ CauseInv => FailureHasCause
  BY WriterAssumption DEF FullInv, TypeOK, CauseInv, FailureHasCause
<1> QED BY <1>1, <1>2, <1>3, PTL DEF Spec

=============================================================================
