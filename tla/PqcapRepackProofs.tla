------------------------- MODULE PqcapRepackProofs --------------------------
(***************************************************************************)
(* The scan of a capture, for every capture, chunk size and base of a byte *)
(* and however often the file is replaced: types, the reader's handle, and *)
(* the refinement of PacketStream; then the COPY that is driven by it: its *)
(* source is that scan, and what it writes is what the scan has read.      *)
(***************************************************************************)
EXTENDS PqcapRepack, TLAPS


(***************************************************************************)
(* Words, headers and rows.                                                *)
(***************************************************************************)

(* Products of natural numbers are natural numbers.                        *)
LEMMA Products ==
  ASSUME NEW m \in Nat, NEW n \in Nat
  PROVE  m * n \in Nat
OBVIOUS

(* The bases of the fields.                                                *)
LEMMA Bases == ByteBase \in Nat \ {0} /\ U16 \in Nat \ {0} /\ U32 \in Nat
<1>1. ByteBase \in Nat /\ ByteBase > 0
  BY TableAssumption
<1>2. ByteBase * ByteBase \in Nat /\ ByteBase * ByteBase > 0
  BY <1>1
<1>3. U16 \in Nat
  BY <1>2 DEF U16
<1>4. U32 \in Nat
  BY <1>3, Products DEF U32
<1> QED BY <1>1, <1>2, <1>4 DEF U16

(* The value of a word is a number.                                        *)
LEMMA NumberType ==
  ASSUME NEW w \in Word
  PROVE  Number(w) \in Nat
<1>1. w[1] \in Nat /\ w[2] \in Nat /\ w[3] \in Nat /\ w[4] \in Nat
  BY Bases DEF Word
<1>2. ByteBase \in Nat
  BY Bases
<1>3. ByteBase * w[4] \in Nat
  BY <1>1, <1>2, Products
<1>4. w[3] + ByteBase * w[4] \in Nat
  BY <1>1, <1>3
<1>5. ByteBase * (w[3] + ByteBase * w[4]) \in Nat
  BY <1>2, <1>4, Products
<1>6. w[2] + ByteBase * (w[3] + ByteBase * w[4]) \in Nat
  BY <1>1, <1>5
<1>7. ByteBase * (w[2] + ByteBase * (w[3] + ByteBase * w[4])) \in Nat
  BY <1>2, <1>6, Products
<1> QED BY <1>1, <1>7 DEF Number

(* Whatever order the bytes of a word were stored in, the reader gets its  *)
(* value.                                                                  *)
LEMMA ReadsWord ==
  ASSUME NEW w \in Word, NEW swapped \in BOOLEAN
  PROVE  Number(ReadU32(Stored(w, swapped), swapped)) = Number(w)
<1>1. CASE swapped
  <2> DEFINE s == [i \in 1..4 |-> w[5 - i]]
  <2>1. s[4] = w[1] /\ s[3] = w[2] /\ s[2] = w[3] /\ s[1] = w[4]
    OBVIOUS
  <2> HIDE DEF s
  <2>2. /\ Swap32(s)[1] = w[1] /\ Swap32(s)[2] = w[2]
        /\ Swap32(s)[3] = w[3] /\ Swap32(s)[4] = w[4]
    BY <2>1 DEF Swap32
  <2>3. ReadU32(Stored(w, swapped), swapped) = Swap32(s)
    BY <1>1 DEF ReadU32, Stored, s
  <2> QED BY <2>2, <2>3 DEF Number
<1>2. CASE ~ swapped
  BY <1>2 DEF ReadU32, Stored
<1> QED BY <1>1, <1>2

(* The way to nanoseconds and back to microseconds loses nothing.          *)
LEMMA ToNanosAndBack ==
  ASSUME NEW n \in Nat
  PROVE  (n * 1000) \div 1000 = n
OBVIOUS

(* The time of a packet, to the microsecond.                               *)
LEMMA MicrosMeant ==
  ASSUME NEW c \in Capture, NEW rec \in Record
  PROVE  /\ TimestampMicros(HeaderOf(c, rec)) = MeantMicros(c, rec)
         /\ MeantMicros(c, rec) \in Nat
<1>1. /\ rec.sec \in Word /\ rec.sub \in Word
      /\ c.linktype \in Word /\ c.swapped \in BOOLEAN /\ c.nanos \in BOOLEAN
  BY DEF Record, Capture
<1> DEFINE h == HeaderOf(c, rec)
           sec == Number(rec.sec)
           sub == Number(rec.sub)
<1>2. sec \in Nat /\ sub \in Nat
  BY <1>1, NumberType
<1>3. h.tv_sec = sec
  BY <1>1, ReadsWord DEF HeaderOf, ClassicHeader, PcapngHeader
<1>4. h.tv_nsec = IF c.format = "pcap" /\ ~ c.nanos THEN sub * 1000 ELSE sub
  BY <1>1, ReadsWord DEF HeaderOf, ClassicHeader, PcapngHeader
<1>5. (sub * 1000) \div 1000 = sub
  BY <1>2, ToNanosAndBack
<1> HIDE DEF h, sec, sub
<1>6. h.tv_nsec \div 1000 = IF c.format = "pcap" /\ ~ c.nanos THEN sub ELSE sub \div 1000
  BY <1>4, <1>5
<1>7. TimestampMicros(h) = MeantMicros(c, rec)
  BY <1>3, <1>6, SMT DEF TimestampMicros, MeantMicros, sec, sub
<1>8. MeantMicros(c, rec) \in Nat
  <2>1. MeantMicros(c, rec) = sec * 1000000
           + (IF c.format = "pcap" /\ ~ c.nanos THEN sub ELSE sub \div 1000)
    BY SMT DEF MeantMicros, sec, sub
  <2> QED BY <1>2, <2>1, SMT
<1> QED BY <1>7, <1>8 DEF h

(* The row of a packet says what its program meant.                        *)
LEMMA RowMeant ==
  ASSUME NEW c \in Capture, NEW rec \in Record
  PROVE  RowFrom(HeaderOf(c, rec), rec.data) = MeantRow(c, rec)
<1>1. /\ rec.incl \in Word /\ rec.orig \in Word
      /\ c.linktype \in Word /\ c.swapped \in BOOLEAN
  BY DEF Record, Capture
<1>2. Number(rec.incl) \in Nat
  BY <1>1, NumberType
<1> DEFINE h == HeaderOf(c, rec)
<1>3. /\ h.interface_id = IF c.format = "pcap" THEN 0 ELSE rec.interface
      /\ h.data_link = IF c.format = "pcap" THEN Number(c.linktype) % U16 ELSE rec.link
      /\ h.captured_length = Number(rec.incl)
      /\ h.original_length = Number(rec.orig)
      /\ h.comment = IF c.format = "pcap" THEN NULL ELSE rec.comment
  <2>1. CASE c.format = "pcap"
    BY <1>1, <2>1, ReadsWord DEF HeaderOf, ClassicHeader
  <2>2. CASE c.format # "pcap"
    BY <2>2 DEF HeaderOf, PcapngHeader
  <2> QED BY <2>1, <2>2
<1>4. TimestampMicros(h) = MeantMicros(c, rec)
  BY MicrosMeant
<1> HIDE DEF h
<1>5. (IF h.comment = "" THEN NULL ELSE h.comment)
        = (IF c.format = "pcap" \/ rec.comment = "" THEN NULL ELSE rec.comment)
  BY <1>3
<1>6. (IF h.captured_length > 0 THEN [data |-> rec.data, size |-> h.captured_length] ELSE NULL)
        = (IF Number(rec.incl) = 0 THEN NULL
           ELSE [data |-> rec.data, size |-> Number(rec.incl)])
  BY <1>2, <1>3
<1>7. RowFrom(h, rec.data) = MeantRow(c, rec)
  BY <1>3, <1>4, <1>5, <1>6 DEF RowFrom, MeantRow
<1> QED BY <1>7 DEF h

(* A row has its type.                                                     *)
LEMMA MeantRowType ==
  ASSUME NEW c \in Capture, NEW rec \in Record
  PROVE  MeantRow(c, rec) \in Row
<1>1. /\ Number(rec.incl) \in Nat /\ Number(rec.orig) \in Nat /\ Number(c.linktype) \in Nat
  BY NumberType DEF Record, Capture
<1>2. /\ rec.interface \in Nat /\ rec.link \in Nat /\ rec.comment \in {NULL} \cup STRING
      /\ rec.data \in Payload
  BY Bases DEF Record
<1>3. \A n \in Nat : n % U16 \in Nat
  BY Bases
<1>4. MeantMicros(c, rec) \in Nat
  BY MicrosMeant
<1> DEFINE payload == IF Number(rec.incl) = 0 THEN NULL
                      ELSE [data |-> rec.data, size |-> Number(rec.incl)]
           link    == IF c.format = "pcap" THEN Number(c.linktype) % U16 ELSE rec.link
<1>5. payload \in {NULL} \cup Blob /\ link \in Nat
  BY <1>1, <1>2, <1>3 DEF Blob
<1>6. MeantRow(c, rec).payload = payload /\ MeantRow(c, rec).data_link = link
  BY DEF MeantRow
<1> HIDE DEF payload, link
<1> QED BY <1>1, <1>2, <1>4, <1>5, <1>6 DEF MeantRow, Row

(***************************************************************************)
(* Files.                                                                  *)
(***************************************************************************)

(* A record is cut only where there is one.                                *)
SoundFile(f) ==
  /\ f \in OnDisk
  /\ f.whole <= Len(f.capture.records)
  /\ f.cut # "no" => f.whole < Len(f.capture.records)

(* The parts of a file have their types.                                   *)
LEMMA FileParts ==
  ASSUME NEW f \in OnDisk
  PROVE  /\ f.capture \in Captures /\ f.capture \in Capture
         /\ f.whole \in Nat /\ Len(f.capture.records) \in Nat
         /\ f.head \in {"absent", "short", "magic", "whole"}
         /\ DOMAIN f.capture.records = 1..Len(f.capture.records)
         /\ \A n \in 1..Len(f.capture.records) : f.capture.records[n] \in Record
<1>1. f.capture \in Captures /\ f.whole \in Nat
      /\ f.head \in {"absent", "short", "magic", "whole"}
  BY DEF OnDisk
<1>2. f.capture \in Capture
  BY <1>1, TableAssumption
<1>3. f.capture.records \in Seq(Record)
  BY <1>2 DEF Capture
<1> QED BY <1>1, <1>2, <1>3

(* A new file is sound.                                                    *)
LEMMA NewSound ==
  ASSUME NEW f \in NewFiles
  PROVE  SoundFile(f)
<1>1. \A c \in Captures : Len(c.records) \in Nat
  BY TableAssumption DEF Capture
<1>2. CASE f \in { [capture |-> c, head |-> head, whole |-> 0, cut |-> "no"] :
                     c \in Captures, head \in {"absent", "short"} }
  BY <1>1, <1>2 DEF SoundFile, OnDisk
<1>3. CASE \E c \in Captures : \E n \in 0..Len(c.records) :
             f = [capture |-> c, head |-> "whole", whole |-> n, cut |-> "no"]
  <2>1. PICK c \in Captures : \E n \in 0..Len(c.records) :
             f = [capture |-> c, head |-> "whole", whole |-> n, cut |-> "no"]
    BY <1>3
  <2>2. PICK n \in 0..Len(c.records) :
             f = [capture |-> c, head |-> "whole", whole |-> n, cut |-> "no"]
    BY <2>1
  <2>3. n \in Nat /\ n <= Len(c.records)
    BY <1>1
  <2> QED BY <2>2, <2>3 DEF SoundFile, OnDisk
<1> QED BY <1>2, <1>3 DEF NewFiles

(* A file that grows stays sound and stays the same capture, and its head  *)
(* does not shrink.                                                        *)
LEMMA LongerSound ==
  ASSUME NEW f, SoundFile(f), NEW g \in Longer(f)
  PROVE  /\ SoundFile(g)
         /\ g.capture = f.capture
         /\ f.whole <= g.whole
         /\ f.head = "magic" => g.head = "whole"
         /\ f.head = "whole" => g.head = "whole"
<1> DEFINE n == Len(f.capture.records)
<1>1. /\ f \in OnDisk /\ f.whole \in Nat /\ n \in Nat /\ f.whole <= n
      /\ f.head \in {"absent", "short", "magic", "whole"}
      /\ f.cut # "no" => f.whole < n
  BY FileParts DEF SoundFile
<1>2. f.head # "absent" /\ ~ Complete(f)
  BY DEF Longer
<1>3. CASE f.head # "whole"
  <2>1. g = [f EXCEPT !.head = IF f.head = "short" THEN "magic" ELSE "whole"]
    BY <1>2, <1>3 DEF Longer
  <2>2. /\ g \in OnDisk /\ g.capture = f.capture /\ g.whole = f.whole /\ g.cut = f.cut
        /\ g.head = IF f.head = "short" THEN "magic" ELSE "whole"
    BY <1>1, <2>1 DEF OnDisk
  <2> QED BY <1>1, <1>3, <2>2 DEF SoundFile
<1>4. CASE f.head = "whole"
  <2>1. f.whole < n
    BY <1>1, <1>2, <1>4 DEF Complete
  <2>2. g \in {[f EXCEPT !.whole = @ + 1, !.cut = "no"], [f EXCEPT !.cut = "header"],
              [f EXCEPT !.cut = "data"]}
    BY <1>2, <1>4 DEF Longer
  <2>3. CASE g = [f EXCEPT !.whole = @ + 1, !.cut = "no"]
    <3>1. /\ g \in OnDisk /\ g.capture = f.capture /\ g.whole = f.whole + 1 /\ g.cut = "no"
          /\ g.head = f.head
      <4> DEFINE w == f.whole + 1
      <4>1. w \in Nat
        BY <1>1
      <4> HIDE DEF w
      <4>2. g = [f EXCEPT !.whole = w, !.cut = "no"]
        BY <2>3 DEF w
      <4>3. /\ g \in OnDisk /\ g.capture = f.capture /\ g.whole = w /\ g.cut = "no"
            /\ g.head = f.head
        BY <1>1, <4>1, <4>2 DEF OnDisk
      <4> QED BY <4>3 DEF w
    <3>2. f.whole + 1 <= n /\ f.whole <= f.whole + 1
      BY <1>1, <2>1
    <3>3. g.whole <= Len(g.capture.records) /\ f.whole <= g.whole
      BY <3>1, <3>2
    <3> QED BY <1>4, <3>1, <3>3 DEF SoundFile
  <2>4. CASE g \in {[f EXCEPT !.cut = "header"], [f EXCEPT !.cut = "data"]}
    <3>1. /\ g \in OnDisk /\ g.capture = f.capture /\ g.whole = f.whole /\ g.head = f.head
      <4>1. CASE g = [f EXCEPT !.cut = "header"]
        BY <1>1, <4>1 DEF OnDisk
      <4>2. CASE g = [f EXCEPT !.cut = "data"]
        BY <1>1, <4>2 DEF OnDisk
      <4> QED BY <2>4, <4>1, <4>2
    <3> QED BY <1>1, <1>4, <2>1, <3>1 DEF SoundFile
  <2> QED BY <2>2, <2>3, <2>4
<1> QED BY <1>3, <1>4

(***************************************************************************)
(* The invariant.                                                          *)
(***************************************************************************)

(* What the disk holds, and what the handle refers to.                     *)
DiskInv ==
  /\ SoundFile(file) /\ SoundFile(source)
  /\ linked => source = file
  /\ stage = "open" /\ unmoved =>
       file.capture.format = kind /\ file.head \in {"magic", "whole"}

(* The handle over the stages of the scan.                                 *)
HandleInv ==
  /\ stage \in {"bind", "init", "open"} =>
       /\ handle = "none" /\ next = 1 /\ present = 0 /\ output = <<>>
       /\ ~ finished /\ ~ calling
  /\ stage = "scan" => handle = "open"
  /\ stage \in Over => handle # "open"
  /\ handle \in {"none", "leaked"} => output = <<>>
  /\ handle = "leaked" => stage = "failed"
  /\ calling => stage = "scan"
  /\ ~ calling => chunk = <<>>

(* What has been read, and what has been handed on.                        *)
RowsInv ==
  /\ present <= source.whole
  /\ \A n \in DOMAIN output : /\ n <= Len(source.capture.records)
                              /\ output[n] = MeantRow(source.capture, source.capture.records[n])
  /\ stage = "ended" => Len(output) >= present
  /\ stage = "scan" =>
       /\ next - 1 <= source.whole
       /\ Len(output) + Len(chunk) = next - 1
       /\ \A n \in DOMAIN chunk :
             chunk[n] = MeantRow(source.capture, source.capture.records[Len(output) + n])
       /\ finished => next - 1 >= present

TableInv == TypeOK /\ DiskInv /\ HandleInv /\ RowsInv

(* Nothing has been opened when the function is bound.                     *)
LEMMA InitTableInv == Init => TableInv
<1> SUFFICES ASSUME Init PROVE TableInv
  OBVIOUS
<1>1. SoundFile(file) /\ source = file
  BY NewSound DEF Init
<1>2. VectorSize \in Nat /\ MaxReplaced \in Nat
  BY TableAssumption
<1>3. TypeOK
  <2>1. <<>> \in Seq(Row) /\ Len(<<>>) = 0
    OBVIOUS
  <2>2. chunk = <<>> /\ output = <<>>
    BY DEF Init
  <2>3. chunk \in Seq(Row) /\ Len(chunk) <= VectorSize /\ output \in Seq(Row)
    BY <1>2, <2>1, <2>2
  <2>4. 0 \in 0..MaxReplaced /\ 0 \in Nat /\ 1 \in Nat \ {0}
    BY <1>2
  <2> QED BY <1>1, <2>3, <2>4 DEF Init, TypeOK, SoundFile, Over
<1>4. DiskInv
  BY <1>1 DEF Init, DiskInv
<1>5. HandleInv
  BY DEF Init, HandleInv, Over
<1>6. RowsInv
  <2>1. present = 0 /\ output = <<>> /\ stage = "bind" /\ source.whole \in Nat
    BY <1>1, FileParts DEF Init, SoundFile
  <2>2. DOMAIN output = {} /\ stage # "scan" /\ stage # "ended" /\ 0 <= source.whole
    BY <2>1
  <2> QED BY <2>1, <2>2 DEF RowsInv
<1> QED BY <1>3, <1>4, <1>5, <1>6 DEF TableInv

(* A step that reads nothing and opens nothing keeps what has been read.   *)
LEMMA SameRows ==
  ASSUME RowsInv, source'.capture = source.capture, source.whole <= source'.whole,
         source.whole \in Nat, source'.whole \in Nat, next \in Nat,
         UNCHANGED <<present, output, chunk, next>>, present \in Nat,
         stage' = "ended" => stage = "ended" \/ (stage = "scan" /\ finished /\ chunk = <<>>),
         stage' = "scan" => stage = "scan",
         finished' => finished,
         output \in Seq(Row)
  PROVE  RowsInv'
<1>1. present' <= source'.whole
  BY DEF RowsInv
<1>2. \A n \in DOMAIN output' :
         /\ n <= Len(source'.capture.records)
         /\ output'[n] = MeantRow(source'.capture, source'.capture.records[n])
  BY DEF RowsInv
<1>3. stage' = "ended" => Len(output') >= present'
  BY DEF RowsInv
<1>4. stage' = "scan" =>
       /\ next' - 1 <= source'.whole
       /\ Len(output') + Len(chunk') = next' - 1
       /\ \A n \in DOMAIN chunk' :
             chunk'[n] = MeantRow(source'.capture, source'.capture.records[Len(output') + n])
       /\ finished' => next' - 1 >= present'
  BY DEF RowsInv
<1> QED BY <1>1, <1>2, <1>3, <1>4 DEF RowsInv

(* The steps before there is a reader keep the invariant.                  *)
LEMMA OpeningKeeps ==
  ASSUME TableInv,
         \/ \E inputs \in Arguments : ReadPqcapPacketsBind(inputs)
         \/ DetectCaptureFormat
         \/ OpenReader
  PROVE  TableInv'
<1>0. TypeOK /\ DiskInv /\ HandleInv /\ RowsInv
  BY DEF TableInv
<1>1. /\ stage \in {"bind", "init", "open"}
      /\ UNCHANGED <<disk, call>>
      /\ stage' \in {"init", "open", "scan", "failed"}
      /\ kind' \in {"pcapng", "pcap"}
      /\ unmoved' \in BOOLEAN
      /\ stage' = "open" /\ unmoved' =>
           file.capture.format = kind' /\ file.head \in {"magic", "whole"}
      /\ \/ stage' \in {"init", "open", "failed"} /\ UNCHANGED reader
         \/ /\ stage' = "failed" /\ handle' \in {"leaked", "none"}
            /\ UNCHANGED <<source, linked, present>>
         \/ /\ stage' = "scan" /\ handle' = "open" /\ source' = file /\ linked' = TRUE
            /\ present' = file.whole
  <2>1. CASE \E inputs \in Arguments : ReadPqcapPacketsBind(inputs)
    BY <1>0, <2>1 DEF ReadPqcapPacketsBind, detected, TypeOK
  <2>2. CASE DetectCaptureFormat
    <3>1. file.capture.format \in {"pcapng", "pcap", "other"}
      BY <1>0, FileParts DEF TypeOK, Capture
    <3> QED BY <1>0, <2>2, <3>1 DEF DetectCaptureFormat, TypeOK
  <2>3. CASE OpenReader
    BY <1>0, <2>3 DEF OpenReader, DiskInv, detected, TypeOK
  <2> QED BY <2>1, <2>2, <2>3
<1>2. /\ handle = "none" /\ next = 1 /\ present = 0 /\ output = <<>> /\ chunk = <<>>
      /\ ~ finished /\ ~ calling
  BY <1>0, <1>1 DEF HandleInv
<1>3. UNCHANGED <<file, replaced, next, finished, calling, chunk, output>>
  BY <1>1 DEF disk, call
<1>4. \/ UNCHANGED <<source, linked, present>> /\ stage' # "scan" /\ handle' \in {"none", "leaked"}
         /\ (handle' = "leaked" => stage' = "failed")
      \/ /\ stage' = "scan" /\ handle' = "open" /\ source' = file /\ linked' = TRUE
         /\ present' = file.whole
  BY <1>1, <1>2 DEF reader
<1>5. file.whole \in Nat /\ file \in OnDisk /\ file.whole <= Len(file.capture.records)
  BY <1>0, FileParts DEF TypeOK
<1>6. TypeOK'
  <2>1. UNCHANGED <<file, replaced>> /\ file' \in OnDisk
    BY <1>3, <1>5
  <2>2. stage' \in {"bind", "init", "open", "scan"} \cup Over
    BY <1>1 DEF Over
  <2>3. handle' \in {"none", "open", "closed", "leaked"}
    BY <1>4
  <2>4. /\ source' \in OnDisk /\ source'.whole <= Len(source'.capture.records)
        /\ linked' \in BOOLEAN /\ present' \in Nat
    BY <1>0, <1>4, <1>5 DEF TypeOK
  <2> QED BY <1>0, <1>1, <1>3, <2>2, <2>3, <2>4 DEF TypeOK
<1>7. DiskInv'
  BY <1>0, <1>1, <1>3, <1>4 DEF DiskInv
<1>8. HandleInv'
  BY <1>1, <1>2, <1>3, <1>4 DEF HandleInv, Over
<1>9. RowsInv'
  <2>1. present' <= source'.whole
    BY <1>0, <1>4, <1>5 DEF RowsInv
  <2>2. DOMAIN output' = {} /\ DOMAIN chunk' = {} /\ Len(output') = 0 /\ Len(chunk') = 0
        /\ next' - 1 = 0
    BY <1>2, <1>3
  <2>3. stage' = "scan" => 0 <= source'.whole
    BY <1>4, <1>5
  <2>4. stage' # "ended" /\ ~ finished'
    BY <1>1, <1>2, <1>3
  <2> QED BY <2>1, <2>2, <2>3, <2>4 DEF RowsInv
<1> QED BY <1>6, <1>7, <1>8, <1>9 DEF TableInv

(* What goes on at the path keeps the invariant.                           *)
LEMMA DiskKeeps ==
  ASSUME TableInv, Grow \/ Replace
  PROVE  TableInv'
<1>0. TypeOK /\ DiskInv /\ HandleInv /\ RowsInv
  BY DEF TableInv
<1>1. UNCHANGED <<stage, kind, handle, present, next, finished, calling, chunk, output>>
  BY DEF Grow, Replace, detected, call
<1>2. /\ SoundFile(file') /\ SoundFile(source')
      /\ source'.capture = source.capture /\ source.whole <= source'.whole
      /\ linked' => source' = file'
      /\ stage = "open" /\ unmoved' =>
           file'.capture.format = kind /\ file'.head \in {"magic", "whole"}
      /\ linked' \in BOOLEAN /\ unmoved' \in BOOLEAN /\ replaced' \in 0..MaxReplaced
  <2>1. source.whole \in Nat /\ SoundFile(file) /\ SoundFile(source) /\ replaced \in Nat
        /\ MaxReplaced \in Nat
    BY <1>0, FileParts, TableAssumption DEF DiskInv, SoundFile, TypeOK
  <2>2. CASE Grow
    <3>1. file' \in Longer(file) /\ UNCHANGED <<linked, replaced, unmoved>>
      BY <2>2 DEF Grow, detected
    <3>2. /\ SoundFile(file') /\ file'.capture = file.capture /\ file.whole <= file'.whole
          /\ file.head = "magic" => file'.head = "whole"
          /\ file.head = "whole" => file'.head = "whole"
      BY <2>1, <3>1, LongerSound
    <3>3. source' = IF linked THEN file' ELSE source
      BY <2>2 DEF Grow
    <3>4. linked => source = file
      BY <1>0 DEF DiskInv
    <3>5. /\ SoundFile(source') /\ source'.capture = source.capture
          /\ source.whole <= source'.whole
      <4>1. CASE linked
        BY <3>2, <3>3, <3>4, <4>1
      <4>2. CASE ~ linked
        BY <2>1, <3>3, <4>2
      <4> QED BY <4>1, <4>2
    <3>6. stage = "open" /\ unmoved' =>
            file'.capture.format = kind /\ file'.head \in {"magic", "whole"}
      BY <1>0, <3>1, <3>2 DEF DiskInv
    <3>7. /\ (linked' => source' = file') /\ linked' \in BOOLEAN /\ unmoved' \in BOOLEAN
          /\ replaced' \in 0..MaxReplaced
      BY <1>0, <3>1, <3>3 DEF TypeOK
    <3> QED BY <3>2, <3>5, <3>6, <3>7
  <2>3. CASE Replace
    <3>1. SoundFile(file')
      BY <2>3, NewSound DEF Replace
    <3>2. /\ source' = source /\ linked' = FALSE /\ unmoved' = FALSE
          /\ replaced < MaxReplaced /\ replaced' = replaced + 1
      BY <2>3 DEF Replace
    <3>3. replaced' \in 0..MaxReplaced
      BY <2>1, <3>2
    <3>4. source.whole <= source'.whole
      BY <2>1, <3>2
    <3> QED BY <2>1, <3>1, <3>2, <3>3, <3>4
  <2> QED BY <2>2, <2>3
<1>3. TypeOK'
  BY <1>0, <1>1, <1>2 DEF TypeOK, SoundFile
<1>4. DiskInv'
  BY <1>1, <1>2 DEF DiskInv
<1>5. HandleInv'
  BY <1>0, <1>1 DEF HandleInv
<1>6. RowsInv'
  <2>1. source.whole \in Nat /\ source'.whole \in Nat /\ next \in Nat /\ present \in Nat
        /\ output \in Seq(Row)
    BY <1>0, <1>2, FileParts DEF TypeOK, SoundFile
  <2> QED BY <1>0, <1>1, <1>2, <2>1, SameRows
<1> QED BY <1>3, <1>4, <1>5, <1>6 DEF TableInv

(* A row is added to the chunk of the call.                                *)
LEMMA ReadRowKeeps ==
  ASSUME TableInv, ReadRow
  PROVE  TableInv'
<1>0. TypeOK /\ DiskInv /\ HandleInv /\ RowsInv
  BY DEF TableInv
<1> DEFINE c == source.capture
           row == MeantRow(c, c.records[next])
<1>1. /\ calling /\ ~ finished /\ Len(chunk) < VectorSize /\ next <= source.whole
      /\ chunk' = Append(chunk, RowAt(c, next)) /\ next' = next + 1
      /\ UNCHANGED <<file, replaced, stage, kind, unmoved, handle, source, linked, present,
                     finished, calling, output>>
  BY DEF ReadRow, MayRead, disk, detected, reader
<1>2. stage = "scan" /\ handle = "open"
  BY <1>0, <1>1 DEF HandleInv
<1>3. /\ next \in 1..Len(c.records) /\ c \in Capture /\ c.records[next] \in Record
      /\ source.whole \in Nat /\ source.whole <= Len(c.records) /\ Len(c.records) \in Nat
      /\ next \in Nat \ {0}
  <2>1. /\ source \in OnDisk /\ next \in Nat \ {0} /\ source.whole <= Len(c.records)
    BY <1>0 DEF TypeOK
  <2>2. source.whole \in Nat /\ Len(c.records) \in Nat /\ c \in Capture
    BY <2>1, FileParts
  <2>3. next \in 1..Len(c.records)
    BY <1>1, <2>1, <2>2
  <2> QED BY <2>1, <2>2, <2>3, FileParts
<1>4. RowAt(c, next) = row /\ row \in Row
  BY <1>3, RowMeant, MeantRowType DEF RowAt
<1> HIDE DEF row, c
<1>5. /\ chunk \in Seq(Row) /\ Len(chunk) \in Nat /\ DOMAIN chunk = 1..Len(chunk)
      /\ output \in Seq(Row) /\ Len(output) \in Nat /\ VectorSize \in Nat
  BY <1>0, TableAssumption DEF TypeOK
<1>6. /\ chunk' \in Seq(Row) /\ Len(chunk') = Len(chunk) + 1
      /\ DOMAIN chunk' = 1..(Len(chunk) + 1)
      /\ \A n \in 1..Len(chunk) : chunk'[n] = chunk[n]
      /\ chunk'[Len(chunk) + 1] = row
  BY <1>1, <1>4, <1>5
<1>7. TypeOK'
  <2>1. Len(chunk') <= VectorSize /\ next' \in Nat \ {0}
    BY <1>1, <1>3, <1>5, <1>6
  <2> QED BY <1>0, <1>1, <1>6, <2>1 DEF TypeOK
<1>8. DiskInv' /\ HandleInv'
  BY <1>0, <1>1, <1>2 DEF DiskInv, HandleInv, Over
<1>9. RowsInv'
  <2>1. Len(output) + Len(chunk) = next - 1
    BY <1>0, <1>2 DEF RowsInv
  <2>2. Len(output') + Len(chunk') = next' - 1 /\ next' - 1 <= source'.whole
    BY <1>1, <1>3, <1>5, <1>6, <2>1
  <2>3. ASSUME NEW n \in DOMAIN chunk'
        PROVE  chunk'[n] = MeantRow(c, c.records[Len(output) + n])
    <3>1. n \in 1..Len(chunk) \/ n = Len(chunk) + 1
      BY <1>5, <1>6
    <3>2. CASE n \in 1..Len(chunk)
      BY <1>0, <1>2, <1>5, <1>6, <3>2 DEF RowsInv, c
    <3>3. CASE n = Len(chunk) + 1
      <4>1. Len(output) + n = next
        BY <1>3, <1>5, <2>1, <3>3
      <4> QED BY <1>6, <3>3, <4>1 DEF row
    <3> QED BY <3>1, <3>2, <3>3
  <2>4. present' <= source'.whole /\ (stage' = "ended" => Len(output') >= present')
    BY <1>0, <1>1, <1>2 DEF RowsInv
  <2>5. \A n \in DOMAIN output' :
          /\ n <= Len(source'.capture.records)
          /\ output'[n] = MeantRow(source'.capture, source'.capture.records[n])
    BY <1>0, <1>1 DEF RowsInv
  <2> QED BY <1>1, <2>2, <2>3, <2>4, <2>5 DEF RowsInv, c
<1> QED BY <1>7, <1>8, <1>9 DEF TableInv

(* A call returns its rows, and the scan ends when it has none.            *)
LEMMA EndCallKeeps ==
  ASSUME TableInv, EndCall
  PROVE  TableInv'
<1>0. TypeOK /\ DiskInv /\ HandleInv /\ RowsInv
  BY DEF TableInv
<1> DEFINE c == source.capture
<1>1. /\ calling /\ (finished \/ Len(chunk) = VectorSize)
      /\ calling' = FALSE /\ chunk' = <<>> /\ output' = output \o chunk
      /\ UNCHANGED <<file, replaced, kind, unmoved, source, linked, present, next, finished>>
      /\ \/ chunk = <<>> /\ stage' = "ended" /\ handle' = "closed"
         \/ chunk # <<>> /\ stage' = stage /\ handle' = handle
  BY DEF EndCall, Destroy, disk, detected
<1>2. stage = "scan" /\ handle = "open"
  BY <1>0, <1>1 DEF HandleInv
<1>3. /\ chunk \in Seq(Row) /\ Len(chunk) \in Nat /\ DOMAIN chunk = 1..Len(chunk)
      /\ output \in Seq(Row) /\ Len(output) \in Nat /\ DOMAIN output = 1..Len(output)
      /\ VectorSize \in Nat \ {0} /\ next \in Nat /\ present \in Nat
      /\ source.whole \in Nat /\ source.whole <= Len(c.records) /\ Len(c.records) \in Nat
  BY <1>0, FileParts, TableAssumption DEF TypeOK
<1>4. /\ output' \in Seq(Row) /\ Len(output') = Len(output) + Len(chunk)
      /\ DOMAIN output' = 1..(Len(output) + Len(chunk))
      /\ \A n \in 1..Len(output) : output'[n] = output[n]
      /\ \A n \in 1..(Len(output) + Len(chunk)) :
            n > Len(output) => output'[n] = chunk[n - Len(output)]
  <2>1. output \o chunk \in Seq(Row) /\ Len(output \o chunk) = Len(output) + Len(chunk)
    BY <1>3
  <2>2. DOMAIN (output \o chunk) = 1..(Len(output) + Len(chunk))
    BY <1>3
  <2>3. \A n \in 1..(Len(output) + Len(chunk)) :
          (output \o chunk)[n] = IF n <= Len(output) THEN output[n] ELSE chunk[n - Len(output)]
    BY <1>3
  <2>4. \A n \in 1..Len(output) : n \in 1..(Len(output) + Len(chunk)) /\ n <= Len(output)
    BY <1>3
  <2>5. \A n \in 1..(Len(output) + Len(chunk)) : n > Len(output) => ~ (n <= Len(output))
    BY <1>3
  <2> QED BY <1>1, <2>1, <2>2, <2>3, <2>4, <2>5
<1>5. <<>> \in Seq(Row) /\ Len(<<>>) = 0 /\ 0 <= VectorSize
  BY <1>3
<1>6. TypeOK'
  <2>1. chunk' \in Seq(Row) /\ Len(chunk') <= VectorSize
    BY <1>1, <1>5
  <2>2. stage' \in {"bind", "init", "open", "scan"} \cup Over
        /\ handle' \in {"none", "open", "closed", "leaked"}
    BY <1>1, <1>2 DEF Over
  <2>3. calling' \in BOOLEAN
    BY <1>1
  <2> QED BY <1>0, <1>1, <1>4, <2>1, <2>2, <2>3 DEF TypeOK
<1>7. DiskInv' /\ HandleInv'
  BY <1>0, <1>1, <1>2 DEF DiskInv, HandleInv, Over
<1>8. RowsInv'
  <2> HIDE DEF c
  <2>1. /\ Len(output) + Len(chunk) = next - 1 /\ next - 1 <= source.whole
        /\ present <= source.whole /\ (finished => next - 1 >= present)
    BY <1>0, <1>2 DEF RowsInv
  <2>2. ASSUME NEW n \in DOMAIN output'
        PROVE  n <= Len(c.records) /\ output'[n] = MeantRow(c, c.records[n])
    <3>1. n \in Nat /\ n <= next - 1 /\ n <= Len(c.records)
      BY <1>3, <1>4, <2>1
    <3>2. CASE n \in 1..Len(output)
      BY <1>0, <1>3, <1>4, <3>1, <3>2 DEF RowsInv, c
    <3>3. CASE n > Len(output)
      <4>1. n - Len(output) \in 1..Len(chunk)
        BY <1>3, <1>4, <3>3
      <4>2. output'[n] = chunk[n - Len(output)]
        BY <1>4, <3>3
      <4>3. Len(output) + (n - Len(output)) = n
        BY <1>3, <3>1
      <4>4. chunk[n - Len(output)] = MeantRow(c, c.records[Len(output) + (n - Len(output))])
        BY <1>0, <1>2, <1>3, <4>1 DEF RowsInv, c
      <4> QED BY <3>1, <4>2, <4>3, <4>4
    <3>4. n \in 1..Len(output) \/ n > Len(output)
      BY <1>3, <1>4
    <3> QED BY <3>2, <3>3, <3>4
  <2>3. stage' = "ended" => Len(output') >= present'
    <3>1. ASSUME stage' = "ended" PROVE Len(chunk) = 0 /\ finished
      BY <1>1, <1>2, <1>3, <3>1
    <3> QED BY <1>1, <1>3, <1>4, <2>1, <3>1
  <2>4. Len(output') + Len(chunk') = next' - 1 /\ DOMAIN chunk' = {}
    <3>1. Len(chunk') = 0 /\ DOMAIN chunk' = {} /\ next' = next
      BY <1>1, <1>5
    <3> QED BY <1>3, <1>4, <2>1, <3>1
  <2> QED BY <1>1, <2>1, <2>2, <2>3, <2>4 DEF RowsInv, c
<1> QED BY <1>6, <1>7, <1>8 DEF TableInv

(* The other steps of the scan keep the invariant.                         *)
LEMMA ScanKeeps ==
  ASSUME TableInv, BeginCall \/ ReadEnd \/ ReadTruncated \/ CallFinished \/ Cancel
  PROVE  TableInv'
<1>0. TypeOK /\ DiskInv /\ HandleInv /\ RowsInv
  BY DEF TableInv
<1>1. /\ stage = "scan"
      /\ UNCHANGED <<file, replaced, kind, unmoved, source, linked, present, next, output>>
      /\ chunk' \in {chunk, <<>>} /\ calling' \in BOOLEAN /\ finished' \in BOOLEAN
      /\ stage' \in {"scan", "ended", "failed", "cancelled"}
      /\ stage' = "scan" => handle' = "open" /\ chunk' = chunk
      /\ stage' # "scan" => handle' = "closed" /\ ~ calling'
      /\ ~ calling' => chunk' = <<>>
      /\ finished' => finished \/ next > source.whole
      /\ stage' = "ended" => finished /\ chunk = <<>>
  <2>0. /\ calling => stage = "scan"
        /\ stage = "scan" => handle = "open"
        /\ ~ calling => chunk = <<>>
        /\ calling \in BOOLEAN /\ finished \in BOOLEAN
    BY <1>0 DEF HandleInv, TypeOK
  <2>1. CASE BeginCall
    BY <2>0, <2>1 DEF BeginCall, disk, detected, reader
  <2>2. CASE ReadEnd
    BY <2>0, <2>2 DEF ReadEnd, MayRead, disk, detected, reader
  <2>3. CASE ReadTruncated
    BY <2>0, <2>3 DEF ReadTruncated, MayRead, Destroy, disk, detected
  <2>4. CASE CallFinished
    BY <2>0, <2>4 DEF CallFinished, Destroy, disk, detected, call
  <2>5. CASE Cancel
    BY <2>0, <2>5 DEF Cancel, Destroy, disk, detected, call
  <2> QED BY <2>1, <2>2, <2>3, <2>4, <2>5
<1>2. <<>> \in Seq(Row) /\ Len(<<>>) = 0 /\ VectorSize \in Nat
  BY TableAssumption
<1>3. TypeOK'
  <2>1. chunk' \in Seq(Row) /\ Len(chunk') <= VectorSize
    <3>1. CASE chunk' = chunk
      BY <1>0, <3>1 DEF TypeOK
    <3>2. CASE chunk' = <<>>
      BY <1>2, <3>2
    <3> QED BY <1>1, <3>1, <3>2
  <2>2. stage' \in {"bind", "init", "open", "scan"} \cup Over
        /\ handle' \in {"none", "open", "closed", "leaked"}
    BY <1>1 DEF Over
  <2> QED BY <1>0, <1>1, <2>1, <2>2 DEF TypeOK
<1>4. DiskInv' /\ HandleInv'
  BY <1>0, <1>1 DEF DiskInv, HandleInv, Over
<1>5. RowsInv'
  <2>1. /\ source.whole \in Nat /\ next \in Nat /\ present \in Nat
        /\ output \in Seq(Row) /\ Len(output) \in Nat
    BY <1>0, FileParts DEF TypeOK
  <2>2. /\ Len(output) + Len(chunk) = next - 1 /\ next - 1 <= source.whole
        /\ present <= source.whole /\ (finished => next - 1 >= present)
    BY <1>0, <1>1 DEF RowsInv
  <2>3. finished' => next - 1 >= present
    BY <1>1, <2>1, <2>2
  <2>4. stage' = "ended" => Len(output) >= present
    <3>1. ASSUME stage' = "ended" PROVE Len(chunk) = 0 /\ finished
      BY <1>1, <1>2, <3>1
    <3> QED BY <2>1, <2>2, <3>1
  <2> QED BY <1>0, <1>1, <2>2, <2>3, <2>4 DEF RowsInv
<1> QED BY <1>3, <1>4, <1>5 DEF TableInv

(* Every step keeps the invariant.                                         *)
LEMMA NextTableInv == TableInv /\ [Next]_vars => TableInv'
<1> SUFFICES ASSUME TableInv, [Next]_vars
             PROVE  TableInv'
  OBVIOUS
<1>1. CASE UNCHANGED vars
  BY <1>1 DEF vars, disk, detected, reader, call, TableInv, TypeOK, DiskInv, SoundFile, HandleInv, RowsInv
<1>2. CASE Next
  BY <1>2, OpeningKeeps, DiskKeeps, ReadRowKeeps, EndCallKeeps, ScanKeeps DEF Next, Scan
<1> QED BY <1>1, <1>2

(***************************************************************************)
(* Types, and the handle of the reader.                                    *)
(***************************************************************************)

(* The variables of a scan have their types, whatever captures are put at  *)
(* the path.                                                               *)
THEOREM TableTypeCorrect == Spec => []TypeOK
<1>1. TableInv => TypeOK
  BY DEF TableInv
<1> QED BY <1>1, InitTableInv, NextTableInv, PTL DEF Spec

(* The reader is closed when the scan is over, whichever way it ended.     *)
THEOREM ReaderClosed == Spec => []HandleClosed
<1>1. TableInv => HandleClosed
  BY DEF TableInv, HandleInv, HandleClosed
<1> QED BY <1>1, InitTableInv, NextTableInv, PTL DEF Spec

(* The only step that leaks a file is the open of a classic reader whose   *)
(* file is not the one that the first open saw, or has half a header.      *)
LEMMA LeakStep ==
  ASSUME TableInv, [Next]_vars, handle = "none", handle' = "leaked"
  PROVE  ~ unmoved \/ file.head = "magic"
<1>1. DiskInv /\ HandleInv
  BY DEF TableInv
<1>2. OpenReader
  <2>1. ~ UNCHANGED handle
    OBVIOUS
  <2>2. ~ (ReadTruncated \/ EndCall \/ CallFinished \/ Cancel)
    BY <1>1 DEF ReadTruncated, EndCall, CallFinished, Cancel, Destroy
  <2>3. ~ (Grow \/ Replace \/ BeginCall \/ ReadRow \/ ReadEnd \/ DetectCaptureFormat)
        /\ ~ \E inputs \in Arguments : ReadPqcapPacketsBind(inputs)
    BY <2>1 DEF Grow, Replace, BeginCall, ReadRow, ReadEnd, DetectCaptureFormat,
                ReadPqcapPacketsBind, reader
  <2>4. ~ UNCHANGED vars
    BY <2>1 DEF vars, reader
  <2> QED BY <2>2, <2>3, <2>4 DEF Next, Scan
<1>3. ~ (file.head = "whole" /\ file.capture.format = kind) /\ stage = "open"
  BY <1>2 DEF OpenReader
<1> QED BY <1>1, <1>3 DEF DiskInv

(* A file with a whole header that stays at the path from the first open   *)
(* to the second never leaks, whatever was at the path before.             *)
THEOREM LeaksHaveCause == Spec => LeakHasCause
<1>1. TableInv /\ [Next]_vars =>
        [handle = "none" /\ handle' = "leaked" => ~ unmoved \/ file.head = "magic"]_vars
  BY LeakStep
<1> QED BY <1>1, InitTableInv, NextTableInv, PTL DEF Spec, LeakHasCause

(***************************************************************************)
(* The refinement of PacketStream.                                         *)
(***************************************************************************)

(* The rows of a capture.                                                  *)
LEMMA MeantRowsFacts ==
  ASSUME NEW c \in Capture
  PROVE  /\ MeantRows(c) \in Seq(Row)
         /\ Len(MeantRows(c)) = Len(c.records) /\ Len(c.records) \in Nat
         /\ \A n \in 1..Len(c.records) : MeantRows(c)[n] = MeantRow(c, c.records[n])
<1>1. c.records \in Seq(Record)
  BY DEF Capture
<1>2. Len(c.records) \in Nat /\ \A n \in 1..Len(c.records) : c.records[n] \in Record
  BY <1>1
<1>3. \A n \in 1..Len(c.records) : MeantRow(c, c.records[n]) \in Row
  BY <1>2, MeantRowType
<1> QED BY <1>2, <1>3 DEF MeantRows

(* Two sequences of the same length with the same elements are one.        *)
LEMMA EqualSeqs ==
  ASSUME NEW S, NEW s \in Seq(S), NEW t \in Seq(S), Len(s) = Len(t),
         \A n \in 1..Len(s) : s[n] = t[n]
  PROVE  s = t
OBVIOUS

(* Rows that are those of a capture, one by one, are its first rows.       *)
LEMMA RowsArePrefix ==
  ASSUME NEW c \in Capture, NEW out \in Seq(Row),
         \A n \in DOMAIN out : n <= Len(c.records) /\ out[n] = MeantRow(c, c.records[n])
  PROVE  /\ Len(out) <= Len(MeantRows(c))
         /\ out = SubSeq(MeantRows(c), 1, Len(out))
<1> DEFINE m == MeantRows(c)
<1>1. Len(out) \in Nat /\ DOMAIN out = 1..Len(out)
  OBVIOUS
<1>2. /\ m \in Seq(Row) /\ Len(m) = Len(c.records) /\ Len(m) \in Nat
      /\ \A n \in 1..Len(m) : m[n] = MeantRow(c, c.records[n])
  BY MeantRowsFacts
<1> HIDE DEF m
<1>3. Len(out) <= Len(m)
  <2>1. CASE Len(out) = 0
    BY <1>2, <2>1
  <2>2. CASE Len(out) # 0
    <3>1. Len(out) \in DOMAIN out
      BY <1>1, <2>2
    <3> QED BY <1>2, <3>1
  <2> QED BY <2>1, <2>2
<1>4. /\ SubSeq(m, 1, Len(out)) \in Seq(Row)
      /\ Len(SubSeq(m, 1, Len(out))) = Len(out)
      /\ \A n \in 1..Len(out) : SubSeq(m, 1, Len(out))[n] = m[n]
  BY <1>1, <1>2, <1>3
<1>5. \A n \in 1..Len(out) : n \in 1..Len(m) /\ out[n] = m[n]
  BY <1>1, <1>2, <1>3
<1>6. out = SubSeq(m, 1, Len(out))
  BY <1>4, <1>5, EqualSeqs
<1> QED BY <1>3, <1>6 DEF m

(* Steps that a query does not see.                                        *)
LEMMA UnseenStep ==
  ASSUME UNCHANGED <<present, output>>, handle' = handle, source'.capture = source.capture,
         \/ stage' = stage
         \/ {stage, stage'} \subseteq {"bind", "init", "open"}
  PROVE  UNCHANGED Stream!vars
<1>1. (IF WasOpened THEN MeantRows(source.capture) ELSE <<>>)'
        = (IF WasOpened THEN MeantRows(source.capture) ELSE <<>>)
  BY DEF WasOpened
<1> QED BY <1>1 DEF Stream!vars

(* Every step of the scan is one of the stream, or none.                   *)
LEMMA NextStreams ==
  ASSUME TableInv, TableInv', [Next]_vars
  PROVE  [Stream!Next]_(Stream!vars)
<1>0. TypeOK /\ DiskInv /\ HandleInv /\ RowsInv
  BY DEF TableInv
<1> USE DEF Over
<1>1. CASE \E inputs \in Arguments : ReadPqcapPacketsBind(inputs)
  <2>1. /\ stage = "bind" /\ stage' \in {"init", "failed"}
        /\ UNCHANGED <<present, output, handle, source>>
    BY <1>1 DEF ReadPqcapPacketsBind, reader, call
  <2>2. CASE stage' = "init"
    BY <2>1, <2>2, UnseenStep
  <2>3. CASE stage' = "failed"
    <3>1. Stream!Fail
      BY <2>1, <2>3 DEF Stream!Fail, WasOpened
    <3> QED BY <3>1 DEF Stream!Next
  <2> QED BY <2>1, <2>2, <2>3
<1>2. CASE DetectCaptureFormat
  <2>1. /\ stage = "init" /\ stage' \in {"open", "failed"}
        /\ UNCHANGED <<present, output, handle, source>>
    BY <1>2 DEF DetectCaptureFormat, reader, call
  <2>2. CASE stage' = "open"
    BY <2>1, <2>2, UnseenStep
  <2>3. CASE stage' = "failed"
    <3>1. Stream!Fail
      BY <2>1, <2>3 DEF Stream!Fail, WasOpened
    <3> QED BY <3>1 DEF Stream!Next
  <2> QED BY <2>1, <2>2, <2>3
<1>3. CASE OpenReader
  <2>1. stage = "open" /\ handle = "none" /\ output' = output
    BY <1>0, <1>3 DEF OpenReader, HandleInv, call
  <2>2. CASE stage' = "scan"
    <3>1. handle' = "open" /\ source' = file /\ present' = file.whole
      BY <1>3, <2>2 DEF OpenReader
    <3>2. /\ file.capture \in Captures /\ file.capture \in Capture /\ file.whole \in Nat
          /\ file.whole <= Len(file.capture.records) /\ Len(file.capture.records) \in Nat
      BY <1>0, FileParts DEF TypeOK
    <3>3. present' \in 0..Len(MeantRows(file.capture))
      BY <3>1, <3>2, MeantRowsFacts
    <3>4. (IF WasOpened THEN MeantRows(source.capture) ELSE <<>>)' = MeantRows(file.capture)
      BY <3>1 DEF WasOpened
    <3>5. Stream!Open
      BY <2>1, <2>2, <3>2, <3>3, <3>4 DEF Stream!Open
    <3> QED BY <3>5 DEF Stream!Next
  <2>3. CASE stage' # "scan"
    <3>1. stage' = "failed" /\ handle' \in {"leaked", "none"} /\ present' = present
      BY <1>3, <2>3 DEF OpenReader
    <3>2. Stream!Fail
      BY <2>1, <3>1 DEF Stream!Fail, WasOpened
    <3> QED BY <3>2 DEF Stream!Next
  <2> QED BY <2>2, <2>3
<1>4. CASE BeginCall \/ ReadRow \/ ReadEnd
  BY <1>4, UnseenStep DEF BeginCall, ReadRow, ReadEnd, reader
<1>5. CASE ReadTruncated
  <2>1. /\ stage = "scan" /\ handle = "open" /\ source.cut = "data"
        /\ stage' = "failed" /\ handle' = "closed" /\ UNCHANGED <<source, present, output>>
    BY <1>0, <1>5 DEF ReadTruncated, MayRead, Destroy, HandleInv
  <2>2. present < Len(MeantRows(source.capture))
    <3>1. source.whole < Len(source.capture.records) /\ present <= source.whole
      BY <1>0, <2>1 DEF DiskInv, SoundFile, RowsInv
    <3>2. /\ source.whole \in Nat /\ source.capture \in Capture /\ present \in Nat
      BY <1>0, FileParts DEF TypeOK
    <3>3. Len(MeantRows(source.capture)) = Len(source.capture.records)
          /\ Len(source.capture.records) \in Nat
      BY <3>2, MeantRowsFacts
    <3> QED BY <3>1, <3>2, <3>3
  <2>3. Stream!Fail
    BY <2>1, <2>2 DEF Stream!Fail, WasOpened
  <2> QED BY <2>3 DEF Stream!Next
<1>6. CASE EndCall
  <2>1. /\ stage = "scan" /\ handle = "open" /\ output' = output \o chunk
        /\ UNCHANGED <<source, present>>
        /\ finished \/ Len(chunk) = VectorSize
    BY <1>0, <1>6 DEF EndCall, HandleInv
  <2>2. /\ chunk \in Seq(Row) /\ Len(chunk) \in Nat /\ Len(chunk) <= VectorSize
        /\ output \in Seq(Row) /\ Len(output) \in Nat /\ VectorSize \in Nat \ {0}
    BY <1>0, TableAssumption DEF TypeOK
  <2>3. CASE chunk = <<>>
    <3>1. stage' = "ended" /\ handle' = "closed" /\ output' = output /\ finished
      <4>1. output \o <<>> = output
        BY <2>2
      <4>2. finished
        BY <2>1, <2>2, <2>3
      <4> QED BY <1>6, <2>1, <2>3, <4>1, <4>2 DEF EndCall, Destroy
    <3>2. Len(output) >= present
      <4>1. Len(output') >= present'
        BY <3>1 DEF TableInv, RowsInv
      <4> QED BY <2>1, <3>1, <4>1
    <3>3. Stream!End
      BY <2>1, <3>1, <3>2 DEF Stream!End, WasOpened
    <3> QED BY <3>3 DEF Stream!Next
  <2>4. CASE chunk # <<>>
    <3>1. stage' = stage /\ handle' = handle
      BY <1>6, <2>4 DEF EndCall
    <3>2. Len(chunk) # 0 /\ Len(output') = Len(output) + Len(chunk)
      BY <2>1, <2>2, <2>4
    <3>3. Len(output') \in (Len(output) + 1)..(Len(output) + VectorSize)
      BY <2>2, <3>2
    <3>4. /\ Len(output') <= Len(MeantRows(source.capture))
          /\ output' = SubSeq(MeantRows(source.capture), 1, Len(output'))
      <4>1. /\ output' \in Seq(Row) /\ source.capture \in Capture
            /\ \A n \in DOMAIN output' :
                  /\ n <= Len(source.capture.records)
                  /\ output'[n] = MeantRow(source.capture, source.capture.records[n])
        BY <1>0, <2>1, FileParts DEF TableInv, TypeOK, RowsInv
      <4> QED BY <4>1, RowsArePrefix
    <3>5. Stream!Deliver
      BY <2>1, <3>1, <3>3, <3>4 DEF Stream!Deliver, WasOpened
    <3> QED BY <3>5 DEF Stream!Next
  <2> QED BY <2>3, <2>4
<1>7. CASE CallFinished
  <2>1. /\ stage = "scan" /\ handle = "open" /\ stage' = "ended" /\ handle' = "closed"
        /\ UNCHANGED <<source, present, output>>
    BY <1>0, <1>7 DEF CallFinished, Destroy, HandleInv, call
  <2>2. Len(output) >= present
    BY <2>1 DEF TableInv, RowsInv
  <2>3. Stream!End
    BY <2>1, <2>2 DEF Stream!End, WasOpened
  <2> QED BY <2>3 DEF Stream!Next
<1>8. CASE Cancel
  <2>1. /\ stage = "scan" /\ handle = "open" /\ stage' = "cancelled" /\ handle' = "closed"
        /\ UNCHANGED <<source, present, output>>
    BY <1>0, <1>8 DEF Cancel, Destroy, HandleInv, call
  <2>2. Stream!Cancel
    BY <2>1 DEF Stream!Cancel, WasOpened
  <2> QED BY <2>2 DEF Stream!Next
<1>9. CASE Grow
  <2>1. source'.capture = source.capture
    <3>1. file'.capture = file.capture
      BY <1>0, <1>9, LongerSound DEF Grow, DiskInv
    <3> QED BY <1>0, <1>9, <3>1 DEF Grow, DiskInv
  <2> QED BY <1>9, <2>1, UnseenStep DEF Grow, call
<1>10. CASE Replace
  BY <1>10, UnseenStep DEF Replace, call
<1>11. CASE UNCHANGED vars
  BY <1>11, UnseenStep DEF vars, reader, call
<1> QED BY <1>1, <1>2, <1>3, <1>4, <1>5, <1>6, <1>7, <1>8, <1>9, <1>10, <1>11 DEF Next, Scan

(* Nothing has been delivered when the function is bound.                  *)
LEMMA InitStreams == Init => Stream!Init
BY DEF Init, Stream!Init, WasOpened

(* The scan of a capture implements the packet stream: every packet once,  *)
(* in order, as it was meant, and none that was there left out.            *)
THEOREM TableStreams == Spec => ImplementsStream
<1>1. TableInv /\ TableInv' /\ [Next]_vars => [Stream!Next]_(Stream!vars)
  BY NextStreams
<1> QED BY <1>1, InitTableInv, NextTableInv, InitStreams, PTL
        DEF Spec, ImplementsStream, Stream!Spec

(***************************************************************************)
(* The COPY drives the scan.                                               *)
(***************************************************************************)

(* Every step of the COPY is a step of the scan, or none.                  *)
LEMMA RepackSteps == [RepackNext]_repackVars => [Next]_vars
BY DEF RepackNext, repackVars, Source, SinkRow, PipelineEnds, Abort, Interrupt, Disk, Next

(* A COPY from a capture is a scan of it, so that what is proved of the    *)
(* scan holds there: each packet once, in order, as it was meant, and none *)
(* that was there at the open left out.                                    *)
THEOREM RepackScans == RepackSpec => ImplementsStream
<1>1. RepackInit => Init
  BY DEF RepackInit
<1>2. RepackSpec => Spec
  BY <1>1, RepackSteps, PTL DEF RepackSpec, Spec
<1> QED BY <1>2, TableStreams

(* The reader of a COPY is closed when its scan is over, also when the     *)
(* sink threw.                                                             *)
THEOREM RepackClosesReader == RepackSpec => []HandleClosed
<1>1. RepackInit => Init
  BY DEF RepackInit
<1>2. RepackSpec => Spec
  BY <1>1, RepackSteps, PTL DEF RepackSpec, Spec
<1> QED BY <1>2, ReaderClosed

(***************************************************************************)
(* What is written.                                                        *)
(***************************************************************************)
PacketHeader == [interface_id : Nat, data_link : Nat, captured_length : Nat,
                 original_length : Nat, tv_sec : Nat, tv_nsec : Nat, comment : {NULL},
                 data : Payload]

(* Whole seconds and the rest make the time.                               *)
LEMMA Seconds ==
  ASSUME NEW t \in Nat, NEW q \in Nat, NEW u \in Nat, q = t \div 1000000, u = t % 1000000
  PROVE  q * 1000000 + u = t
BY SMT

(* The header of a row that is not refused, with the time of the row and   *)
(* the rest of a second in its nanoseconds.                                *)
LEMMA HeaderFacts ==
  ASSUME NEW row \in Row, row.payload # NULL
  PROVE  LET h == WrittenHeader(row)
         IN  /\ h \in PacketHeader
             /\ h.tv_sec * 1000000 + h.tv_nsec \div 1000 = row.timestamp_micros
             /\ h.tv_nsec < 1000000000
             /\ h.data = row.payload.data
             /\ h.captured_length = row.payload.size
             /\ h.original_length = row.orig_len
             /\ h.interface_id = row.interface_id
             /\ h.data_link = (IF row.data_link = 0 THEN Linktype ELSE row.data_link)
             /\ h.comment = NULL
<1> DEFINE t == row.timestamp_micros
           h == WrittenHeader(row)
<1>1. /\ t \in Nat /\ row.data_link \in Nat /\ row.orig_len \in Nat
      /\ row.interface_id \in Nat /\ row.payload \in {NULL} \cup Blob
  BY DEF Row
<1>2. row.payload.data \in Payload /\ row.payload.size \in Nat
  <2>1. row.payload \in Blob
    BY <1>1
  <2> QED BY <2>1 DEF Blob
<1>3. /\ h.tv_sec = t \div 1000000 /\ h.tv_nsec = (t % 1000000) * 1000
      /\ h.data_link = (IF row.data_link = 0 THEN Linktype ELSE row.data_link)
      /\ h.interface_id = row.interface_id /\ h.comment = NULL
      /\ h.original_length = row.orig_len /\ h.captured_length = row.payload.size
      /\ h.data = row.payload.data
  BY SMT DEF WrittenHeader
<1>4. Linktype \in Nat
  BY LinktypeAssumption, Bases
<1>5. h = [interface_id |-> h.interface_id, data_link |-> h.data_link,
           captured_length |-> h.captured_length, original_length |-> h.original_length,
           tv_sec |-> h.tv_sec, tv_nsec |-> h.tv_nsec, comment |-> h.comment, data |-> h.data]
  BY SMT DEF WrittenHeader
<1> HIDE DEF h, t
<1>6. h.tv_sec \in Nat /\ h.tv_nsec \in Nat
  BY <1>1, <1>3, SMT
<1>7. h.data_link \in Nat
  BY <1>1, <1>3, <1>4
<1>8. h.interface_id \in Nat /\ h.captured_length \in Nat /\ h.original_length \in Nat
      /\ h.comment \in {NULL} /\ h.data \in Payload
  BY <1>1, <1>2, <1>3
<1>9. h \in PacketHeader
  BY <1>5, <1>6, <1>7, <1>8 DEF PacketHeader
<1>10. h.tv_sec * 1000000 + h.tv_nsec \div 1000 = t /\ h.tv_nsec < 1000000000
  <2> DEFINE q == t \div 1000000
             u == t % 1000000
  <2>1. q \in Nat /\ u \in Nat /\ u < 1000000
    BY <1>1, SMT
  <2>2. h.tv_sec = q /\ h.tv_nsec = u * 1000
    BY <1>3, SMT
  <2>3. q * 1000000 + u = t
    BY <1>1, <2>1, Seconds, SMT
  <2> HIDE DEF q, u
  <2>4. (u * 1000) \div 1000 = u /\ u * 1000 < 1000000000
    BY <2>1, SMT
  <2> QED BY <2>2, <2>3, <2>4, SMT
<1> QED BY <1>3, <1>9, <1>10 DEF h, t

(***************************************************************************)
(* The invariant of the sink.                                              *)
(***************************************************************************)

(* What has been written are the rows that the sink has been through, all  *)
(* of them unless it refused the last.                                     *)
SinkInv ==
  /\ copy \in {"running", "done", "failed"}
  /\ handed \in 0..Len(output)
  /\ written \in Seq(PacketHeader)
  /\ Len(written) <= handed
  /\ copy # "failed" => Len(written) = handed
  /\ copy = "done" => handed = Len(output) /\ stage = "ended"
  /\ \A n \in DOMAIN written :
       written[n] = WrittenHeader(output[n]) /\ output[n].payload # NULL

RepackInv == TableInv /\ SinkInv

(* A scan takes no row back, and has none to add once it has ended.        *)
LEMMA OutputGrows ==
  ASSUME TableInv, [Next]_vars
  PROVE  /\ output \in Seq(Row) /\ output' \in Seq(Row)
         /\ Len(output) \in Nat /\ Len(output') \in Nat /\ Len(output) <= Len(output')
         /\ DOMAIN output = 1..Len(output)
         /\ \A n \in 1..Len(output) : output'[n] = output[n]
         /\ stage = "ended" => stage' = "ended" /\ output' = output
<1>1. output \in Seq(Row) /\ output' \in Seq(Row) /\ chunk \in Seq(Row)
  BY NextTableInv DEF TableInv, TypeOK
<1>2. output' = output \/ (EndCall /\ output' = output \o chunk)
  BY DEF Next, Scan, ReadPqcapPacketsBind, DetectCaptureFormat, OpenReader, BeginCall, ReadRow,
         ReadEnd, ReadTruncated, EndCall, CallFinished, Cancel, Grow, Replace, vars, call
<1>3. stage = "ended" => stage' = "ended" /\ output' = output
  <2>1. calling => stage = "scan"
    BY DEF TableInv, HandleInv
  <2> QED BY <2>1 DEF Next, Scan, ReadPqcapPacketsBind, DetectCaptureFormat, OpenReader, BeginCall,
         ReadRow, ReadEnd, ReadTruncated, EndCall, CallFinished, Cancel, Grow, Replace, MayRead,
         vars, call
<1>4. /\ Len(output \o chunk) = Len(output) + Len(chunk)
      /\ \A n \in 1..Len(output) : (output \o chunk)[n] = output[n]
      /\ Len(output) \in Nat /\ Len(chunk) \in Nat /\ DOMAIN output = 1..Len(output)
  BY <1>1
<1>5. Len(output) <= Len(output') /\ Len(output') \in Nat
      /\ \A n \in 1..Len(output) : output'[n] = output[n]
  <2>1. CASE output' = output
    BY <1>4, <2>1
  <2>2. CASE output' = output \o chunk
    BY <1>4, <2>2
  <2> QED BY <1>2, <2>1, <2>2
<1> QED BY <1>1, <1>3, <1>4, <1>5

(* Every step of the COPY keeps the invariant.                             *)
LEMMA NextRepackInv == RepackInv /\ [RepackNext]_repackVars => RepackInv'
<1> SUFFICES ASSUME RepackInv, [RepackNext]_repackVars
             PROVE  RepackInv'
  OBVIOUS
<1>1. TableInv /\ SinkInv /\ [Next]_vars /\ TableInv'
  BY RepackSteps, NextTableInv DEF RepackInv
<1>2. /\ Len(output) \in Nat /\ Len(output') \in Nat /\ Len(output) <= Len(output')
      /\ \A n \in 1..Len(output) : output'[n] = output[n]
      /\ output \in Seq(Row) /\ DOMAIN output = 1..Len(output)
      /\ stage = "ended" => stage' = "ended" /\ output' = output
  BY <1>1, OutputGrows
<1>3. /\ handed \in Nat /\ handed <= Len(output) /\ written \in Seq(PacketHeader)
      /\ Len(written) \in Nat /\ Len(written) <= handed
      /\ DOMAIN written = 1..Len(written)
      /\ copy \in {"running", "done", "failed"}
      /\ copy # "failed" => Len(written) = handed
      /\ copy = "done" => handed = Len(output) /\ stage = "ended"
      /\ \A n \in 1..Len(written) : /\ written[n] = WrittenHeader(output[n])
                                    /\ output[n].payload # NULL
  <2>1. written \in Seq(PacketHeader) /\ handed \in 0..Len(output)
    BY <1>1 DEF SinkInv
  <2>2. handed \in Nat /\ handed <= Len(output)
    BY <1>2, <2>1
  <2>3. Len(written) \in Nat /\ DOMAIN written = 1..Len(written)
    BY <2>1
  <2> QED BY <1>1, <2>1, <2>2, <2>3 DEF SinkInv
<1>4. \A n \in 1..Len(written) : n \in 1..Len(output)
  <2>1. /\ Len(written) \in Nat /\ Len(output) \in Nat /\ handed \in Nat
        /\ Len(written) <= handed /\ handed <= Len(output)
    BY <1>2, <1>3
  <2> QED BY <2>1
<1>5. \A n \in 1..Len(written) :
        written[n] = WrittenHeader(output'[n]) /\ output'[n].payload # NULL
  BY <1>2, <1>3, <1>4
<1>6. CASE UNCHANGED <<handed, written>> /\ copy' \in {copy, "failed"}
  <2>1. handed' \in 0..Len(output')
    <3>1. /\ handed \in Nat /\ Len(output) \in Nat /\ Len(output') \in Nat
          /\ handed <= Len(output) /\ Len(output) <= Len(output') /\ handed' = handed
      BY <1>2, <1>3, <1>6
    <3> QED BY <3>1
  <2>2. copy' = "done" => handed' = Len(output') /\ stage' = "ended"
    BY <1>2, <1>3, <1>6
  <2>3. SinkInv'
    BY <1>3, <1>5, <1>6, <2>1, <2>2 DEF SinkInv
  <2> QED BY <1>1, <2>3 DEF RepackInv
<1>7. CASE PipelineEnds
  <2>1. /\ copy = "running" /\ handed = Len(output) /\ UNCHANGED <<handed, written, stage, output>>
        /\ copy' = IF stage = "ended" THEN "done" ELSE "failed"
    BY <1>7 DEF PipelineEnds, vars, call
  <2>2. handed' \in 0..Len(output')
    <3>1. /\ handed \in Nat /\ Len(output) \in Nat
          /\ handed <= Len(output) /\ output' = output /\ handed' = handed
      BY <1>2, <1>3, <2>1
    <3> QED BY <3>1
  <2>3. /\ copy' \in {"running", "done", "failed"}
        /\ copy' # "failed" => Len(written') = handed'
        /\ copy' = "done" => handed' = Len(output') /\ stage' = "ended"
    BY <1>3, <2>1
  <2>4. SinkInv'
    BY <1>3, <1>5, <2>1, <2>2, <2>3 DEF SinkInv
  <2> QED BY <1>1, <2>4 DEF RepackInv
<1>8. CASE SinkRow
  <2> DEFINE row == output[handed + 1]
  <2>1. /\ copy = "running" /\ handed < Len(output) /\ handed' = handed + 1
        /\ output' = output
        /\ \/ copy' = "failed" /\ written' = written
           \/ /\ row.payload # NULL /\ copy' = "running"
              /\ written' = Append(written, WrittenHeader(row))
    BY <1>8 DEF SinkRow, vars, call
  <2>2. handed + 1 \in 1..Len(output) /\ handed' \in 0..Len(output')
    BY <1>2, <1>3, <2>1
  <2>3. row \in Row /\ (row.payload # NULL => WrittenHeader(row) \in PacketHeader)
    BY <1>2, <2>2, HeaderFacts
  <2> HIDE DEF row
  <2>4. CASE written' = written /\ copy' = "failed"
    <3>1. Len(written') <= handed'
      BY <1>3, <2>1, <2>4
    <3> QED BY <1>1, <1>3, <1>5, <2>2, <2>4, <3>1 DEF SinkInv, RepackInv
  <2>5. CASE /\ row.payload # NULL /\ copy' = "running"
             /\ written' = Append(written, WrittenHeader(row))
    <3> DEFINE h == WrittenHeader(row)
    <3>0. h \in PacketHeader
      BY <2>3, <2>5
    <3> HIDE DEF h
    <3>1. /\ written' \in Seq(PacketHeader) /\ Len(written') = Len(written) + 1
          /\ DOMAIN written' = 1..(Len(written) + 1)
          /\ \A n \in 1..Len(written) : written'[n] = written[n]
          /\ written'[Len(written) + 1] = h
      <4>1. written \in Seq(PacketHeader) /\ written' = Append(written, h)
        BY <1>3, <2>5 DEF h
      <4> QED BY <3>0, <4>1
    <3>2. Len(written) = handed
      BY <1>3, <2>1
    <3>3. ASSUME NEW n \in DOMAIN written'
          PROVE  written'[n] = WrittenHeader(output'[n]) /\ output'[n].payload # NULL
      <4>1. n \in 1..Len(written) \/ n = Len(written) + 1
        <5>1. Len(written) \in Nat /\ n \in 1..(Len(written) + 1)
          BY <1>3, <3>1
        <5> QED BY <5>1
      <4>2. CASE n \in 1..Len(written)
        BY <1>5, <3>1, <4>2
      <4>3. CASE n = Len(written) + 1
        BY <2>1, <2>5, <3>1, <3>2, <4>3 DEF h, row
      <4> QED BY <4>1, <4>2, <4>3
    <3>4. Len(written') = handed' /\ Len(written') <= handed'
      BY <1>3, <2>1, <3>1, <3>2
    <3> QED BY <1>1, <2>2, <2>5, <3>1, <3>3, <3>4 DEF SinkInv, RepackInv
  <2> QED BY <2>1, <2>4, <2>5
<1>9. \/ UNCHANGED <<handed, written>> /\ copy' \in {copy, "failed"}
      \/ PipelineEnds
      \/ SinkRow
  BY DEF RepackNext, Source, Abort, Interrupt, Disk, repackVars, sink
<1> QED BY <1>6, <1>7, <1>8, <1>9

(* Nothing has been written at first.                                      *)
LEMMA InitRepackInv == RepackInit => RepackInv
<1> SUFFICES ASSUME RepackInit PROVE SinkInv
  BY InitTableInv DEF RepackInit, RepackInv
<1>1. /\ copy = "running" /\ handed = 0 /\ written = <<>> /\ output = <<>>
  BY DEF RepackInit, Init
<1>2. <<>> \in Seq(PacketHeader) /\ Len(<<>>) = 0 /\ DOMAIN <<>> = {}
  OBVIOUS
<1> QED BY <1>1, <1>2 DEF SinkInv

(* A COPY from a capture writes packets of the capture, in order, none in  *)
(* between left out, each with its bytes, its lengths, its interface, its  *)
(* time to the microsecond and its link type unless that is 0; comments    *)
(* are left out.                                                           *)
THEOREM RepackIsFaithful == RepackSpec => []RepackFaithful
<1>1. RepackInv => RepackFaithful
  <2> SUFFICES ASSUME RepackInv, NEW n \in DOMAIN written
               PROVE  LET out == written[n]
                          rec == source.capture.records[n]
                          row == MeantRow(source.capture, rec)
                      IN  /\ n <= Len(source.capture.records)
                          /\ out.data = rec.data
                          /\ out.captured_length = Number(rec.incl)
                          /\ out.original_length = Number(rec.orig)
                          /\ out.interface_id = row.interface_id
                          /\ out.data_link = IF row.data_link = 0 THEN Linktype
                                                                 ELSE row.data_link
                          /\ out.tv_sec * 1000000 + out.tv_nsec \div 1000
                                = row.timestamp_micros
                          /\ out.tv_nsec < 1000000000
                          /\ out.comment = NULL
    BY SMT DEF RepackFaithful
  <2> DEFINE rec == source.capture.records[n]
             row == MeantRow(source.capture, rec)
  <2>1. /\ output \in Seq(Row) /\ written \in Seq(PacketHeader) /\ Len(written) <= handed
        /\ handed \in 0..Len(output)
    BY DEF RepackInv, SinkInv, TableInv, TypeOK
  <2>2. n \in DOMAIN output
    <3>1. Len(written) \in Nat /\ Len(output) \in Nat /\ n \in 1..Len(written)
      BY <2>1
    <3>2. n \in 1..Len(output)
      BY <2>1, <3>1
    <3> QED BY <2>1, <3>2
  <2>3. n <= Len(source.capture.records) /\ output[n] = row
    BY <2>2 DEF RepackInv, TableInv, RowsInv
  <2>4. row \in Row
    BY <2>1, <2>2, <2>3
  <2>5. written[n] = WrittenHeader(row) /\ row.payload # NULL
    BY <2>3 DEF RepackInv, SinkInv
  <2>6. /\ row.payload = [data |-> rec.data, size |-> Number(rec.incl)]
        /\ row.orig_len = Number(rec.orig)
    BY <2>5 DEF MeantRow
  <2>7. row.payload.data = rec.data /\ row.payload.size = Number(rec.incl)
    BY <2>6
  <2> HIDE DEF row, rec
  <2>8. LET out == written[n]
        IN  /\ out.tv_sec * 1000000 + out.tv_nsec \div 1000 = row.timestamp_micros
            /\ out.tv_nsec < 1000000000
            /\ out.data = row.payload.data
            /\ out.captured_length = row.payload.size
            /\ out.original_length = row.orig_len
            /\ out.interface_id = row.interface_id
            /\ out.data_link = (IF row.data_link = 0 THEN Linktype ELSE row.data_link)
            /\ out.comment = NULL
    BY <2>4, <2>5, HeaderFacts, SMT
  <2> QED BY <2>3, <2>6, <2>7, <2>8, SMT DEF row, rec
<1> QED BY <1>1, InitRepackInv, NextRepackInv, PTL DEF RepackSpec

(* A COPY that reports success has written every packet that was in its    *)
(* source when that was opened.                                            *)
THEOREM RepackIsWhole == RepackSpec => []RepackWhole
<1>1. RepackInv => RepackWhole
  BY DEF RepackInv, SinkInv, TableInv, RowsInv, RepackWhole
<1> QED BY <1>1, InitRepackInv, NextRepackInv, PTL DEF RepackSpec
=============================================================================
