------------------------- MODULE PqcapSubFileProofs -------------------------
(***************************************************************************)
(* Theorems about PqcapSubFile for every value of its constants: the range *)
(* check of the locator, the reads of a window it has accepted, and the    *)
(* window as an implementation of a read-only file.                        *)
(***************************************************************************)
EXTENDS PqcapSubFile, SequenceTheorems, TLAPS

(* A sum of two 64-bit numbers wraps at most once.                         *)
LEMMA SumWraps ==
  ASSUME NEW m \in Nat \ {0}, NEW a \in 0..(m - 1), NEW b \in 0..(m - 1)
  PROVE  (a + b) % m = IF a + b < m THEN a + b ELSE a + b - m
<1>1. CASE a + b < m
  <2>1. a + b \in 0..(m - 1)
    BY <1>1
  <2> QED BY <1>1, <2>1
<1>2. CASE ~ (a + b < m)
  <2> DEFINE c == a + b - m
  <2>1. c \in 0..(m - 1) /\ a + b = c + m
    BY <1>2
  <2> HIDE DEF c
  <2>2. (c + m) % m = c
    BY <2>1
  <2> QED BY <1>2, <2>1, <2>2
<1> QED BY <1>1, <1>2

(* ParsePqcapMetadataLocation accepts the ranges that are not empty and    *)
(* lie inside the file, and no others: the check for overflow catches      *)
(* every sum that wraps, for every file that is smaller than 2^64 bytes.   *)
THEOREM RangeInsideFile ==
  \A offset, length, file_size \in 0..(U64 - 1) :
    RangeAccepted(offset, length, file_size)
      <=> length # 0 /\ offset + length <= file_size
<1> SUFFICES ASSUME NEW offset \in 0..(U64 - 1), NEW length \in 0..(U64 - 1),
                    NEW file_size \in 0..(U64 - 1)
             PROVE  RangeAccepted(offset, length, file_size)
                      <=> length # 0 /\ offset + length <= file_size
  OBVIOUS
<1>1. U64 \in Nat \ {0}
  BY WidthAssumption
<1>2. (offset + length) % U64
        = IF offset + length < U64 THEN offset + length ELSE offset + length - U64
  BY <1>1, SumWraps
<1>3. CASE offset + length < U64
  BY <1>1, <1>2, <1>3 DEF RangeAccepted
<1>4. CASE ~ (offset + length < U64)
  BY <1>1, <1>2, <1>4 DEF RangeAccepted
<1> QED BY <1>3, <1>4

(***************************************************************************)
(* The invariant.                                                          *)
(***************************************************************************)

(* A handle that read_pqcap opened has its window inside the file; without *)
(* a handle there is no window.                                            *)
InsideFile ==
  /\ located => base + size <= FileSize
  /\ ~ open => ~ located

HandleInv == TypeOK /\ InsideFile /\ LocatedNeverFails

(* What a read of a window delivers.                                       *)
LEMMA WindowReadFacts ==
  ASSUME HandleInv, NEW n \in Nat, NEW location \in 0..(U64 - 1)
  PROVE  LET k == ToRead(n, location)
         IN  /\ k \in 0..size
             /\ k # 0 => location + k <= size
             /\ WindowRead(n, location)
                  = IF k = 0 THEN Success(<<>>, 0)
                    ELSE IF base + location + k <= FileSize
                         THEN Success([i \in 1..k |-> base + location + i - 1], k)
                         ELSE Failure
<1> DEFINE k == ToRead(n, location)
<1>1. U64 \in Nat \ {0} /\ FileSize \in Nat
  BY WidthAssumption, SubFileAssumption
<1>2. size \in Nat /\ base \in Nat /\ base + size <= U64
  BY <1>1 DEF HandleInv, TypeOK
<1>3. k \in 0..size /\ (k # 0 => location + k <= size /\ location < size)
  BY <1>2 DEF ToRead
<1> HIDE DEF k
<1>4. CASE k = 0
  BY <1>3, <1>4 DEF WindowRead, k
<1>5. CASE k # 0
  <2>1. location + base \in 0..(U64 - 1) /\ location + base = base + location
    BY <1>1, <1>2, <1>3, <1>5
  <2>2. (location + base) % U64 = base + location
    BY <1>1, <2>1
  <2>3. WindowRead(n, location) = InnerRead(k, base + location)
    BY <1>5, <2>2 DEF WindowRead, k
  <2>4. InnerRead(k, base + location)
          = IF base + location + k <= FileSize
            THEN Success([i \in 1..k |-> base + location + i - 1], k)
            ELSE Failure
    BY DEF InnerRead
  <2> QED BY <1>3, <1>5, <2>3, <2>4 DEF k
<1> QED BY <1>4, <1>5

(* Answers are answers.                                                    *)
LEMMA AnswerTypes ==
  /\ Failure \in Answer
  /\ \A bytes \in Seq(Nat), number \in Int :
       /\ Success(bytes, number) \in Answer
       /\ Success(bytes, number).ok
       /\ Success(bytes, number).number = number
BY DEF Failure, Success, Answer

(* The answer of a read, and that it is no failure in a located window.    *)
LEMMA WindowReadAnswers ==
  ASSUME HandleInv, NEW n \in Nat, NEW location \in 0..(U64 - 1)
  PROVE  /\ WindowRead(n, location) \in Answer
         /\ WindowRead(n, location).number \in Nat
         /\ location + WindowRead(n, location).number < U64
         /\ located => WindowRead(n, location).ok
<1> DEFINE k == ToRead(n, location)
           w == WindowRead(n, location)
<1>1. U64 \in Nat \ {0} /\ FileSize \in Nat
  BY WidthAssumption, SubFileAssumption
<1>2. size \in 0..(U64 - 1) /\ base \in Nat
  BY <1>1 DEF HandleInv, TypeOK
<1>3. /\ k \in 0..size
      /\ k # 0 => location + k <= size
      /\ w = IF k = 0 THEN Success(<<>>, 0)
             ELSE IF base + location + k <= FileSize
                  THEN Success([i \in 1..k |-> base + location + i - 1], k)
                  ELSE Failure
  BY WindowReadFacts
<1> HIDE DEF k, w
<1>4. <<>> \in Seq(Nat) /\ [i \in 1..k |-> base + location + i - 1] \in Seq(Nat)
  <2>1. k \in Nat /\ \A i \in 1..k : base + location + i - 1 \in Nat
    BY <1>1, <1>2, <1>3
  <2> QED BY <2>1
<1>5. CASE k = 0
  BY <1>1, <1>3, <1>4, <1>5 DEF Success, Answer, w
<1>6. CASE k # 0 /\ base + location + k <= FileSize
  <2>1. w = Success([i \in 1..k |-> base + location + i - 1], k)
    BY <1>3, <1>6
  <2>2. w \in Answer /\ w.ok /\ w.number = k
    <3> DEFINE bytes == [i \in 1..k |-> base + location + i - 1]
    <3>1. k \in Int /\ bytes \in Seq(Nat) /\ w = Success(bytes, k)
      BY <1>2, <1>3, <1>4, <2>1
    <3> HIDE DEF bytes
    <3> QED BY <3>1, AnswerTypes
  <2> QED BY <1>1, <1>2, <1>3, <1>6, <2>2 DEF w
<1>7. CASE k # 0 /\ ~ (base + location + k <= FileSize)
  <2>1. w \in Answer /\ w.number = 0
    BY <1>3, <1>4, <1>7 DEF Failure, Answer
  <2>2. ~ located
    BY <1>1, <1>2, <1>3, <1>7 DEF HandleInv, InsideFile
  <2> QED BY <1>1, <2>1, <2>2 DEF w
<1> QED BY <1>5, <1>6, <1>7

(* Answers without bytes.                                                  *)
LEMMA PlainAnswers ==
  /\ Failure \in Answer
  /\ \A number \in Int : Success(<<>>, number) \in Answer
<1>1. <<>> \in Seq(Nat)
  OBVIOUS
<1> QED BY <1>1, AnswerTypes

(* An open handle has a range that ParseDecimalUint64 can represent and    *)
(* that does not wrap.                                                     *)
LEMMA OpenedRange ==
  ASSUME NEW p \in FooterRange \cup UserRange, NEW from_locator \in BOOLEAN,
         IF from_locator THEN LocatedRange(p) ELSE p \in UserRange,
         ParseDecimalUint64Accepts(p)
  PROVE  /\ p.offset \in 0..(U64 - 1) /\ p.size \in 0..(U64 - 1)
         /\ p.offset + p.size <= U64
         /\ 2 * p.size < U64
         /\ from_locator => p.offset + p.size <= FileSize
<1>1. p.offset \in 0..(U64 - 1) /\ p.size \in 0..(U64 - 1)
  BY SubFileAssumption, WidthAssumption DEF ParseDecimalUint64Accepts, FileRange
<1>2. CASE from_locator
  <2>1. RangeAccepted(p.offset, p.size, FileSize)
    BY <1>2 DEF LocatedRange
  <2>2. FileSize \in 0..(U64 - 1)
    BY SubFileAssumption, WidthAssumption
  <2>3. p.offset + p.size <= FileSize
    BY <1>1, <2>1, <2>2, RangeInsideFile
  <2> QED BY <1>1, <1>2, <2>2, <2>3, SubFileAssumption, WidthAssumption
<1>3. CASE ~ from_locator
  BY <1>1, <1>3, SubFileAssumption DEF ParseDecimalUint64Accepts
<1> QED BY <1>2, <1>3

(* Every call keeps the invariant.                                         *)
LEMMA NextHandleInv == HandleInv /\ [Next]_vars => HandleInv'
<1> SUFFICES ASSUME HandleInv, [Next]_vars
             PROVE  HandleInv'
  OBVIOUS
<1>1. U64 \in Nat \ {0} /\ FileSize \in Nat /\ Count \subseteq Nat
      /\ Location \subseteq 0..(U64 - 1)
  BY WidthAssumption, SubFileAssumption
<1>2. CASE UNCHANGED vars
  BY <1>2 DEF vars, HandleInv, TypeOK, InsideFile, LocatedNeverFails
<1>3. ASSUME NEW p \in FooterRange \cup UserRange, NEW from_locator \in BOOLEAN,
             NEW for_reading \in BOOLEAN, OpenFile(p, from_locator, for_reading)
      PROVE  HandleInv'
  <2>1. CASE for_reading /\ ParseDecimalUint64Accepts(p)
    <3>1. /\ open' = TRUE /\ located' = from_locator /\ base' = p.offset
          /\ size' = p.size /\ seek' = 0 /\ answer' = Success(<<>>, 0)
      BY <1>3, <2>1 DEF OpenFile
    <3>2. /\ p.offset \in 0..(U64 - 1) /\ p.size \in 0..(U64 - 1)
          /\ p.offset + p.size <= U64 /\ 2 * p.size < U64
          /\ from_locator => p.offset + p.size <= FileSize
      BY <1>3, <2>1, OpenedRange DEF OpenFile
    <3>3. answer' \in Answer /\ answer'.ok
      BY <3>1, PlainAnswers DEF Success
    <3> QED BY <1>1, <3>1, <3>2, <3>3 DEF HandleInv, TypeOK, InsideFile, LocatedNeverFails
  <2>2. CASE ~ (for_reading /\ ParseDecimalUint64Accepts(p))
    BY <1>3, <2>2, PlainAnswers
    DEF OpenFile, HandleInv, TypeOK, InsideFile, LocatedNeverFails
  <2> QED BY <2>1, <2>2
<1>4. CASE Close
  <2>1. answer' \in Answer
    BY <1>4, PlainAnswers DEF Close
  <2>2. base' + size' <= U64 /\ 2 * size' < U64 /\ 0 \in 0..(U64 - 1)
    BY <1>1, <1>4 DEF Close
  <2> QED BY <1>4, <2>1, <2>2 DEF Close, HandleInv, TypeOK, InsideFile, LocatedNeverFails
<1>5. ASSUME NEW n \in Count, NEW location \in Location, ReadAt(n, location)
      PROVE  HandleInv'
  <2>1. answer' \in Answer /\ (located => answer'.ok)
    BY <1>1, <1>5, WindowReadAnswers DEF ReadAt
  <2> QED BY <1>5, <2>1 DEF ReadAt, HandleInv, TypeOK, InsideFile, LocatedNeverFails
<1>6. ASSUME NEW n \in Count, Read(n)
      PROVE  HandleInv'
  <2>1. seek \in 0..(U64 - 1)
    BY DEF HandleInv, TypeOK
  <2>2. /\ answer' \in Answer /\ (located => answer'.ok)
        /\ answer'.number \in Nat /\ seek + answer'.number < U64
    BY <1>1, <1>6, <2>1, WindowReadAnswers DEF Read
  <2>3. seek' \in 0..(U64 - 1)
    BY <1>1, <1>6, <2>1, <2>2 DEF Read
  <2> QED BY <1>6, <2>2, <2>3 DEF Read, HandleInv, TypeOK, InsideFile, LocatedNeverFails
<1>7. ASSUME NEW location \in 0..(U64 - 1), Seek(location)
      PROVE  HandleInv'
  <2>1. answer' \in Answer /\ answer'.ok
    BY <1>7, PlainAnswers DEF Seek, Success
  <2> QED BY <1>7, <2>1 DEF Seek, HandleInv, TypeOK, InsideFile, LocatedNeverFails
<1>8. CASE Reset
  <2>1. 0 \in 0..(U64 - 1)
    BY <1>1
  <2> QED BY <1>7, <1>8, <2>1 DEF Reset
<1>9. CASE SeekPosition
  <2>1. seek \in Int
    BY DEF HandleInv, TypeOK
  <2>2. answer' \in Answer /\ answer'.ok
    BY <1>9, <2>1, PlainAnswers DEF SeekPosition, Success
  <2> QED BY <1>9, <2>2 DEF SeekPosition, HandleInv, TypeOK, InsideFile, LocatedNeverFails
<1>10. CASE GetFileSize
  <2>1. Signed(size) \in Int
    BY <1>1 DEF HandleInv, TypeOK, Signed
  <2>2. answer' \in Answer /\ answer'.ok
    BY <1>10, <2>1, PlainAnswers DEF GetFileSize, Success
  <2> QED BY <1>10, <2>2 DEF GetFileSize, HandleInv, TypeOK, InsideFile, LocatedNeverFails
<1> QED BY <1>1, <1>2, <1>3, <1>4, <1>5, <1>6, <1>7, <1>8, <1>9, <1>10 DEF Next

(* No handle is open at the start.                                         *)
LEMMA InitHandleInv == Init => HandleInv
<1> SUFFICES ASSUME Init
             PROVE  HandleInv
  OBVIOUS
<1>1. answer \in Answer
  BY PlainAnswers DEF Init
<1>2. 0 \in 0..(U64 - 1) /\ 0 + 0 <= U64 /\ 2 * 0 < U64
  BY WidthAssumption
<1> QED BY <1>1, <1>2 DEF Init, HandleInv, TypeOK, InsideFile, LocatedNeverFails

(* The variables of a handle have their types.                             *)
THEOREM SubFileTypes == Spec => []TypeOK
<1>1. HandleInv => TypeOK
  BY DEF HandleInv
<1> QED BY <1>1, InitHandleInv, NextHandleInv, PTL DEF Spec

(* Whatever footer the locator has accepted, and whatever is then read:    *)
(* no call on the handle fails.                                            *)
THEOREM LocatedReadsSucceed == Spec => []LocatedNeverFails
<1>1. HandleInv => LocatedNeverFails
  BY DEF HandleInv
<1> QED BY <1>1, InitHandleInv, NextHandleInv, PTL DEF Spec

(***************************************************************************)
(* The window as a read-only file.                                         *)
(***************************************************************************)

(* The bytes of a window are a sequence as long as the window.             *)
LEMMA BytesOfFacts ==
  ASSUME NEW from \in Nat, NEW n \in Nat
  PROVE  /\ BytesOf(from, n) \in Seq(Int)
         /\ Len(BytesOf(from, n)) = n
         /\ \A i \in 1..n :
              BytesOf(from, n)[i] = IF from + i - 1 < FileSize THEN from + i - 1 ELSE -1
<1>1. FileSize \in Nat
  BY SubFileAssumption
<1>2. \A i \in 1..n : (IF from + i - 1 < FileSize THEN from + i - 1 ELSE -1) \in Int
  BY <1>1
<1> QED BY <1>2 DEF BytesOf

(* A window of no bytes is the empty sequence.                             *)
LEMMA NoBytes == \A from \in Nat : BytesOf(from, 0) = <<>>
<1> TAKE from \in Nat
<1>1. BytesOf(from, 0) \in Seq(Int) /\ Len(BytesOf(from, 0)) = 0
  BY BytesOfFacts
<1> QED BY <1>1, EmptySeq

(* A read answers what the read-only file answers.                         *)
LEMMA ReadsAgree ==
  ASSUME HandleInv, NEW n \in Nat, NEW location \in 0..(U64 - 1)
  PROVE  WindowRead(n, location) = Window!AnswerOf(location, n)
<1> DEFINE content == BytesOf(base, size)
           k       == ToRead(n, location)
           bytes   == [i \in 1..k |-> base + location + i - 1]
<1>1. FileSize \in Nat /\ U64 \in Nat
  BY SubFileAssumption, WidthAssumption
<1>2. size \in Nat /\ base \in Nat
  BY <1>1 DEF HandleInv, TypeOK
<1>3. /\ Len(content) = size
      /\ \A i \in 1..size :
           content[i] = IF base + i - 1 < FileSize THEN base + i - 1 ELSE -1
  BY <1>2, BytesOfFacts
<1>4. /\ k \in 0..size
      /\ k # 0 => location + k <= size
      /\ WindowRead(n, location)
           = IF k = 0 THEN Success(<<>>, 0)
             ELSE IF base + location + k <= FileSize THEN Success(bytes, k) ELSE Failure
  BY WindowReadFacts
<1>5. Window!Available(location, n) = k
  BY <1>3 DEF Window!Available, ToRead
<1> HIDE DEF content, k
<1>6. \A i \in 1..k :
        content[location + i]
          = IF base + location + i - 1 < FileSize THEN base + location + i - 1 ELSE -1
  BY <1>1, <1>2, <1>3, <1>4
<1>7. Window!AnswerOf(location, n)
        = IF \E i \in 1..k : content[location + i] = -1
          THEN Failure
          ELSE Success([i \in 1..k |-> content[location + i]], k)
  BY <1>5 DEF Window!AnswerOf, Window!Piece, Window!Failure, Window!Success, Failure,
             Success, Window!Missing, content
<1>8. CASE k = 0
  <2>1. ~ (\E i \in 1..k : content[location + i] = -1)
    BY <1>8
  <2>2. [i \in 1..k |-> content[location + i]] = <<>>
    BY <1>8
  <2> QED BY <1>4, <1>7, <1>8, <2>1, <2>2
<1>9. CASE k # 0 /\ base + location + k <= FileSize
  <2>1. \A i \in 1..k : content[location + i] = base + location + i - 1
    BY <1>1, <1>2, <1>4, <1>6, <1>9
  <2>2. ~ (\E i \in 1..k : content[location + i] = -1)
    BY <1>1, <1>2, <2>1
  <2>3. [i \in 1..k |-> content[location + i]] = bytes
    BY <2>1
  <2> QED BY <1>4, <1>7, <1>9, <2>2, <2>3
<1>10. CASE k # 0 /\ ~ (base + location + k <= FileSize)
  <2>1. k \in 1..k /\ content[location + k] = -1
    BY <1>1, <1>2, <1>4, <1>6, <1>10
  <2> QED BY <1>4, <1>7, <1>10, <2>1
<1> QED BY <1>8, <1>9, <1>10

(* Every call on a window is a step of the read-only file.                 *)
LEMMA NextIsWindowStep ==
  HandleInv /\ [Next]_vars
    => [Window!Next]_<<open, BytesOf(base, size), seek, answer>>
<1> DEFINE wvars == <<open, BytesOf(base, size), seek, answer>>
<1> SUFFICES ASSUME HandleInv, [Next]_vars
             PROVE  [Window!Next]_wvars
  OBVIOUS
<1>1. U64 \in Nat \ {0} /\ Count \subseteq Nat /\ Location \subseteq 0..(U64 - 1)
  BY WidthAssumption, SubFileAssumption
<1>2. size \in 0..(U64 - 1) /\ base \in Nat /\ seek \in 0..(U64 - 1) /\ 2 * size < U64
  BY <1>1 DEF HandleInv, TypeOK
<1>3. CASE UNCHANGED vars
  <2>1. UNCHANGED wvars
    BY <1>3 DEF vars
  <2> QED BY <2>1
<1>4. ASSUME NEW p \in FooterRange \cup UserRange, NEW from_locator \in BOOLEAN,
             NEW for_reading \in BOOLEAN, OpenFile(p, from_locator, for_reading)
      PROVE  Window!OpenFile
  <2>1. CASE for_reading /\ ParseDecimalUint64Accepts(p)
    <3>1. BytesOf(base', size') \in {BytesOf(q.offset, q.size) : q \in FooterRange \cup UserRange}
      BY <1>4, <2>1 DEF OpenFile
    <3> QED BY <1>4, <2>1, <3>1 DEF OpenFile, Window!OpenFile, Window!Success, Success
  <2>2. CASE ~ (for_reading /\ ParseDecimalUint64Accepts(p))
    BY <1>4, <2>2 DEF OpenFile, Window!OpenFile, Window!Failure, Failure
  <2> QED BY <2>1, <2>2
<1>5. ASSUME Close
      PROVE  Window!Close
  <2>1. BytesOf(base', size') = <<>>
    BY <1>5, NoBytes DEF Close
  <2> QED BY <1>5, <2>1 DEF Close, Window!Close, Window!Success, Success
<1>6. ASSUME NEW n \in Count, NEW location \in Location, ReadAt(n, location)
      PROVE  Window!ReadAt(n, location)
  <2>1. answer' = Window!AnswerOf(location, n)
    BY <1>1, <1>6, ReadsAgree DEF ReadAt
  <2> QED BY <1>6, <2>1 DEF ReadAt, Window!ReadAt
<1>7. ASSUME NEW n \in Count, Read(n)
      PROVE  Window!Read(n)
  <2>1. answer' = Window!AnswerOf(seek, n)
    BY <1>1, <1>2, <1>7, ReadsAgree DEF Read
  <2> QED BY <1>7, <2>1 DEF Read, Window!Read
<1>8. ASSUME NEW location, Seek(location)
      PROVE  Window!MoveTo(location)
  BY <1>8 DEF Seek, Window!MoveTo, Window!Success, Success
<1>9. CASE Reset
  <2>1. Window!MoveTo(0)
    BY <1>8, <1>9 DEF Reset
  <2> QED BY <2>1 DEF Window!Next
<1>10. CASE SeekPosition
  BY <1>10 DEF SeekPosition, Window!Tell, Window!Next, Window!Success, Success
<1>11. CASE GetFileSize
  <2>1. Signed(size) = Len(BytesOf(base, size))
    BY <1>1, <1>2, BytesOfFacts DEF Signed
  <2>2. Window!Tell(Len(BytesOf(base, size)))
    BY <1>11, <2>1 DEF GetFileSize, Window!Tell, Window!Success, Success
  <2> QED BY <2>2 DEF Window!Next
<1>12. CASE \E location \in Location : Seek(location)
  BY <1>8, <1>12 DEF Window!Next
<1>13. CASE \E n \in Count : Read(n) \/ \E location \in Location : ReadAt(n, location)
  BY <1>6, <1>7, <1>13 DEF Window!Next
<1>14. CASE \E p \in FooterRange \cup UserRange, from_locator, for_reading \in BOOLEAN :
               OpenFile(p, from_locator, for_reading)
  BY <1>4, <1>14 DEF Window!Next
<1>15. CASE Close
  BY <1>5, <1>15 DEF Window!Next
<1> QED BY <1>3, <1>9, <1>10, <1>11, <1>12, <1>13, <1>14, <1>15 DEF Next

(* Whatever range is opened, by the locator or by a user, and whatever is  *)
(* called on the handle: it answers as a read-only file that holds the     *)
(* bytes of the window, also when a read of missing bytes fails.           *)
THEOREM WindowIsFile == Spec => ImplementsFile
<1>1. Init => Window!Init
  <2>1. SUFFICES ASSUME Init
                 PROVE  Window!Init
    OBVIOUS
  <2>2. BytesOf(base, size) = <<>>
    BY <2>1, NoBytes DEF Init
  <2> QED BY <2>1, <2>2 DEF Init, Window!Init, Window!Success, Success
<1> QED BY <1>1, InitHandleInv, NextHandleInv, NextIsWindowStep, PTL
        DEF Spec, ImplementsFile, Window!Spec
==============================================================================
