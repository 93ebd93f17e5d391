---------------------------- MODULE PqcapSubFile ----------------------------
(***************************************************************************)
(* A handle of the pqcap-subfile:// file system: a window of size bytes,   *)
(* from byte base on, of another file (src/pqcap_subfile_fs.cpp).  The     *)
(* window is opened for the range that read_pqcap's locator has accepted,  *)
(* or for one that a user wrote into the path.  A byte of the file below   *)
(* stands for itself: it is its position there.                            *)
(***************************************************************************)
EXTENDS PqcapFormat

CONSTANTS
  FileSize,     \* size of the file below
  FooterRange,  \* the [offset, size] that footers may hold
  UserRange,    \* the [offset, size] that users may write
  Count,        \* the byte counts of reads
  Location      \* the positions of positional reads and seeks

FileRange == [offset : Nat, size : Nat]

(* Sizes of files fit an int64_t, and so do the byte counts of reads.  A   *)
(* user's range does not reach around 2^64 and has such a size.            *)
ASSUME SubFileAssumption ==
  /\ FileSize \in Nat
  /\ 2 * FileSize < U64
  /\ FooterRange \subseteq FileRange
  /\ \A p \in FooterRange : p.offset < U64 /\ p.size < U64
  /\ UserRange \subseteq FileRange
  /\ \A p \in UserRange :
       p.offset < U64 /\ p.size < U64 => p.offset + p.size <= U64 /\ 2 * p.size < U64
  /\ Count \subseteq Nat
  /\ Location \subseteq 0..(U64 - 1)

VARIABLES
  open,     \* a handle is open
  located,  \* its range came from the locator
  base,     \* base_offset
  size,     \* sub_size
  seek,     \* seek_pos
  answer    \* what the last call returned: [ok, bytes, number]

vars == <<open, located, base, size, seek, answer>>

Failure == [ok |-> FALSE, bytes |-> <<>>, number |-> 0]

Success(bytes, number) == [ok |-> TRUE, bytes |-> bytes, number |-> number]

(***************************************************************************)
(* OpenFile, for reading or not.  The file below exists and can be read:   *)
(* a failure to open it is one more answer Failure.                        *)
(***************************************************************************)
ParseDecimalUint64Accepts(p) == p.offset < U64 /\ p.size < U64

(* read_pqcap builds the path from a footer that passed the locator.       *)
LocatedRange(p) == p \in FooterRange /\ RangeAccepted(p.offset, p.size, FileSize)

OpenFile(p, from_locator, for_reading) ==
  /\ ~ open
  /\ IF from_locator THEN LocatedRange(p) ELSE p \in UserRange
  /\ IF for_reading /\ ParseDecimalUint64Accepts(p)
     THEN /\ open' = TRUE
          /\ located' = from_locator
          /\ base' = p.offset
          /\ size' = p.size
          /\ seek' = 0
          /\ answer' = Success(<<>>, 0)
     ELSE /\ answer' = Failure
          /\ UNCHANGED <<open, located, base, size, seek>>

(* A handle that is closed is gone.                                        *)
Close ==
  /\ open
  /\ open' = FALSE
  /\ located' = FALSE
  /\ base' = 0
  /\ size' = 0
  /\ seek' = 0
  /\ answer' = Success(<<>>, 0)

(***************************************************************************)
(* The two reads.  A positional read of DuckDB's file systems delivers all *)
(* the bytes that were asked for or throws.  A positional read of a window *)
(* may deliver fewer and returns no count: the number of its answer is     *)
(* that of the bytes it has put into the buffer.                           *)
(***************************************************************************)
InnerRead(n, location) ==
  IF location + n <= FileSize
  THEN Success([i \in 1..n |-> location + i - 1], n)
  ELSE Failure

ToRead(n, location) ==
  IF location >= size THEN 0
  ELSE IF n < size - location THEN n ELSE size - location

(* Mutant: the read is not cut at the end of the window.                   *)
WindowReadUncut(n, location) ==
  IF ToRead(n, location) = 0
  THEN Success(<<>>, 0)
  ELSE InnerRead(n, (location + base) % U64)

WindowRead(n, location) ==
  IF ToRead(n, location) = 0
  THEN Success(<<>>, 0)
  ELSE InnerRead(ToRead(n, location), (location + base) % U64)

ReadAt(n, location) ==
  /\ open
  /\ answer' = WindowRead(n, location)
  /\ UNCHANGED <<open, located, base, size, seek>>

(* Mutant: the position moves by what was asked for.                       *)
ReadMovesOn(n) ==
  /\ open
  /\ answer' = WindowRead(n, seek)
  /\ seek' = seek + n
  /\ UNCHANGED <<open, located, base, size>>

Read(n) ==
  /\ open
  /\ answer' = WindowRead(n, seek)
  /\ seek' = seek + answer'.number
  /\ UNCHANGED <<open, located, base, size>>

(***************************************************************************)
(* The position and the size.                                              *)
(***************************************************************************)
Seek(location) ==
  /\ open
  /\ seek' = location
  /\ answer' = Success(<<>>, 0)
  /\ UNCHANGED <<open, located, base, size>>

(* Reset goes to the first byte of the window, not of the file below.      *)
Reset == Seek(0)

SeekPosition ==
  /\ open
  /\ answer' = Success(<<>>, seek)
  /\ UNCHANGED <<open, located, base, size, seek>>

(* The size as an int64_t.                                                 *)
Signed(n) == IF 2 * n < U64 THEN n ELSE n - U64

GetFileSize ==
  /\ open
  /\ answer' = Success(<<>>, Signed(size))
  /\ UNCHANGED <<open, located, base, size, seek>>

Init ==
  /\ open = FALSE
  /\ located = FALSE
  /\ base = 0
  /\ size = 0
  /\ seek = 0
  /\ answer = Success(<<>>, 0)

Next ==
  \/ \E p \in FooterRange \cup UserRange, from_locator, for_reading \in BOOLEAN :
       OpenFile(p, from_locator, for_reading)
  \/ Close
  \/ \E n \in Count : Read(n) \/ \E location \in Location : ReadAt(n, location)
  \/ \E location \in Location : Seek(location)
  \/ Reset
  \/ SeekPosition
  \/ GetFileSize

Spec == Init /\ [][Next]_vars

(***************************************************************************)
(* Properties.                                                             *)
(***************************************************************************)
Answer == [ok : BOOLEAN, bytes : Seq(Nat), number : Int]

(* The variables have their types; the window does not wrap around.        *)
TypeOK ==
  /\ open \in BOOLEAN
  /\ located \in BOOLEAN
  /\ base \in 0..(U64 - 1)
  /\ size \in 0..(U64 - 1)
  /\ base + size <= U64
  /\ 2 * size < U64
  /\ seek \in 0..(U64 - 1)
  /\ answer \in Answer

(* No call on a handle that read_pqcap opened fails: what the locator has  *)
(* accepted is inside the file, and the window keeps reads inside of it.   *)
LocatedNeverFails == open /\ located => answer.ok

(* The bytes of a window; those past the end of the file are missing.      *)
BytesOf(from, n) == [i \in 1..n |-> IF from + i - 1 < FileSize THEN from + i - 1 ELSE -1]

(* The handle is a read-only file whose bytes are those of the window.     *)
Window ==
  INSTANCE ReadOnlyFile WITH
    content <- BytesOf(base, size),
    at      <- seek,
    Content <- {BytesOf(p.offset, p.size) : p \in FooterRange \cup UserRange}

(* Reads, seeks and sizes of a window answer as those of a file that holds *)
(* exactly the bytes of the window; a failing read moves nothing.          *)
ImplementsFile == Window!Spec
==============================================================================
