---------------------------- MODULE ReadOnlyFile ----------------------------
(***************************************************************************)
(* What a reader may expect of an open file: reads at a given position,    *)
(* reads at the file's own position, and moves of that position.  It does  *)
(* not matter where the bytes come from.  A read that needs a missing byte *)
(* fails, and a read that fails changes nothing.                           *)
(***************************************************************************)
EXTENDS Integers, Sequences

CONSTANTS
  Count,     \* numbers of bytes that are asked for
  Location,  \* positions that are asked for
  Content    \* the sequences of bytes that may be opened

VARIABLES
  open,      \* TRUE between a successful open and the close
  content,   \* the bytes of the open file, <<>> when none is open
  at,        \* the file's own position
  answer     \* what the last call returned

Missing == -1

Failure == [ok |-> FALSE, bytes |-> <<>>, number |-> 0]

Success(bytes, number) == [ok |-> TRUE, bytes |-> bytes, number |-> number]

Available(from, n) ==
  IF from >= Len(content) THEN 0
  ELSE IF n < Len(content) - from THEN n ELSE Len(content) - from

Piece(from, n) == [i \in 1..Available(from, n) |-> content[from + i]]

AnswerOf(from, n) ==
  IF \E i \in 1..Available(from, n) : content[from + i] = Missing
  THEN Failure
  ELSE Success(Piece(from, n), Available(from, n))

OpenFile ==
  /\ ~ open
  /\ \/ /\ content' \in Content
        /\ open' = TRUE
        /\ at' = 0
        /\ answer' = Success(<<>>, 0)
     \/ /\ UNCHANGED <<open, content, at>>
        /\ answer' = Failure

ReadAt(n, location) ==
  /\ open
  /\ answer' = AnswerOf(location, n)
  /\ UNCHANGED <<open, content, at>>

Read(n) ==
  /\ open
  /\ answer' = AnswerOf(at, n)
  /\ at' = at + answer'.number
  /\ UNCHANGED <<open, content>>

MoveTo(location) ==
  /\ open
  /\ at' = location
  /\ answer' = Success(<<>>, 0)
  /\ UNCHANGED <<open, content>>

Tell(number) ==
  /\ open
  /\ answer' = Success(<<>>, number)
  /\ UNCHANGED <<open, content, at>>

Close ==
  /\ open
  /\ open' = FALSE
  /\ content' = <<>>
  /\ at' = 0
  /\ answer' = Success(<<>>, 0)

Init ==
  /\ open = FALSE
  /\ content = <<>>
  /\ at = 0
  /\ answer = Success(<<>>, 0)

Next ==
  \/ OpenFile
  \/ \E n \in Count : Read(n) \/ \E location \in Location : ReadAt(n, location)
  \/ \E location \in Location \cup {0} : MoveTo(location)
  \/ Tell(Len(content))
  \/ Tell(at)
  \/ Close

Spec == Init /\ [][Next]_<<open, content, at, answer>>
==============================================================================
