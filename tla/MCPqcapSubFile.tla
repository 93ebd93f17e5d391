--------------------------- MODULE MCPqcapSubFile ---------------------------
(***************************************************************************)
(* An instance of PqcapSubFile: footers with ranges inside, across the end *)
(* of and behind a file of 6 bytes, and with ranges around U64; users with *)
(* ranges inside the file, across its end, behind it, empty, and too large *)
(* to parse.                                                               *)
(***************************************************************************)
EXTENDS PqcapSubFile

At(offset, length) == [offset |-> offset, size |-> length]

AllFooters == { At(o, s) : o \in 0..6, s \in 0..7 } \cup { At(59, 2), At(56, 6), At(58, 59) }

UserRanges == {At(0, 3), At(4, 5), At(52, 8), At(3, 0), At(60, 1)}
==============================================================================
