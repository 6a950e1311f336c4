------------------------------- MODULE Hexdump -------------------------------
(***************************************************************************)
(* The loop of CustomHexdump (data/hexdump.h), with which topics are shown *)
(* in the content windows, dumped to the file and logged.  Its counter is  *)
(* an int, the length of the data an unsigned, and the loop compares and   *)
(* adds the two: the counter is converted back and forth.  Near the limit  *)
(* of int it wraps to a negative number, which must end the loop.          *)
(*                                                                         *)
(* A byte is named by its place in the data, counted from 0.               *)
(***************************************************************************)
EXTENDS Integers, Sequences

CONSTANTS
    RowSize,        \* bytes in a row: 32 or 64 in the program
    HalfRows,       \* full rows that hold 2^31 bytes
    MaxSize,        \* bound: length of the data
    Blank, Dot      \* what is printed for no byte, and for an unprintable one

\* int and unsigned have Modulus = 2^32 values, and a power of two of bytes is
\* printed in a row; so rows fill 2^31 bytes exactly.
Half == RowSize * HalfRows
Modulus == 2 * Half

\* Data of more than 2^31 bytes is beyond the program: the counter would get
\* negative before the end of the data.
ASSUME DumpAssumption ==
    /\ RowSize \in Nat \ {0} /\ HalfRows \in Nat \ {0}
    /\ MaxSize \in Nat /\ MaxSize <= Half
    /\ Blank \notin Int /\ Dot \notin Int /\ Blank # Dot

VARIABLES
    ShowAscii,      \* template parameter: is there a column of characters?
    size,           \* the length of the data, a size_t
    printable,      \* the bytes that isprint accepts
    i,              \* the loop's counter
    out,            \* the rows printed so far
    returned        \* has the operator returned?

vars == <<ShowAscii, size, printable, i, out, returned>>

Columns == 1..RowSize

Cells == Int \cup {Blank, Dot}

Rows == [offset : Int, hex : [Columns -> Cells], ascii : [Columns -> Cells]]

\* Conversion of an int to unsigned, and of an unsigned to int.
Unsigned(n) == IF n < 0 THEN n + Modulus ELSE n
Signed(n) == IF n >= Half THEN n - Modulus ELSE n

\* The constructor takes an unsigned.
mLength == IF size < Modulus THEN size ELSE size % Modulus

\* The type invariant: the counter is an int.
TypeOK ==
    /\ ShowAscii \in BOOLEAN
    /\ size \in 0..MaxSize
    /\ printable \subseteq 0..(size - 1)
    /\ i \in -Half..(Half - 1)
    /\ out \in Seq(Rows)
    /\ returned \in BOOLEAN

Init ==
    /\ ShowAscii \in BOOLEAN
    /\ size \in 0..MaxSize
    /\ printable \in SUBSET (0..(size - 1))
    /\ i = 0
    /\ out = <<>>
    /\ returned = FALSE

-----------------------------------------------------------------------------
\* Mutant: both sides as int, as after a cast of mLength.
SignedLess(n) == n < Signed(mLength)

\* Mutant: off by one.
UnsignedLeq(n) == Unsigned(n) <= mLength

\* The comparison n < mLength of an int with an unsigned.
Less(n) == Unsigned(n) < mLength

\* Mutant: off by one in the outer loop only.
MoreLeq == Unsigned(i) <= mLength

More == Less(i)

\* The hexadecimal column: blanks fill the last row, to keep the next column
\* in place.
Hex == [c \in Columns |-> IF Less(i + c - 1) THEN i + c - 1 ELSE Blank]

\* The column of characters, where nothing is printed for no byte.
Ascii ==
    [c \in Columns |->
        IF ~ShowAscii \/ ~Less(i + c - 1) THEN Blank
        ELSE IF i + c - 1 \in printable THEN i + c - 1 ELSE Dot]

Row == [offset |-> i, hex |-> Hex, ascii |-> Ascii]

\* Mutant: the counter does not wrap.
NextWide == i + RowSize

\* i += RowSize: an addition of unsigned numbers, converted to int.
NextRow == Signed(Unsigned(i) + RowSize)

\* One iteration.
PrintRow ==
    /\ ~returned /\ More
    /\ out' = Append(out, Row)
    /\ i' = NextRow
    /\ UNCHANGED <<ShowAscii, size, printable, returned>>

Return ==
    /\ ~returned /\ ~More
    /\ returned' = TRUE
    /\ UNCHANGED <<ShowAscii, size, printable, i, out>>

Done == returned /\ UNCHANGED vars

Next == PrintRow \/ Return \/ Done

Spec == Init /\ [][Next]_vars

-----------------------------------------------------------------------------
(* Properties                                                              *)

\* Only bytes of the data are read, although the tests of the loops (hexdump.h
\* lines 21, 26 and 41) look at the upper end alone.
ReadsData ==
    \A r \in 1..Len(out), c \in Columns :
        {out[r].hex[c], out[r].ascii[c]} \subseteq 0..(size - 1) \cup {Blank, Dot}

\* Every row has a byte.  So no more rows are printed than the data needs, and
\* the loop ends, also for data that reaches the limit of int, where the counter
\* turns negative.
NoRowIsBlank == \A r \in 1..Len(out) : out[r].hex[1] # Blank

\* The dump that is returned is the data: all of it, each byte once, in order,
\* in the row that its offset announces, and as a character where it has one.
DumpIsData ==
    returned =>
        /\ size <= RowSize * Len(out)
        /\ \A r \in 1..Len(out), c \in Columns :
               LET byte == RowSize * (r - 1) + c - 1
               IN  /\ out[r].offset = RowSize * (r - 1)
                   /\ out[r].hex[c] = IF byte < size THEN byte ELSE Blank
                   /\ out[r].ascii[c] = IF ~ShowAscii \/ byte >= size THEN Blank
                                        ELSE IF byte \in printable THEN byte ELSE Dot

=============================================================================
