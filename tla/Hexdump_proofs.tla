--------------------------- MODULE Hexdump_proofs ---------------------------
(***************************************************************************)
(* Proofs about Hexdump, for rows of any size, an int of any width, and    *)
(* data of any length up to the largest int plus one: the dump that is     *)
(* returned is the data, and nothing else is read.                         *)
(***************************************************************************)
EXTENDS Hexdump, TLAPS

-----------------------------------------------------------------------------
(* Lemmas                                                                  *)

\* The limits of int and unsigned.
LEMMA Limits == /\ Half \in Nat \ {0} /\ Modulus \in Nat /\ Modulus = 2 * Half
                /\ RowSize \in Nat \ {0} /\ HalfRows \in Nat \ {0}
                /\ MaxSize \in Nat /\ MaxSize <= Half
<1>1. RowSize * HalfRows \in Nat \ {0}
    BY DumpAssumption
<1> QED BY <1>1, DumpAssumption DEF Half, Modulus

\* Rows are counted up to HalfRows, their bytes up to Half.
LEMMA RowsInHalf ==
    ASSUME NEW n \in Nat, n < HalfRows
    PROVE  /\ RowSize * n \in Nat
           /\ RowSize * (n + 1) = RowSize * n + RowSize
           /\ RowSize * n + RowSize <= Half
           /\ n + 1 < HalfRows => RowSize * (n + 1) < Half
           /\ n + 1 = HalfRows => RowSize * (n + 1) = Half
<1>1. RowSize * n \in Nat /\ RowSize * (n + 1) = RowSize * n + RowSize
    BY Limits
<1>2. PICK d \in Nat : HalfRows = n + 1 + d
    <2>1. HalfRows - n - 1 \in Nat
        BY Limits
    <2> QED BY <2>1, Limits
<1>3. Half = RowSize * (n + 1) + RowSize * d
    BY <1>2, Limits DEF Half
<1>4. RowSize * d \in Nat /\ (d > 0 => RowSize * d > 0)
    BY Limits
<1> QED BY <1>1, <1>2, <1>3, <1>4, Limits

\* The length is not truncated.
LEMMA LengthIsSize ==
    ASSUME size \in 0..MaxSize
    PROVE  mLength = size
BY Limits DEF mLength

-----------------------------------------------------------------------------
(* The loop invariant                                                      *)

\* Column c of row r is right.
CellIsRight(r, c) ==
    LET byte == RowSize * (r - 1) + c - 1
    IN  /\ out[r].offset = RowSize * (r - 1)
        /\ out[r].hex[c] = IF byte < size THEN byte ELSE Blank
        /\ out[r].ascii[c] = IF ~ShowAscii \/ byte >= size THEN Blank
                             ELSE IF byte \in printable THEN byte ELSE Dot

\* The counter stands for the number of rows printed; after HalfRows rows it
\* has wrapped, and as an unsigned it is then beyond any length.
CounterInv ==
    /\ Len(out) <= HalfRows
    /\ Len(out) < HalfRows => i = RowSize * Len(out)
    /\ Len(out) = HalfRows => i = -Half

RowsInv ==
    \A r \in 1..Len(out) :
        /\ RowSize * (r - 1) < size
        /\ \A c \in Columns : CellIsRight(r, c)

LoopInv == TypeOK /\ CounterInv /\ RowsInv /\ (returned => ~More)

\* One row is printed only below the limit of int, where the counter is the
\* offset of the row; and it is the row that the data has there.
LEMMA RowIsRight ==
    ASSUME TypeOK, CounterInv, More
    PROVE  /\ Len(out) < HalfRows
           /\ i = RowSize * Len(out)
           /\ i < size
           /\ Row.offset = i
           /\ \A c \in Columns :
                  /\ Row.hex[c] = IF i + c - 1 < size THEN i + c - 1 ELSE Blank
                  /\ Row.ascii[c] = IF ~ShowAscii \/ i + c - 1 >= size THEN Blank
                                    ELSE IF i + c - 1 \in printable THEN i + c - 1 ELSE Dot
<1>0. mLength = size /\ size \in Nat /\ size <= Half /\ Len(out) \in Nat
    BY LengthIsSize, Limits DEF TypeOK
<1>1. Len(out) # HalfRows
    <2>1. SUFFICES ASSUME Len(out) = HalfRows PROVE FALSE
        OBVIOUS
    <2>2. i = -Half
        BY <2>1, Limits DEF CounterInv
    <2> QED BY <1>0, <2>2, Limits DEF More, Less, Unsigned
<1>2. Len(out) < HalfRows
    BY <1>0, <1>1, Limits DEF CounterInv
<1>3. i = RowSize * Len(out) /\ i \in Nat
    BY <1>0, <1>2, RowsInHalf DEF CounterInv
<1>4. i < size
    BY <1>0, <1>3 DEF More, Less, Unsigned
<1>5. ASSUME NEW c \in Columns PROVE i + c - 1 \in Nat /\ (Less(i + c - 1) <=> i + c - 1 < size)
    <2>1. c \in Nat /\ c >= 1
        BY Limits DEF Columns
    <2>2. i + c - 1 \in Nat
        BY <1>3, <2>1
    <2> QED BY <1>0, <2>2 DEF Less, Unsigned
<1>6. ASSUME NEW c \in Columns
      PROVE  Row.hex[c] = IF i + c - 1 < size THEN i + c - 1 ELSE Blank
    BY <1>5 DEF Row, Hex
<1>7. ASSUME NEW c \in Columns
      PROVE  Row.ascii[c] = IF ~ShowAscii \/ i + c - 1 >= size THEN Blank
                            ELSE IF i + c - 1 \in printable THEN i + c - 1 ELSE Dot
    <2>1. i + c - 1 >= size <=> ~Less(i + c - 1)
        BY <1>0, <1>5
    <2> QED BY <2>1 DEF Row, Ascii
<1> QED BY <1>2, <1>3, <1>4, <1>6, <1>7 DEF Row

\* A row is well typed, whatever is in it.
LEMMA RowIsTyped ==
    ASSUME TypeOK
    PROVE  Row \in Rows
<1>1. i \in Int /\ \A c \in Columns : i + c - 1 \in Int
    BY Limits DEF TypeOK, Columns
<1>2. Hex \in [Columns -> Cells]
    BY <1>1 DEF Hex, Cells
<1>3. Ascii \in [Columns -> Cells]
    BY <1>1 DEF Ascii, Cells
<1> QED BY <1>1, <1>2, <1>3 DEF Row, Rows

\* An iteration keeps the loop invariant.
LEMMA PrintRowKeeps ==
    ASSUME LoopInv, PrintRow
    PROVE  LoopInv'
<1> USE DEF LoopInv
<1> DEFINE n == Len(out)
<1>0. More /\ n \in Nat /\ out \in Seq(Rows) /\ size \in Nat
    BY Limits DEF PrintRow, TypeOK
<1>1. /\ n < HalfRows /\ i = RowSize * n /\ i < size
      /\ Row.offset = i /\ Row \in Rows
    BY <1>0, RowIsRight, RowIsTyped
<1>2. out' = Append(out, Row) /\ Len(out') = n + 1 /\ out' \in Seq(Rows)
    BY <1>0, <1>1 DEF PrintRow
<1>3. i \in Nat /\ RowSize * (n + 1) = i + RowSize /\ i + RowSize <= Half
      /\ (n + 1 < HalfRows => RowSize * (n + 1) < Half)
      /\ (n + 1 = HalfRows => RowSize * (n + 1) = Half)
    BY <1>0, <1>1, RowsInHalf
<1>4. i' = IF i + RowSize >= Half THEN i + RowSize - Modulus ELSE i + RowSize
    <2>1. Unsigned(i) = i
        BY <1>3 DEF Unsigned
    <2>2. i' = Signed(i + RowSize)
        BY <2>1 DEF PrintRow, NextRow
    <2> QED BY <1>3, <2>2, Limits DEF Signed
<1>5. CounterInv'
    <2>1. CASE n + 1 < HalfRows
        <3>1. i' = RowSize * (n + 1)
            BY <2>1, <1>3, <1>4, Limits
        <3> QED BY <2>1, <3>1, <1>2, Limits DEF CounterInv
    <2>2. CASE n + 1 = HalfRows
        <3>1. i' = -Half
            BY <2>2, <1>3, <1>4, Limits
        <3> QED BY <2>2, <3>1, <1>2, Limits DEF CounterInv
    <2> QED BY <2>1, <2>2, <1>0, <1>1, Limits
<1>6. TypeOK'
    <2>1. i' \in -Half..(Half - 1)
        BY <1>3, <1>4, Limits
    <2> QED BY <1>2, <2>1 DEF TypeOK, PrintRow
<1>7. RowsInv'
    <2> SUFFICES ASSUME NEW r \in 1..(n + 1)
                 PROVE  RowSize * (r - 1) < size /\ \A c \in Columns : CellIsRight(r, c)'
        BY <1>2 DEF RowsInv, PrintRow
    <2>1. CASE r \in 1..n
        <3>1. out'[r] = out[r]
            BY <2>1, <1>0, <1>1, <1>2
        <3>2. RowSize * (r - 1) < size /\ \A c \in Columns : CellIsRight(r, c)
            BY <2>1 DEF RowsInv
        <3> QED BY <3>1, <3>2 DEF CellIsRight, PrintRow
    <2>2. CASE r = n + 1
        <3>1. out'[r] = Row
            BY <2>2, <1>0, <1>1, <1>2
        <3>2. RowSize * (r - 1) = i
            BY <2>2, <1>0, <1>1
        <3>3. ASSUME NEW c \in Columns PROVE CellIsRight(r, c)'
            <4>1. /\ Row.offset = i
                  /\ Row.hex[c] = IF i + c - 1 < size THEN i + c - 1 ELSE Blank
                  /\ Row.ascii[c] = IF ~ShowAscii \/ i + c - 1 >= size THEN Blank
                                    ELSE IF i + c - 1 \in printable THEN i + c - 1 ELSE Dot
                BY <1>0, RowIsRight
            <4> QED BY <3>1, <3>2, <4>1 DEF CellIsRight, PrintRow
        <3> QED BY <1>1, <3>2, <3>3
    <2> QED BY <2>1, <2>2, <1>0
<1>8. returned' = FALSE
    BY DEF PrintRow, TypeOK
<1> QED BY <1>5, <1>6, <1>7, <1>8

\* The loop invariant holds throughout.
LEMMA LoopInvariant == Spec => []LoopInv
<1>1. Init => LoopInv
    <2> SUFFICES ASSUME Init PROVE LoopInv
        OBVIOUS
    <2>1. out = <<>> /\ Len(out) = 0 /\ out \in Seq(Rows)
        BY DEF Init
    <2>2. RowSize * 0 = 0 /\ 0 \in -Half..(Half - 1)
        BY Limits
    <2>3. TypeOK
        BY <2>1, <2>2 DEF Init, TypeOK
    <2>4. CounterInv
        BY <2>1, <2>2, Limits DEF Init, CounterInv
    <2>5. RowsInv /\ (returned => ~More)
        BY <2>1 DEF Init, RowsInv
    <2> QED BY <2>3, <2>4, <2>5 DEF LoopInv
<1>2. LoopInv /\ [Next]_vars => LoopInv'
    <2> SUFFICES ASSUME LoopInv, [Next]_vars PROVE LoopInv'
        OBVIOUS
    <2>1. CASE PrintRow
        BY <2>1, PrintRowKeeps
    <2>2. CASE Return
        BY <2>2 DEF Return, LoopInv, TypeOK, CounterInv, RowsInv, CellIsRight,
                    More, Less, mLength
    <2>3. CASE UNCHANGED vars
        BY <2>3 DEF vars, LoopInv, TypeOK, CounterInv, RowsInv, CellIsRight,
                    More, Less, mLength
    <2> QED BY <2>1, <2>2, <2>3 DEF Next, Done
<1> QED BY <1>1, <1>2, PTL DEF Spec

-----------------------------------------------------------------------------
(* Theorems                                                                *)

\* The variables keep their types: the counter stays within the width of int,
\* since it wraps (hexdump.h:21).
THEOREM TypeCorrect == Spec => []TypeOK
BY LoopInvariant, PTL DEF LoopInv

\* Only bytes of the data are read, for data of any length.
THEOREM OnlyDataIsRead == Spec => []ReadsData
<1>1. LoopInv => ReadsData
    <2> SUFFICES ASSUME LoopInv, NEW r \in 1..Len(out), NEW c \in Columns
                 PROVE  {out[r].hex[c], out[r].ascii[c]} \subseteq 0..(size - 1) \cup {Blank, Dot}
        BY DEF ReadsData
    <2> DEFINE byte == RowSize * (r - 1) + c - 1
    <2>1. byte \in Nat /\ size \in Nat
        <3>1. r - 1 \in Nat /\ c - 1 \in Nat
            BY Limits DEF LoopInv, TypeOK, Columns
        <3>2. RowSize * (r - 1) \in Nat
            BY <3>1, Limits
        <3> QED BY <3>1, <3>2, Limits DEF LoopInv, TypeOK
    <2>2. byte < size => byte \in 0..(size - 1)
        BY <2>1
    <2>3. CellIsRight(r, c)
        BY DEF LoopInv, RowsInv
    <2> QED BY <2>1, <2>2, <2>3 DEF CellIsRight
<1> QED BY <1>1, LoopInvariant, PTL

\* Every row has a byte, for data of any length: the loop ends after the rows
\* that the data needs.
THEOREM RowsAreNeeded == Spec => []NoRowIsBlank
<1>1. LoopInv => NoRowIsBlank
    <2> SUFFICES ASSUME LoopInv, NEW r \in 1..Len(out) PROVE out[r].hex[1] # Blank
        BY DEF NoRowIsBlank
    <2>1. 1 \in Columns /\ r - 1 \in Nat
        BY Limits DEF Columns, LoopInv, TypeOK
    <2>2. RowSize * (r - 1) \in Nat
        BY <2>1, Limits
    <2>3. RowSize * (r - 1) < size /\ CellIsRight(r, 1)
        BY <2>1 DEF LoopInv, RowsInv
    <2>4. out[r].hex[1] = RowSize * (r - 1)
        BY <2>2, <2>3 DEF CellIsRight
    <2> QED BY <2>2, <2>4, DumpAssumption
<1> QED BY <1>1, LoopInvariant, PTL

\* The dump that is returned is the data, for data of any length.
THEOREM DumpIsFaithful == Spec => []DumpIsData
<1>1. LoopInv => DumpIsData
    <2> SUFFICES ASSUME LoopInv, returned PROVE DumpIsData
        BY DEF DumpIsData
    <2>0. size \in Nat /\ size <= Half /\ Len(out) \in Nat /\ ~More /\ mLength = size
        BY LengthIsSize, Limits DEF LoopInv, TypeOK
    <2>1. size <= RowSize * Len(out)
        <3>1. CASE Len(out) < HalfRows
            <4>1. i = RowSize * Len(out) /\ i \in Nat
                BY <3>1, <2>0, RowsInHalf DEF LoopInv, CounterInv
            <4> QED BY <4>1, <2>0 DEF More, Less, Unsigned
        <3>2. CASE Len(out) = HalfRows
            BY <3>2, <2>0, Limits DEF Half
        <3> QED BY <3>1, <3>2, <2>0, Limits DEF LoopInv, CounterInv
    <2>2. \A r \in 1..Len(out), c \in Columns : CellIsRight(r, c)
        BY DEF LoopInv, RowsInv
    <2> QED BY <2>1, <2>2 DEF DumpIsData, CellIsRight
<1> QED BY <1>1, LoopInvariant, PTL

=============================================================================
