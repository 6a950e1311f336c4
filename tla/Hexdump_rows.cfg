SPECIFICATION Spec
CONSTANTS
    RowSize = 2
    HalfRows = 3
    MaxSize = 6
    Blank = Blank
    Dot = Dot
INVARIANTS TypeOK ReadsData NoRowIsBlank DumpIsData
