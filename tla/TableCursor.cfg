\* One goroutine, a table of up to three rows, with invalid ones.
CONSTANTS
  A = A
  B = B
  Nil = Nil
  Space = Space
  NUL = NUL
  Texts <- MCTexts
  Needles <- MCNeedles
  Offsets <- MCOffsets
  Width = 2
  Word = 5
  InitRows = 2
  MaxRows = 3
SPECIFICATION Spec
INVARIANTS ScanComplete SearchComplete RowsAtHome
PROPERTIES CallsReturn
