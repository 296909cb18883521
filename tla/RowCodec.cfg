\* Rows of nine tables, set, written, read and changed.
\* A panic ends the program.
CONSTANTS
  None = None
  MaxInt = 127
  MaxCharacterLength = 2
  Layouts <- MCLayouts
  FieldValues <- MCValues
  EmptyIsNull = TRUE
  FlagBits = 4
  MaxRowLength = 12
SPECIFICATION Spec
INVARIANTS ReadsBack RowReadable
CHECK_DEADLOCK FALSE
