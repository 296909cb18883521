--------------------------- MODULE MCTableCursor ----------------------------
(* TableCursor with columns of two bytes. *)
EXTENDS TableCursor

CONSTANTS A, B   \* bytes

MCTexts   == {<<A, Space>>, <<B, A>>}
MCNeedles == {Nil, <<>>, <<A>>, <<A, Space>>, <<B, A>>}
MCOffsets == {-2, -1, 2}
=============================================================================
