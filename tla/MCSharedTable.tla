---------------------------- MODULE MCSharedTable ----------------------------
(* SharedTable for TLC: goroutines c1 and c2 of process f1, c3 of f2.  The  *)
(* region of the first record meets that of the header, the later ones do  *)
(* not; the third row fills the file and a fifth would wrap the size.      *)
EXTENDS SharedTable, TLC

CONSTANTS f1, f2, c1, c2, c3

MCFileOf == [c \in Callers |-> IF c = c3 THEN f2 ELSE f1]
=============================================================================
