----------------------------- MODULE MCMemoFile -----------------------------
(* MemoFile for TLC: lengths and sizes of a few cells. *)
EXTENDS MemoFile, TLC
=============================================================================
