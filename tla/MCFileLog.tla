----------------------------- MODULE MCFileLog -----------------------------
(* Two goroutines that shut one log down, chunks of two bytes.              *)
EXTENDS FileLog, TLC

CONSTANTS main, other

=============================================================================
