------------------------- MODULE MCDefaultReporter -------------------------
(* A small instance of DefaultReporter: Main and one more goroutine.        *)
EXTENDS DefaultReporter, TLC

CONSTANTS main_, worker

=============================================================================
