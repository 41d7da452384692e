-------------------------- MODULE MCMultiReporter --------------------------
(* The console log with two chunks, the infrastructure log with one, an     *)
(* artifact, either order of the destinations.                              *)
EXTENDS MultiReporter, TLC

CONSTANTS console, infralog, a

MCMaxChunks == [s \in {console, infralog} |-> IF s = console THEN 2 ELSE 1]

MCOrders == {<<"mesos", "store">>, <<"store", "mesos">>}

=============================================================================
