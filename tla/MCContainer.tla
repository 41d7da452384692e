---------------------------- MODULE MCContainer ----------------------------
(***************************************************************************)
(* Two executors share one base container; the first runs two clients, the  *)
(* second of which cleans up after the first while the other executor's     *)
(* client is anywhere in its own run.                                       *)
(***************************************************************************)
EXTENDS Container

CONSTANTS e1, e2

MCRuns == {<<e1, 1>>, <<e1, 2>>, <<e2, 1>>}

=============================================================================
