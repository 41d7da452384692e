------------------------------ MODULE MCEngine ------------------------------
(***************************************************************************)
(* Five configurations of the engine that between them take every branch:   *)
(* two commands watched by the monitor, an infrastructure set-up command    *)
(* with a snapshot to save, a forced failure, and no command at all.        *)
(***************************************************************************)
EXTENDS Engine

Plain == [cmds |-> <<"default", "default">>, forceInfra |-> FALSE,
          monitor |-> TRUE, snapshot |-> FALSE, pushChunks |-> FALSE,
          exitResult |-> TRUE, interrupts |-> 0]

Setup == [Plain EXCEPT !.cmds = <<"infra_setup">>, !.monitor = FALSE,
                       !.snapshot = TRUE, !.interrupts = 2]

Chunks == [Plain EXCEPT !.cmds = <<"default">>, !.monitor = FALSE,
                        !.pushChunks = TRUE]

Forced == [Chunks EXCEPT !.forceInfra = TRUE]

Empty == [Plain EXCEPT !.cmds = <<>>, !.pushChunks = TRUE, !.snapshot = TRUE, !.exitResult = FALSE]

MCConfigs == {Plain, Setup, Chunks, Forced, Empty}

=============================================================================
