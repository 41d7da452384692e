---------------------------- MODULE MCCmdWrapper ----------------------------
(* Either wrapper, payloads of two pieces.                                  *)
EXTENDS CmdWrapper, TLC

=============================================================================
