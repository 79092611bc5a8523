------------------------------- MODULE MCDataDir -------------------------------
(***************************************************************************)
(* One container for TLC, whose process is the first of its numbers again  *)
(* on every start.                                                         *)
(***************************************************************************)
EXTENDS DataDir

CONSTANT server

MCPid == [c \in Container |-> 1]
================================================================================
