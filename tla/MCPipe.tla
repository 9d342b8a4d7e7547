------------------------------- MODULE MCPipe -------------------------------
(* An instance of Pipe for TLC. *)
EXTENDS Pipe
=============================================================================
