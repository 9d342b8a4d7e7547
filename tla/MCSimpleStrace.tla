--------------------------- MODULE MCSimpleStrace ---------------------------
(* Instances of SimpleStrace for TLC. *)
EXTENDS SimpleStrace

(* A call like any other, the one with an event, the one without a return. *)
MCScno == {"open", "execve", "exit_group"}

MCExitCodes == {0, 3, 255}
=============================================================================
