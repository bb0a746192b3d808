--------------------------- MODULE MC_ExecService ---------------------------
(* Two concurrent calls of any endpoint, on one file. *)
EXTENDS ExecService

CONSTANTS c1, c2, f1

TwoCalls == {c1, c2}
OneFile == {f1}
AllOps == {"exec", "write", "read", "copy_out"}
=============================================================================
