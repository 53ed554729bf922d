------------------------- MODULE MCWorkspaceSession -------------------------
(* Small instances of WorkspaceSession for TLC. *)
EXTENDS WorkspaceSession, TLC

CONSTANTS f1, f2, original, edited, foreign, absent, garbled
OneFile == {f1}
TwoFiles == {f1, f2}
=============================================================================
