--------------------------- MODULE MCEnginePipeline ---------------------------
(* Small instances of EnginePipeline.                                      *)
EXTENDS EnginePipeline

CONSTANTS r1, r2, x1, x2
=============================================================================
