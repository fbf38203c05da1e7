----------------------------- MODULE MCDiffParser -----------------------------
(* DiffParser has no structured constants: TLC checks it as it stands.       *)
EXTENDS DiffParser
==============================================================================
