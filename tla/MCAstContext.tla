---------------------------- MODULE MCAstContext ----------------------------
(* AstContext has no structured constants: TLC checks it as it stands. *)
EXTENDS AstContext

==============================================================================
