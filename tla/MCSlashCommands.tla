--------------------------- MODULE MCSlashCommands ---------------------------
(* SlashCommands has no structured constants: TLC checks it as it stands. *)
EXTENDS SlashCommands
==============================================================================
