----------------------------- MODULE MCSettings -----------------------------
(* Small instances of Settings: one record main cannot start without, the   *)
(* period it cannot run without, and one of the identity, whose default is  *)
(* good enough.  TLC evaluates SettingsAssumption.                          *)
EXTENDS Settings

MCRecord     == {"wifi", "period", "name"}
MCBootReads  == <<"wifi", "period", "name">>
MCPrintReads == <<"wifi", "name", "period">>
=============================================================================
