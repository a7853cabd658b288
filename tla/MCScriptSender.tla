--------------------------- MODULE MCScriptSender ---------------------------
(* ScriptSender on a small instance.                                        *)
EXTENDS ScriptSender
=============================================================================
