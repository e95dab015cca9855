--------------------------- MODULE MCPluginManager ---------------------------
(* Two plugin files of the same name, a third plugin and a broken file. *)
EXTENDS PluginManager

CONSTANTS greeter, copy, other

MCPlugins == {greeter, copy, other}
MCNameOf == [p \in MCPlugins |-> IF p = other THEN "other" ELSE "greeter"]
=============================================================================
