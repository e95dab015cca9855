--------------------------- MODULE PluginRegistry ---------------------------
(***************************************************************************)
(* What PluginManager (crates/dynplug/src/manager.rs) promises: a partial  *)
(* function from names to plugins.  A name that is taken stays with its    *)
(* plugin until that plugin is removed, and plugins come and go one by     *)
(* one.                                                                    *)
(***************************************************************************)
CONSTANTS Plugins,  \* the plugin files
          NameOf    \* the name each registers under

VARIABLE loaded

Names == {NameOf[p] : p \in Plugins}

Init == loaded = [n \in {} |-> n]

Register(p) ==
  /\ NameOf[p] \notin DOMAIN loaded
  /\ loaded' = [n \in DOMAIN loaded \cup {NameOf[p]} |->
                  IF n = NameOf[p] THEN p ELSE loaded[n]]

Remove(n) ==
  /\ n \in DOMAIN loaded
  /\ loaded' = [m \in DOMAIN loaded \ {n} |-> loaded[m]]

Next ==
  \/ \E p \in Plugins : Register(p)
  \/ \E n \in Names : Remove(n)

Spec == Init /\ [][Next]_loaded

=============================================================================
