---------------------------- MODULE PluginManager ----------------------------
(***************************************************************************)
(* The plugin manager (crates/dynplug/src/manager.rs): a vector of slots   *)
(* that only grows, and an index from names to slots.  unload empties a    *)
(* slot and leaves a hole; unload_all, which Drop calls, empties them all  *)
(* from the last to the first and starts over.                             *)
(*                                                                         *)
(* The methods take &mut self, so they do not interleave.  Those that loop *)
(* are taken apart into one action for each turn of the loop.              *)
(***************************************************************************)
EXTENDS Integers, Sequences, FiniteSets

CONSTANTS Plugins,   \* the plugin files that load
          BadFiles,  \* files the loader refuses
          NameOf,    \* the name a plugin registers under
          Hole,      \* an emptied slot
          MaxSlots,  \* bound on the vector
          MaxPaths   \* bound on the paths given to load_paths

ASSUME PluginManagerAssumption ==
  /\ Hole \notin Plugins /\ BadFiles \cap Plugins = {}
  /\ NameOf \in [Plugins -> {NameOf[p] : p \in Plugins}]
  /\ MaxSlots \in Nat /\ MaxPaths \in Nat

VARIABLES index,   \* name_index
          slots,   \* plugins
          pc,      \* "ready", or the loop that is running
          paths,   \* the paths load_paths has still to go through
          entries, \* what read_dir has still to yield
          count,   \* the plugins the call counted so far
          answer,  \* what the last call returned
          before   \* history: <<p, q>>, both held, p was loaded before q

held == <<index, slots, before>>
callVars == <<paths, entries, count>>
vars == <<held, pc, callVars, answer>>

Names == {NameOf[p] : p \in Plugins}
Files == Plugins \cup BadFiles

\* A path is a file, a directory, which may be unreadable, or nothing at all.
Path == [kind : {"file"}, file : Files]
          \cup [kind : {"dir"}, entries : SUBSET Files]
          \cup [kind : {"unreadable", "missing"}]

NoNames == [n \in {} |-> 0]

Live == {i \in DOMAIN slots : slots[i] # Hole}

Init ==
  /\ index = NoNames
  /\ slots = <<>>
  /\ pc = "ready"
  /\ paths = <<>> /\ entries = {} /\ count = 0
  /\ answer = "none"
  /\ before = {}

-----------------------------------------------------------------------------
(* load_file; load_wasm and load_wasm_manifest have the same shape. *)

\* Seeded fault: the loader does not look for a plugin of the same name.
LoadsReplacing(f) == f \in Plugins

Loads(f) == f \in Plugins /\ NameOf[f] \notin DOMAIN index

\* Seeded fault: the first hole is filled.
RegisterInHole(p) ==
  /\ Len(slots) < MaxSlots
  /\ LET holes == DOMAIN slots \ Live
         slot == IF holes = {} THEN Len(slots) + 1
                 ELSE CHOOSE i \in holes : \A j \in holes : i <= j
     IN  /\ slots' = [i \in DOMAIN slots \cup {slot} |-> IF i = slot THEN p ELSE slots[i]]
         /\ index' = [n \in DOMAIN index \cup {NameOf[p]} |->
                        IF n = NameOf[p] THEN slot ELSE index[n]]

\* The plugin takes a new slot at the end: holes are not filled.
Register(p) ==
  /\ Len(slots) < MaxSlots
  /\ slots' = Append(slots, p)
  /\ index' = [n \in DOMAIN index \cup {NameOf[p]} |->
                 IF n = NameOf[p] THEN Len(slots) + 1 ELSE index[n]]

\* History of the load order.
Held == {slots[i] : i \in Live}
Remember(p) == before' = before \cup (Held \X {p})
Forget(p) == before' = {b \in before : p \notin {b[1], b[2]}}

LoadOk(f) ==
  /\ pc = "ready"
  /\ Loads(f)
  /\ Register(f) /\ Remember(f)
  /\ answer' = "ok"
  /\ UNCHANGED <<pc, callVars>>

\* PluginError::Load, or DuplicateName: the library is closed again.
LoadFails(f) ==
  /\ pc = "ready"
  /\ ~Loads(f)
  /\ answer' = "error"
  /\ UNCHANGED <<held, pc, callVars>>

-----------------------------------------------------------------------------
(* load_paths, and load_from_directory for each directory. *)

\* A batch is given only where the bound leaves room for what it may add.
LoadPaths ==
  /\ pc = "ready"
  /\ Len(slots) + Cardinality(Names \ DOMAIN index) <= MaxSlots
  /\ \E n \in 1 .. MaxPaths : paths' \in [1 .. n -> Path]
  /\ pc' = "paths"
  /\ entries' = {} /\ count' = 0
  /\ UNCHANGED <<held, answer>>

\* A file of the batch: a failure is logged and skipped.
TryLoad(f) ==
  IF Loads(f)
    THEN Register(f) /\ Remember(f) /\ count' = count + 1
    ELSE UNCHANGED <<held, count>>

NextFile ==
  /\ pc = "paths" /\ paths # <<>> /\ Head(paths).kind = "file"
  /\ TryLoad(Head(paths).file)
  /\ paths' = Tail(paths)
  /\ UNCHANGED <<pc, entries, answer>>

NextDirectory ==
  /\ pc = "paths" /\ paths # <<>> /\ Head(paths).kind = "dir"
  /\ entries' = Head(paths).entries
  /\ pc' = "entries"
  /\ paths' = Tail(paths)
  /\ UNCHANGED <<held, count, answer>>

NextMissing ==
  /\ pc = "paths" /\ paths # <<>> /\ Head(paths).kind = "missing"
  /\ paths' = Tail(paths)
  /\ UNCHANGED <<held, pc, entries, count, answer>>

\* read_dir fails: load_paths returns the error, not what it has loaded so far.
NextUnreadable ==
  /\ pc = "paths" /\ paths # <<>> /\ Head(paths).kind = "unreadable"
  /\ pc' = "ready" /\ answer' = "error"
  /\ paths' = <<>> /\ count' = 0
  /\ UNCHANGED <<held, entries>>

\* The order of a directory's entries is the file system's.
NextEntry ==
  /\ pc = "entries"
  /\ \E f \in entries : TryLoad(f) /\ entries' = entries \ {f}
  /\ UNCHANGED <<pc, paths, answer>>

DirectoryEnds ==
  /\ pc = "entries" /\ entries = {}
  /\ pc' = "paths"
  /\ UNCHANGED <<held, callVars, answer>>

LoadPathsReturns ==
  /\ pc = "paths" /\ paths = <<>>
  /\ pc' = "ready" /\ answer' = "ok"
  /\ UNCHANGED <<held, callVars>>

-----------------------------------------------------------------------------
(* invoke; get and plugin_kind find a plugin the same way. *)

Found(n) == n \in DOMAIN index /\ slots[index[n]] # Hole

\* PluginError::NotFound, or whatever the plugin itself returns.
Invoke(n) ==
  /\ pc = "ready"
  /\ answer' \in {"error"} \cup (IF Found(n) THEN {"ok"} ELSE {})
  /\ UNCHANGED <<held, pc, callVars>>

-----------------------------------------------------------------------------
(* unload and unload_all *)

UnloadSlot(n) ==
  /\ index' = [m \in DOMAIN index \ {n} |-> index[m]]
  /\ slots' = [slots EXCEPT ![index[n]] = Hole]

Unload(n) ==
  /\ pc = "ready"
  /\ n \in DOMAIN index
  /\ UnloadSlot(n) /\ Forget(slots[index[n]])
  /\ answer' = "ok"
  /\ UNCHANGED <<pc, callVars>>

UnloadNotFound(n) ==
  /\ pc = "ready"
  /\ n \notin DOMAIN index
  /\ answer' = "error"
  /\ UNCHANGED <<held, pc, callVars>>

UnloadAll ==
  /\ pc = "ready" /\ pc' = "releasing"
  /\ UNCHANGED <<held, callVars, answer>>

\* The next turn of the loop that finds something to drop.
ReleaseTurn(i) == \A j \in Live : j <= i

\* NativeBackend::drop calls the plugin's destroy, then closes its library.
Release ==
  /\ pc = "releasing"
  /\ \E i \in Live : /\ ReleaseTurn(i)
                    /\ slots' = [slots EXCEPT ![i] = Hole]
                    /\ Forget(slots[i])
  /\ UNCHANGED <<index, pc, callVars, answer>>

UnloadAllReturns ==
  /\ pc = "releasing" /\ Live = {}
  /\ index' = NoNames
  /\ slots' = <<>> /\ before' = {}
  /\ pc' = "ready"
  /\ answer' = "ok"
  /\ UNCHANGED callVars

-----------------------------------------------------------------------------

Batch ==
  \/ LoadPaths \/ NextFile \/ NextDirectory \/ NextMissing \/ NextUnreadable
  \/ NextEntry \/ DirectoryEnds \/ LoadPathsReturns

Next ==
  \/ \E f \in Files : LoadOk(f) \/ LoadFails(f)
  \/ Batch
  \/ \E n \in Names : Invoke(n) \/ Unload(n) \/ UnloadNotFound(n)
  \/ UnloadAll \/ Release \/ UnloadAllReturns

Spec == Init /\ [][Next]_vars

-----------------------------------------------------------------------------

TypeOK ==
  /\ DOMAIN index \subseteq Names
  /\ index \in [DOMAIN index -> 1 .. Len(slots)]
  /\ slots \in Seq(Plugins \cup {Hole})
  /\ pc \in {"ready", "paths", "entries", "releasing"}
  /\ entries \subseteq Files
  /\ paths \in Seq(Path)
  /\ count \in Nat
  /\ answer \in {"none", "ok", "error"}

\* The index and the slots agree: a name leads to the plugin that registered
\* it, and every plugin that is held can be found under its name, so that it
\* can be unloaded.  While unload_all runs, the slots are emptied first.
IndexAgrees ==
  /\ \A n \in DOMAIN index :
       \/ slots[index[n]] # Hole /\ NameOf[slots[index[n]]] = n
       \/ slots[index[n]] = Hole /\ pc = "releasing"
  /\ \A i \in Live : NameOf[slots[i]] \in DOMAIN index /\ index[NameOf[slots[i]]] = i

\* unload_all ("Unload all plugins in reverse load order") lets no plugin go
\* while one loaded after it is still there, whatever was unloaded, and loaded
\* again, in between.
ReleasedInReverse ==
  [][pc = "releasing" => \A i, j \in Live :
       i \in DOMAIN slots' /\ slots'[i] = Hole => <<slots[i], slots[j]>> \notin before]_vars

\* What the registry sees: the names that lead to a plugin.
Reachable == {n \in DOMAIN index : slots[index[n]] # Hole}

LoadedBar == [n \in Reachable |-> slots[index[n]]]

Registry == INSTANCE PluginRegistry WITH loaded <- LoadedBar

\* The manager implements the registry: each turn of a loop and each call
\* registers one plugin, removes one, or changes nothing the registry sees.
RefinesRegistry == Registry!Spec

=============================================================================
