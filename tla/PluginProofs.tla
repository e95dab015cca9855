---------------------------- MODULE PluginProofs ----------------------------
(***************************************************************************)
(* The plugins of the host: those it loads into itself (PluginManager),    *)
(* those it runs as processes (PluginProcess), and the brokers that open   *)
(* further connections to one of these (GrpcBroker).                       *)
(*                                                                         *)
(* The plugin manager keeps its index and its slots in agreement and       *)
(* implements the registry, for any plugins, names and bounds.             *)
(*                                                                         *)
(* TypeOK and IndexAgrees are inductive together: a hole can be reached    *)
(* from the index only inside unload_all, and that two names cannot share  *)
(* a slot follows from the plugin in it having one name.                   *)
(*                                                                         *)
(* A plugin's process and its Client, for any versions, any configuration, *)
(* any number of chunks and any room in the channels.                      *)
(*                                                                         *)
(* The versions: a command is started once, since start takes it; so there *)
(* is one thread, one process and one line, and the line stays what the    *)
(* client read when it kept the child.  A plugin's line holds the version  *)
(* that it chose from the environment, where the host's are.               *)
(*                                                                         *)
(* The output: what is in the two channels and on the way is, pipe by      *)
(* pipe, the chunks between what the host has mirrored and what the task   *)
(* of the pipe has read, in their order.                                   *)
(*                                                                         *)
(* A dial that succeeds has reached the accept of its id on the other      *)
(* side, and no dial waits for an answer nobody holds: for any number of   *)
(* accepts, dials and ids, and announcements that are late or lost.        *)
(*                                                                         *)
(* The id travels from the accept into the announcement, from there        *)
(* through the table to the dial, and back as an address.  The invariant   *)
(* follows it: what is in the table is a dial of that id and side          *)
(* (TableAgrees), what is on the wire is of an accept of that id on the    *)
(* other side (WireAgrees), which by then is bound to its id, and who has  *)
(* connected has done so with the address it was given.                    *)
(***************************************************************************)
EXTENDS PluginManager, PluginProcess, GrpcBroker, FiniteSetTheorems, WellFoundedInduction, TLAPS

-----------------------------------------------------------------------------
(* The manager *)

\* Of two plugins held, the one in the earlier slot was loaded before the other.
OrderKept ==
  /\ before \subseteq Held \X Held
  /\ \A i, j \in Live : <<slots[i], slots[j]>> \in before <=> i < j

ManagerInv == TypeOK /\ IndexAgrees /\ OrderKept

-----------------------------------------------------------------------------
(* The operations on the two tables. *)

\* A plugin that takes a new slot keeps the index sound, if its name was free.
LEMMA RegisterKeeps ==
  ASSUME TypeOK, IndexAgrees, pc # "releasing", pc' # "releasing",
         NEW p \in Plugins, NameOf[p] \notin DOMAIN index, Register(p)
  PROVE  /\ slots' \in Seq(Plugins \cup {Hole})
         /\ DOMAIN index' \subseteq Names
         /\ index' \in [DOMAIN index' -> 1 .. Len(slots')]
         /\ IndexAgrees'
<1> DEFINE k == Len(slots) + 1
<1>1. /\ slots' = Append(slots, p) /\ slots' \in Seq(Plugins \cup {Hole})
      /\ Len(slots') = k /\ k \in Nat /\ DOMAIN slots = 1 .. Len(slots) /\ DOMAIN slots' = 1 .. k
      /\ slots'[k] = p /\ \A i \in 1 .. Len(slots) : slots'[i] = slots[i]
  BY DEF Register, TypeOK
<1>2. /\ index' = [n \in DOMAIN index \cup {NameOf[p]} |-> IF n = NameOf[p] THEN k ELSE index[n]]
      /\ index \in [DOMAIN index -> 1 .. Len(slots)]
  BY DEF Register, TypeOK
<1>3. NameOf[p] \in Names /\ Hole \notin Plugins
  BY PluginManagerAssumption DEF Names
<1>4. DOMAIN index' \subseteq Names
  BY <1>2, <1>3 DEF TypeOK
<1>5. index' \in [DOMAIN index' -> 1 .. Len(slots')]
  BY <1>1, <1>2
<1>6. \A n \in DOMAIN index' : slots'[index'[n]] # Hole /\ NameOf[slots'[index'[n]]] = n
  BY <1>1, <1>2, <1>3 DEF IndexAgrees
<1>7. \A i \in Live' : NameOf[slots'[i]] \in DOMAIN index' /\ index'[NameOf[slots'[i]]] = i
  BY <1>1, <1>2, <1>3 DEF IndexAgrees, Live
<1> QED BY <1>1, <1>4, <1>5, <1>6, <1>7 DEF IndexAgrees

\* An unload keeps the index sound: no other name leads to the emptied slot.
LEMMA UnloadKeeps ==
  ASSUME TypeOK, IndexAgrees, pc = "ready", pc' = "ready",
         NEW n \in DOMAIN index, UnloadSlot(n)
  PROVE  /\ slots' \in Seq(Plugins \cup {Hole})
         /\ DOMAIN index' \subseteq Names
         /\ index' \in [DOMAIN index' -> 1 .. Len(slots')]
         /\ IndexAgrees'
<1> DEFINE k == index[n]
<1>1. /\ k \in DOMAIN slots /\ slots[k] # Hole /\ NameOf[slots[k]] = n
  BY DEF TypeOK, IndexAgrees
<1>2. /\ slots' = [slots EXCEPT ![k] = Hole] /\ slots' \in Seq(Plugins \cup {Hole})
      /\ Len(slots') = Len(slots) /\ DOMAIN slots' = DOMAIN slots
      /\ slots'[k] = Hole /\ \A i \in DOMAIN slots : i # k => slots'[i] = slots[i]
  BY <1>1 DEF UnloadSlot, TypeOK
<1>3. index' = [m \in DOMAIN index \ {n} |-> index[m]]
  BY DEF UnloadSlot
<1>4. DOMAIN index' \subseteq Names /\ index' \in [DOMAIN index' -> 1 .. Len(slots')]
  BY <1>2, <1>3 DEF TypeOK
<1>5. \A m \in DOMAIN index' : slots'[index'[m]] # Hole /\ NameOf[slots'[index'[m]]] = m
  BY <1>1, <1>2, <1>3 DEF IndexAgrees, TypeOK
<1>6. \A i \in Live' : NameOf[slots'[i]] \in DOMAIN index' /\ index'[NameOf[slots'[i]]] = i
  BY <1>1, <1>2, <1>3 DEF IndexAgrees, Live
<1> QED BY <1>2, <1>4, <1>5, <1>6 DEF IndexAgrees

\* A slot emptied by unload_all leaves the others reachable.
LEMMA ReleaseKeeps ==
  ASSUME TypeOK, IndexAgrees, pc = "releasing", UNCHANGED <<pc, index>>,
         NEW k \in Live, slots' = [slots EXCEPT ![k] = Hole]
  PROVE  /\ slots' \in Seq(Plugins \cup {Hole})
         /\ Len(slots') = Len(slots)
         /\ IndexAgrees'
<1>1. /\ slots' \in Seq(Plugins \cup {Hole})
      /\ Len(slots') = Len(slots) /\ DOMAIN slots' = DOMAIN slots
      /\ slots'[k] = Hole /\ \A i \in DOMAIN slots : i # k => slots'[i] = slots[i]
  BY DEF TypeOK, Live
<1>2. \A n \in DOMAIN index : index[n] \in DOMAIN slots
  BY DEF TypeOK
<1> QED BY <1>1, <1>2 DEF IndexAgrees, Live

\* No plugin is in two slots.
LEMMA OneSlotEach ==
  ASSUME IndexAgrees, NEW i \in Live, NEW j \in Live, slots[i] = slots[j]
  PROVE  i = j
BY DEF IndexAgrees

\* A new plugin is in the last slot, and comes after all that are held.
LEMMA RegisterKeepsOrder ==
  ASSUME ManagerInv, NEW p \in Plugins, NameOf[p] \notin DOMAIN index, Register(p), Remember(p)
  PROVE  OrderKept'
<1> DEFINE k == Len(slots) + 1
<1>1. /\ k \in Nat /\ DOMAIN slots = 1 .. Len(slots) /\ DOMAIN slots' = 1 .. k /\ slots'[k] = p
      /\ \A i \in 1 .. Len(slots) : slots'[i] = slots[i] /\ i < k
  BY DEF Register, ManagerInv, TypeOK
<1>2. p # Hole
  BY PluginManagerAssumption
<1>3. Live' = Live \cup {k} /\ Live \subseteq 1 .. Len(slots)
  BY <1>1, <1>2 DEF Live
<1>4. p \notin Held
  BY DEF ManagerInv, IndexAgrees, Held
<1>5. Held' = Held \cup {p}
  BY <1>1, <1>3 DEF Held
<1>6. before' = before \cup (Held \X {p}) /\ before \subseteq Held \X Held
  BY DEF Remember, ManagerInv, OrderKept
<1>7. before' \subseteq Held' \X Held'
  BY <1>5, <1>6
<1>8. ASSUME NEW i \in Live', NEW j \in Live'
      PROVE  <<slots'[i], slots'[j]>> \in before' <=> i < j
  <2>1. CASE i \in Live /\ j \in Live
    <3>1. slots'[i] = slots[i] /\ slots'[j] = slots[j] /\ slots[j] # p
      BY <1>1, <1>3, <1>4, <2>1 DEF Held
    <3>2. <<slots[i], slots[j]>> \in before' <=> <<slots[i], slots[j]>> \in before
      BY <1>6, <3>1
    <3> QED BY <2>1, <3>1, <3>2 DEF ManagerInv, OrderKept
  <2>2. CASE i \in Live /\ j = k
    <3>1. slots'[i] \in Held /\ slots'[j] = p /\ i < j
      BY <1>1, <1>3, <2>2 DEF Held
    <3> QED BY <1>6, <3>1
  <2>3. CASE i = k
    <3>1. slots'[i] = p /\ ~(i < j)
      BY <1>1, <1>3, <2>3
    <3>2. <<p, slots'[j]>> \notin before'
      BY <1>4, <1>6
    <3> QED BY <3>1, <3>2
  <2> QED BY <1>3, <2>1, <2>2, <2>3
<1> QED BY <1>7, <1>8 DEF OrderKept

\* The order of those that stay is what it was.
LEMMA HoleKeepsOrder ==
  ASSUME ManagerInv, NEW k \in Live, slots' = [slots EXCEPT ![k] = Hole], Forget(slots[k])
  PROVE  OrderKept'
<1>1. /\ DOMAIN slots' = DOMAIN slots /\ slots'[k] = Hole
      /\ \A i \in DOMAIN slots : i # k => slots'[i] = slots[i]
  BY DEF Live
<1>2. Live' = Live \ {k}
  BY <1>1 DEF Live
<1>3. \A i \in Live \ {k} : slots[i] # slots[k] /\ slots'[i] = slots[i]
  BY <1>1, OneSlotEach DEF Live, ManagerInv
<1>4. Held' = Held \ {slots[k]}
  BY <1>2, <1>3 DEF Held
<1>5. before' = {b \in before : slots[k] \notin {b[1], b[2]}} /\ before \subseteq Held \X Held
  BY DEF Forget, ManagerInv, OrderKept
<1>6. before' \subseteq Held' \X Held'
  BY <1>4, <1>5
<1>7. ASSUME NEW i \in Live', NEW j \in Live'
      PROVE  <<slots'[i], slots'[j]>> \in before' <=> i < j
  <2>1. /\ i \in Live /\ j \in Live /\ slots'[i] = slots[i] /\ slots'[j] = slots[j]
        /\ slots[i] # slots[k] /\ slots[j] # slots[k]
    BY <1>2, <1>3
  <2>2. <<slots[i], slots[j]>> \in before' <=> <<slots[i], slots[j]>> \in before
    BY <1>5, <2>1
  <2> QED BY <2>1, <2>2 DEF ManagerInv, OrderKept
<1> QED BY <1>6, <1>7 DEF OrderKept

\* A file of a batch is registered, or skipped.
LEMMA TryLoadKeeps ==
  ASSUME ManagerInv, pc # "releasing", pc' # "releasing", NEW f \in Files, TryLoad(f)
  PROVE  /\ slots' \in Seq(Plugins \cup {Hole})
         /\ DOMAIN index' \subseteq Names
         /\ index' \in [DOMAIN index' -> 1 .. Len(slots')]
         /\ IndexAgrees' /\ OrderKept'
         /\ count' \in Nat
<1>1. CASE Loads(f)
  <2>1. f \in Plugins /\ NameOf[f] \notin DOMAIN index /\ Register(f) /\ Remember(f)
    BY <1>1 DEF TryLoad, Loads
  <2>2. count' \in Nat
    BY <1>1 DEF TryLoad, ManagerInv, TypeOK
  <2> QED BY <2>1, <2>2, RegisterKeeps, RegisterKeepsOrder DEF ManagerInv
<1>2. CASE ~Loads(f)
  BY <1>2 DEF TryLoad, held, ManagerInv, TypeOK, IndexAgrees, Live, OrderKept, Held
<1> QED BY <1>1, <1>2

-----------------------------------------------------------------------------
(* The invariant *)

\* An empty manager satisfies the invariant.
LEMMA InitHolds == Init => ManagerInv
<1> SUFFICES ASSUME Init PROVE ManagerInv
  OBVIOUS
<1>1. slots = <<>> /\ DOMAIN index = {} /\ index = NoNames
  BY DEF Init, NoNames
<1>2. TypeOK
  BY <1>1 DEF Init, TypeOK, NoNames
<1>3. IndexAgrees
  BY <1>1 DEF IndexAgrees, Live
<1>4. OrderKept
  BY <1>1 DEF Init, OrderKept, Held, Live
<1> QED BY <1>2, <1>3, <1>4 DEF ManagerInv

\* Every step keeps the invariant.
LEMMA StepKeeps == ManagerInv /\ [Next]_vars => ManagerInv'
<1> SUFFICES ASSUME ManagerInv, [Next]_vars PROVE ManagerInv'
  OBVIOUS
<1> USE DEF ManagerInv
<1>1. ASSUME NEW f \in Files, LoadOk(f) PROVE ManagerInv'
  <2>1. f \in Plugins /\ NameOf[f] \notin DOMAIN index /\ Register(f) /\ Remember(f)
    BY <1>1 DEF LoadOk, Loads
  <2>2. pc = "ready" /\ pc' = "ready" /\ answer' = "ok" /\ UNCHANGED callVars
    BY <1>1 DEF LoadOk
  <2>3. OrderKept'
    BY <2>1, RegisterKeepsOrder
  <2> QED BY <2>1, <2>2, <2>3, RegisterKeeps DEF TypeOK, callVars
<1>2. ASSUME NEW f \in Files, LoadFails(f) PROVE ManagerInv'
  BY <1>2 DEF LoadFails, callVars, TypeOK, IndexAgrees, Live, OrderKept, Held, held
<1>3. CASE LoadPaths
  <2>1. paths' \in Seq(Path)
    BY <1>3 DEF LoadPaths
  <2> QED BY <1>3, <2>1 DEF LoadPaths, TypeOK, IndexAgrees, Live, OrderKept, Held, held
<1>4. CASE NextFile
  <2>1. /\ paths # <<>> /\ Head(paths) \in Path /\ Head(paths).kind = "file"
        /\ paths' = Tail(paths) /\ Tail(paths) \in Seq(Path)
    BY <1>4 DEF NextFile, TypeOK
  <2>2. Head(paths).file \in Files
    BY <2>1 DEF Path
  <2>3. TryLoad(Head(paths).file) /\ pc = "paths" /\ UNCHANGED <<pc, entries, answer>>
    BY <1>4 DEF NextFile
  <2> QED BY <2>1, <2>2, <2>3, TryLoadKeeps DEF TypeOK
<1>5. CASE NextDirectory
  <2>1. /\ Head(paths) \in Path /\ Head(paths).kind = "dir"
        /\ Tail(paths) \in Seq(Path)
    BY <1>5 DEF NextDirectory, TypeOK
  <2>2. Head(paths).entries \subseteq Files
    BY <2>1 DEF Path
  <2> QED BY <1>5, <2>1, <2>2 DEF NextDirectory, TypeOK, IndexAgrees, Live, OrderKept, Held, held
<1>6. CASE NextMissing
  BY <1>6 DEF NextMissing, TypeOK, IndexAgrees, Live, OrderKept, Held, held
<1>7. CASE NextUnreadable
  BY <1>7 DEF NextUnreadable, TypeOK, IndexAgrees, Live, OrderKept, Held, held
<1>8. CASE NextEntry
  <2>1. PICK f \in entries : TryLoad(f) /\ entries' = entries \ {f}
    BY <1>8 DEF NextEntry
  <2>2. pc = "entries" /\ UNCHANGED <<pc, paths, answer>>
    BY <1>8 DEF NextEntry
  <2>3. f \in Files /\ entries' \subseteq Files
    BY <2>1 DEF TypeOK
  <2> QED BY <2>1, <2>2, <2>3, TryLoadKeeps DEF TypeOK
<1>9. CASE DirectoryEnds
  BY <1>9 DEF DirectoryEnds, callVars, TypeOK, IndexAgrees, Live, OrderKept, Held, held
<1>10. CASE LoadPathsReturns
  BY <1>10 DEF LoadPathsReturns, callVars, TypeOK, IndexAgrees, Live, OrderKept, Held, held
<1>11. ASSUME NEW n \in Names, Unload(n) PROVE ManagerInv'
  <2>1. /\ pc = "ready" /\ pc' = "ready" /\ n \in DOMAIN index /\ UnloadSlot(n)
        /\ answer' = "ok" /\ UNCHANGED callVars
        /\ Forget(slots[index[n]]) /\ slots' = [slots EXCEPT ![index[n]] = Hole]
    BY <1>11 DEF Unload, UnloadSlot
  <2>2. index[n] \in Live
    BY <2>1 DEF IndexAgrees, TypeOK, Live
  <2>3. OrderKept'
    BY <2>1, <2>2, HoleKeepsOrder
  <2> QED BY <2>1, <2>3, UnloadKeeps DEF TypeOK, callVars
<1>12. ASSUME NEW n \in Names, UnloadNotFound(n) PROVE ManagerInv'
  BY <1>12 DEF UnloadNotFound, callVars, TypeOK, IndexAgrees, Live, OrderKept, Held, held
<1>13. CASE UnloadAll
  BY <1>13 DEF UnloadAll, callVars, TypeOK, IndexAgrees, Live, OrderKept, Held, held
<1>14. CASE Release
  <2>1. PICK k \in Live : slots' = [slots EXCEPT ![k] = Hole] /\ Forget(slots[k])
    BY <1>14 DEF Release
  <2>2. pc = "releasing" /\ UNCHANGED <<index, pc, callVars, answer>>
    BY <1>14 DEF Release
  <2>3. OrderKept'
    BY <2>1, HoleKeepsOrder
  <2> QED BY <2>1, <2>2, <2>3, ReleaseKeeps DEF TypeOK, callVars
<1>15. CASE UnloadAllReturns
  <2>1. slots' = <<>> /\ index' = NoNames /\ DOMAIN NoNames = {}
    BY <1>15 DEF UnloadAllReturns, NoNames
  <2> QED BY <1>15, <2>1
       DEF UnloadAllReturns, NoNames, callVars, TypeOK, IndexAgrees, Live, OrderKept, Held, held
<1>16. ASSUME NEW n \in Names, Invoke(n) PROVE ManagerInv'
  BY <1>16 DEF Invoke, callVars, TypeOK, IndexAgrees, Live, OrderKept, Held, held
<1>17. CASE UNCHANGED vars
  BY <1>17 DEF vars, callVars, TypeOK, IndexAgrees, Live, OrderKept, Held, held
<1> QED BY <1>1, <1>2, <1>3, <1>4, <1>5, <1>6, <1>7, <1>8, <1>9, <1>10, <1>11, <1>12,
           <1>13, <1>14, <1>15, <1>16, <1>17 DEF Next, Batch

\* The strengthened invariant holds of every sequence of calls.
THEOREM ManagerInvariance == Spec => []ManagerInv
BY InitHolds, StepKeeps, PTL DEF Spec

-----------------------------------------------------------------------------
(* What it says *)

\* The index never leads outside the vector, and nothing else loses its type.
THEOREM TypeCorrect == Spec => []TypeOK
<1>1. ManagerInv => TypeOK
  BY DEF ManagerInv
<1> QED BY <1>1, ManagerInvariance, PTL

\* Whatever is loaded and unloaded, in whatever order, every name leads to the
\* plugin that registered it and every plugin held can be found and unloaded.
THEOREM IndexIsSound == Spec => []IndexAgrees
<1>1. ManagerInv => IndexAgrees
  BY DEF ManagerInv
<1> QED BY <1>1, ManagerInvariance, PTL

\* While unload_all runs, no plugin is let go before one that was loaded after it,
\* whichever slots were emptied and whichever plugins were loaded again before: the loop
\* goes by the slots, and the invariant says that their order is the load order.
THEOREM ReverseRelease == Spec => ReleasedInReverse
<1>1. ASSUME ManagerInv, [Next]_vars, pc = "releasing"
      PROVE  UNCHANGED vars \/ \A i, j \in Live :
               i \in DOMAIN slots' /\ slots'[i] = Hole => <<slots[i], slots[j]>> \notin before
  <2>1. Release \/ UnloadAllReturns \/ UNCHANGED vars
    BY <1>1 DEF Next, Batch, LoadOk, LoadFails, LoadPaths, NextFile, NextDirectory, NextMissing,
                NextUnreadable, NextEntry, DirectoryEnds, LoadPathsReturns, Unload,
                UnloadNotFound, UnloadAll, Invoke
  <2>2. CASE Release
    <3>1. PICK k \in Live : slots' = [slots EXCEPT ![k] = Hole] /\ \A j \in Live : j <= k
      BY <2>2 DEF Release, ReleaseTurn
    <3>2. \A i \in Live : slots'[i] = Hole => i = k
      BY <3>1 DEF Live
    <3>3. Live \subseteq Nat
      BY <1>1 DEF Live, ManagerInv, TypeOK
    <3>4. \A j \in Live : ~(k < j)
      BY <3>1, <3>3
    <3> QED BY <1>1, <3>1, <3>2, <3>4 DEF ManagerInv, OrderKept
  <2>3. CASE UnloadAllReturns
    BY <2>3 DEF UnloadAllReturns
  <2> QED BY <2>1, <2>2, <2>3
<1>2. ManagerInv /\ [Next]_vars =>
        [pc = "releasing" => \A i, j \in Live :
           i \in DOMAIN slots' /\ slots'[i] = Hole => <<slots[i], slots[j]>> \notin before]_vars
  BY <1>1
<1> QED BY <1>2, ManagerInvariance, PTL DEF Spec, ReleasedInReverse

-----------------------------------------------------------------------------
(* The manager implements the registry. *)

\* Taking a new slot is the registration of one plugin.
LEMMA RegisterMaps ==
  ASSUME ManagerInv, pc # "releasing", NEW p \in Plugins, NameOf[p] \notin DOMAIN index, Register(p)
  PROVE  /\ NameOf[p] \notin DOMAIN LoadedBar
         /\ LoadedBar' = [n \in DOMAIN LoadedBar \cup {NameOf[p]} |->
                            IF n = NameOf[p] THEN p ELSE LoadedBar[n]]
<1> DEFINE k == Len(slots) + 1
<1>1. /\ slots' = Append(slots, p) /\ k \in Nat /\ slots'[k] = p
      /\ \A i \in 1 .. Len(slots) : slots'[i] = slots[i] /\ i # k
  BY DEF Register, ManagerInv, TypeOK
<1>2. /\ index' = [n \in DOMAIN index \cup {NameOf[p]} |-> IF n = NameOf[p] THEN k ELSE index[n]]
      /\ \A n \in DOMAIN index : index[n] \in 1 .. Len(slots)
  BY DEF Register, ManagerInv, TypeOK
<1>3. Hole \notin Plugins
  BY PluginManagerAssumption
<1>4. Reachable' = Reachable \cup {NameOf[p]}
  BY <1>1, <1>2, <1>3 DEF Reachable
<1>5. \A n \in Reachable' : slots'[index'[n]] = IF n = NameOf[p] THEN p ELSE slots[index[n]]
  BY <1>1, <1>2 DEF Reachable
<1> QED BY <1>4, <1>5 DEF LoadedBar, Reachable

\* Emptying a slot is the removal of one name.
LEMMA HoleMaps ==
  ASSUME ManagerInv, NEW k \in Live, slots' = [slots EXCEPT ![k] = Hole],
         index' \in {index, [m \in DOMAIN index \ {NameOf[slots[k]]} |-> index[m]]}
  PROVE  /\ NameOf[slots[k]] \in DOMAIN LoadedBar /\ NameOf[slots[k]] \in Names
         /\ LoadedBar' = [m \in DOMAIN LoadedBar \ {NameOf[slots[k]]} |-> LoadedBar[m]]
<1> DEFINE n == NameOf[slots[k]]
<1>1. n \in DOMAIN index /\ index[n] = k /\ slots[k] # Hole /\ k \in DOMAIN slots
  BY DEF ManagerInv, IndexAgrees, Live
<1>2. /\ slots'[k] = Hole /\ \A i \in DOMAIN slots : i # k => slots'[i] = slots[i]
      /\ \A m \in DOMAIN index : index[m] \in DOMAIN slots
  BY <1>1 DEF ManagerInv, TypeOK
<1>3. \A m \in DOMAIN index : slots[index[m]] # Hole /\ m # n => index[m] # k
  BY <1>1 DEF ManagerInv, IndexAgrees
<1>4. Reachable' = Reachable \ {n}
  BY <1>1, <1>2, <1>3 DEF Reachable
<1>5. \A m \in Reachable' : slots'[index'[m]] = slots[index[m]]
  BY <1>1, <1>2, <1>3, <1>4 DEF Reachable
<1>6. n \in Names
  BY <1>1 DEF ManagerInv, TypeOK
<1> QED BY <1>1, <1>4, <1>5, <1>6 DEF LoadedBar, Reachable

\* Each turn of a loop, and each call, registers one plugin, removes one, or
\* changes nothing the registry sees.
LEMMA StepMaps ==
  ASSUME ManagerInv, [Next]_vars
  PROVE  \/ UNCHANGED LoadedBar
         \/ \E p \in Plugins : /\ NameOf[p] \notin DOMAIN LoadedBar
                               /\ LoadedBar' = [n \in DOMAIN LoadedBar \cup {NameOf[p]} |->
                                    IF n = NameOf[p] THEN p ELSE LoadedBar[n]]
         \/ \E n \in Names : /\ n \in DOMAIN LoadedBar
                             /\ LoadedBar' = [m \in DOMAIN LoadedBar \ {n} |-> LoadedBar[m]]
<1>1. CASE UNCHANGED <<index, slots>>
  BY <1>1 DEF LoadedBar, Reachable
<1>2. CASE \E f \in Files : LoadOk(f)
  <2>1. PICK f \in Files : LoadOk(f)
    BY <1>2
  <2>2. /\ f \in Plugins /\ NameOf[f] \notin DOMAIN index /\ Register(f) /\ pc # "releasing"
    BY <2>1 DEF LoadOk, Loads
  <2> QED BY <2>2, RegisterMaps
<1>3. CASE NextFile \/ NextEntry
  <2>1. PICK f : TryLoad(f) /\ pc # "releasing"
    BY <1>3 DEF NextFile, NextEntry
  <2>2. CASE Loads(f)
    BY <2>1, <2>2, RegisterMaps DEF TryLoad, Loads
  <2>3. CASE ~Loads(f)
    BY <2>1, <2>3, <1>1 DEF TryLoad, held
  <2> QED BY <2>2, <2>3
<1>4. CASE \E n \in Names : Unload(n)
  <2>1. PICK n \in Names : Unload(n)
    BY <1>4
  <2>2. index[n] \in Live /\ NameOf[slots[index[n]]] = n
    BY <2>1 DEF Unload, ManagerInv, TypeOK, IndexAgrees, Live
  <2> QED BY <2>1, <2>2, HoleMaps DEF Unload, UnloadSlot
<1>5. CASE Release
  <2>1. PICK k \in Live : slots' = [slots EXCEPT ![k] = Hole]
    BY <1>5 DEF Release
  <2> QED BY <1>5, <2>1, HoleMaps DEF Release
<1>6. CASE UnloadAllReturns
  <2>1. Reachable = {}
    BY <1>6 DEF UnloadAllReturns, Reachable, Live, ManagerInv, TypeOK
  <2>2. Reachable' = {}
    BY <1>6 DEF UnloadAllReturns, Reachable, NoNames
  <2> QED BY <2>1, <2>2 DEF LoadedBar
<1> QED BY <1>1, <1>2, <1>3, <1>4, <1>5, <1>6
     DEF Next, Batch, vars, held, LoadFails, LoadPaths, NextDirectory, NextMissing, NextUnreadable,
         DirectoryEnds, LoadPathsReturns, UnloadNotFound, UnloadAll, Invoke

\* Every behaviour of the manager is one of the registry: a name that is taken
\* keeps its plugin until that plugin is removed, through batches, holes and
\* the turns of unload_all.
THEOREM Refinement == Spec => RefinesRegistry
<1>1. Init => Registry!Init
  BY DEF Init, NoNames, Registry!Init, LoadedBar, Reachable
<1>2. ManagerInv /\ [Next]_vars => [Registry!Next]_LoadedBar
  <2> SUFFICES ASSUME ManagerInv, [Next]_vars PROVE [Registry!Next]_LoadedBar
    OBVIOUS
  <2> QED BY StepMaps
       DEF Registry!Next, Registry!Register, Registry!Remove, Registry!Names, LoadedBar, Reachable,
           Names
<1> QED BY <1>1, <1>2, ManagerInvariance, PTL
     DEF Spec, RefinesRegistry, Registry!Spec

-----------------------------------------------------------------------------
(* The process *)

-----------------------------------------------------------------------------
(* The invariant of start *)

\* A started command is gone, and the line is of the one process it became.
StartedOnce ==
  /\ thread # "none" => ~client.cmd /\ ~client.reattach
  /\ thread # "done" => proc.line = NoLine /\ ~client.child /\ client.pc # "reads"
  /\ proc.pc = "boots" => proc.line = NoLine /\ thread = "done"

\* A plugin of this crate writes its negotiation line or none.
LineIsPlugins ==
  config.binary = "plugin" /\ proc.line # NoLine =>
    \E network \in Listeners :
      proc.line = NegotiationLine(config, Environment(config), network)

\* A child is kept with the version of its line, which is acceptable.
ChildWasAccepted ==
  client.child =>
    /\ proc.line # NoLine /\ Acceptable(config, proc.line)
    /\ client.version = Parse(proc.line).app

StartInv == StartedOnce /\ LineIsPlugins /\ ChildWasAccepted

-----------------------------------------------------------------------------
(* The invariant of the output *)

OutputData == [pipe : Pipes, chunk : Nat]

\* The chunks of pipe p in flow are those above m up to r, in order.
Holds(flow, p, m, r) ==
  /\ \A i \in DOMAIN flow : flow[i].pipe = p => m < flow[i].chunk /\ flow[i].chunk <= r
  /\ \A i, j \in DOMAIN flow :
       i < j /\ flow[i].pipe = p /\ flow[j].pipe = p => flow[i].chunk < flow[j].chunk
  /\ \A n \in Nat : m < n /\ n <= r => \E i \in DOMAIN flow : flow[i] = [pipe |-> p, chunk |-> n]

\* What the host has mirrored of a pipe, counted.
Counted(s) == s \in Seq(Nat) /\ \A n \in 1..Len(s) : s[n] = n

OutputTypes ==
  /\ written \in [Pipes -> Nat] /\ read \in [Pipes -> Nat]
  /\ merged \in Seq(OutputData) /\ stream \in Seq(OutputData)
  /\ mirrored \in [Pipes -> Seq(Nat)]

OutputInv ==
  /\ OutputTypes
  /\ \A p \in Pipes :
       /\ Counted(mirrored[p])
       /\ Len(mirrored[p]) <= read[p]
       /\ Holds(stream \o merged, p, Len(mirrored[p]), read[p])

ProcessInv == ProcessTypeOK /\ StartInv /\ OutputInv

-----------------------------------------------------------------------------
(* The negotiation *)

\* The greatest of a finite set of numbers exists.
LEMMA MaxIsGreatest ==
  ASSUME NEW S, S \subseteq Nat, IsFiniteSet(S), S # {}
  PROVE  Max(S) \in S /\ \A x \in S : x <= Max(S)
<1> DEFINE Above(a) == {x \in S : x >= a}
<1>1. PICK U \in {Above(a) : a \in S} :
        \A V \in {Above(a) : a \in S} : <<V, U>> \notin StrictSubsetOrdering(S)
  <2>1. IsWellFoundedOn(StrictSubsetOrdering(S), SUBSET S)
    BY FS_StrictSubsetOrderingWellFounded, FS_FiniteSubsetsOfFinite
  <2>2. {Above(a) : a \in S} \subseteq SUBSET S /\ {Above(a) : a \in S} # {}
    OBVIOUS
  <2> HIDE DEF Above
  <2> QED BY <2>1, <2>2, WFMin
<1>2. PICK a \in S : U = Above(a)
  BY <1>1
<1>3. \A x \in S : x <= a
  <2> SUFFICES ASSUME NEW x \in S, ~(x <= a) PROVE FALSE
    OBVIOUS
  <2>1. x \in Nat /\ a \in Nat
    OBVIOUS
  <2>a. \A y \in Nat : y >= x => y >= a
    BY <2>1
  <2>b. Above(x) \subseteq Above(a)
    BY <2>a
  <2>c. a \in Above(a) /\ a \notin Above(x) /\ Above(a) \subseteq S
    BY <2>1
  <2>2. <<Above(x), U>> \in StrictSubsetOrdering(S)
    BY <2>b, <2>c, <1>2 DEF StrictSubsetOrdering
  <2> QED BY <2>2, <1>1
<1>4. \E x \in S : \A y \in S : x >= y
  BY <1>3
<1> QED BY <1>4 DEF Max

\* The plugin finds the host's versions in its environment, whatever the host's
\* own environment is.
LEMMA VersionsAreSet ==
  ASSUME NEW c
  PROVE  "versions" \in DOMAIN Environment(c) /\ Environment(c).versions = c.host
<1>1. "versions" \in DOMAIN SetByHost(c) /\ SetByHost(c)["versions"] = c.host
  BY DEF SetByHost, Over
<1> QED BY <1>1 DEF Environment, Over

\* The line says which version the plugin has chosen.
LEMMA LineTellsVersion ==
  ASSUME NEW c, NEW env, NEW n
  PROVE  Parse(NegotiationLine(c, env, n)).app = ServerVersion(c, env)
  BY DEF Parse, NegotiationLine, Encode

-----------------------------------------------------------------------------
(* Types *)

\* A program starts with a client that has done nothing.
LEMMA TypesHoldInitially == ProcessInit => ProcessTypeOK
<1> SUFFICES ASSUME ProcessInit PROVE ProcessTypeOK
  OBVIOUS
<1>1. config \in Configs /\ thread \in {"none", "spawns", "done"}
  BY DEF ProcessInit
<1>2. NoLine \in Lines(config)
  BY DEF Lines
<1>3. PICK cmd \in BOOLEAN, reattach \in BOOLEAN :
        /\ client = [pc |-> "idle", cmd |-> cmd, reattach |-> reattach, child |-> FALSE,
                     connected |-> FALSE, version |-> 0, exited |-> FALSE, killed |-> FALSE]
        /\ proc = [pc |-> IF reattach THEN "serving" ELSE "none", line |-> NoLine,
                   tls |-> FALSE, grpc |-> TRUE, streams |-> FALSE, signalled |-> FALSE]
  BY DEF ProcessInit
<1> QED BY <1>1, <1>2, <1>3 DEF ProcessTypeOK, Processes

\* What an acceptable line says of the version is one of the host's.
LEMMA AcceptableVersion ==
  ASSUME NEW c \in Configs, NEW line, Acceptable(c, line)
  PROVE  Parse(line).app \in c.host /\ Parse(line).app \in Versions
  BY DEF Acceptable, Configs

\* The plugin's own steps keep the types.
LEMMA ProcessKeepsTypes == ASSUME ProcessTypeOK, Process PROVE ProcessTypeOK'
<1> USE DEF ProcessTypeOK, Processes
<1>1. CASE Serve
  <2>1. PICK network \in Listeners \cup {"none"} :
          proc' = IF network = "none" THEN [proc EXCEPT !.pc = "dead"]
                  ELSE [proc EXCEPT !.pc = "serving", !.tls = ServerCert(Environment(config)) # "",
                          !.line = NegotiationLine(config, Environment(config), network)]
    BY <1>1 DEF Serve
  <2>2. network # "none" => NegotiationLine(config, Environment(config), network) \in Lines(config)
    BY DEF Lines, Listeners
  <2>3. PICK tls \in BOOLEAN : tls = (ServerCert(Environment(config)) # "")
    OBVIOUS
  <2>4. CASE network = "none"
    BY <1>1, <2>1, <2>4 DEF Serve
  <2>5. CASE network # "none"
    <3>1. proc' = [proc EXCEPT !.pc = "serving", !.tls = tls,
                     !.line = NegotiationLine(config, Environment(config), network)]
      BY <2>1, <2>3, <2>5
    <3>2. proc' \in Processes(config)
      BY <2>2, <2>5, <3>1 DEF Processes
    <3> QED BY <1>1, <3>2 DEF Serve, Processes
  <2> QED BY <2>4, <2>5
<1>2. CASE ServeOther
  <2>1. PICK line \in ForeignLines \cup {NoLine} :
          proc' = [proc EXCEPT !.pc = "serving", !.line = line,
                     !.grpc = Parses(line) /\ Parse(line).protocol = "grpc"]
    BY <1>2 DEF ServeOther
  <2>2. line \in Lines(config)
    BY DEF Lines
  <2>3. PICK grpc \in BOOLEAN : grpc = (Parses(line) /\ Parse(line).protocol = "grpc")
    OBVIOUS
  <2>4. proc' = [proc EXCEPT !.pc = "serving", !.line = line, !.grpc = grpc]
    BY <2>1, <2>3
  <2>5. proc' \in Processes(config)
    BY <2>2, <2>4 DEF Processes
  <2> QED BY <1>2, <2>5 DEF ServeOther, Processes
<1>3. CASE Crash \/ StopGracefully \/ Die
  BY <1>3 DEF Crash, StopGracefully, Die, Proc
<1> QED BY <1>1, <1>2, <1>3 DEF Process

\* So do the client's calls and its drop.
LEMMA CallKeepsTypes == ASSUME ProcessTypeOK, Call PROVE ProcessTypeOK'
<1> USE DEF ProcessTypeOK, Processes
<1>1. CASE StartTakesCmd \/ StartTimesOut \/ CallDropped
  BY ZenonT(30), <1>1 DEF StartTakesCmd, StartTimesOut, CallDropped
<1>2. CASE StartReattaches
  BY ZenonT(30), <1>2 DEF StartReattaches
<1>3. CASE Spawn
  BY <1>3 DEF Spawn, Proc
<1>4. CASE ReadLine
  BY ZenonT(60), <1>4, AcceptableVersion DEF ReadLine
<1>5. CASE Connect
  BY ZenonT(30), <1>5 DEF Connect
<1>6. CASE OpenStreams
  BY ZenonT(30), <1>6 DEF OpenStreams
<1>7. CASE KillCalled \/ ShutdownReturns
  BY <1>7 DEF KillCalled, ShutdownReturns, ControllerShutdown
<1>8. CASE KillWaits
  BY <1>8 DEF KillWaits, KillReturns
<1>9. CASE DropClient \/ CleanupClients
  BY <1>9 DEF DropClient, CleanupClients
<1> QED BY <1>1, <1>2, <1>3, <1>4, <1>5, <1>6, <1>7, <1>8, <1>9 DEF Call, HostGoesOn

-----------------------------------------------------------------------------
(* Start *)

\* Nothing is started, and nothing kept, at first.
LEMMA StartInvHoldsInitially == ProcessInit => StartInv
  BY DEF ProcessInit, StartInv, StartedOnce, LineIsPlugins, ChildWasAccepted

\* A step that neither takes the command, nor starts, writes or reads the line.
LEMMA StartInvStays ==
  ASSUME StartInv, UNCHANGED <<config, thread>>, proc'.line = proc.line,
         proc'.pc = "boots" => proc.pc = "boots",
         client'.pc = "reads" => client.pc = "reads",
         client'.cmd = client.cmd, client'.reattach = client.reattach,
         client'.child = client.child,
         client.child => client'.version = client.version
  PROVE  StartInv'
  BY DEF StartInv, StartedOnce, LineIsPlugins, ChildWasAccepted

\* Serving writes the line, which was not there, of a process that is no child yet.
LEMMA LineIsWritten ==
  ASSUME ProcessTypeOK, StartInv, Serve \/ ServeOther
  PROVE  StartInv'
<1>1. proc.pc = "boots" /\ proc.line = NoLine /\ UNCHANGED <<config, client, thread>>
  BY DEF Serve, ServeOther, StartInv, StartedOnce
<1>2. thread = "done" /\ ~client.child
  BY <1>1 DEF StartInv, StartedOnce, ChildWasAccepted
<1>3. proc'.pc # "boots" /\ LineIsPlugins'
  <2>1. CASE Serve
    <3>1. PICK network \in Listeners \cup {"none"} :
            proc' = IF network = "none" THEN [proc EXCEPT !.pc = "dead"]
                    ELSE [proc EXCEPT !.pc = "serving", !.tls = ServerCert(Environment(config)) # "",
                            !.line = NegotiationLine(config, Environment(config), network)]
      BY <2>1 DEF Serve
    <3> QED BY <1>1, <3>1 DEF ProcessTypeOK, Processes, LineIsPlugins
  <2>2. CASE ServeOther
    BY <2>2 DEF ServeOther, ProcessTypeOK, Processes, LineIsPlugins
  <2> QED BY <2>1, <2>2
<1> QED BY <1>1, <1>2, <1>3 DEF StartInv, StartedOnce, ChildWasAccepted


\* Taking the command away; nothing was started before.
LEMMA CommandIsTaken ==
  ASSUME ProcessTypeOK, StartInv, StartTakesCmd
  PROVE  StartInv'
<1>1. /\ client.cmd /\ ~client.reattach /\ thread = "none" /\ proc.pc # "boots"
      /\ proc.line = NoLine /\ ~client.child
  BY DEF StartTakesCmd, StartInv, StartedOnce, ProcessTypeOK, Processes
<1>2. /\ client'.cmd = FALSE /\ client'.reattach = client.reattach
      /\ client'.child = client.child /\ client'.pc # "reads"
  BY DEF StartTakesCmd, Idle, ProcessTypeOK, Processes
<1>3. thread' # "done" /\ UNCHANGED <<config, proc>>
  BY <1>1 DEF StartTakesCmd
<1> QED BY <1>1, <1>2, <1>3 DEF StartInv, StartedOnce, LineIsPlugins, ChildWasAccepted

\* Spawning: the one process boots, and has no line.
LEMMA ProcessIsSpawned ==
  ASSUME ProcessTypeOK, StartInv, Spawn
  PROVE  StartInv'
<1>1. /\ thread = "spawns" /\ thread' = "done" /\ UNCHANGED config
      /\ proc.line = NoLine /\ ~client.child /\ ~client.cmd /\ ~client.reattach
  BY DEF Spawn, StartInv, StartedOnce
<1>2. proc'.line = NoLine /\ proc'.pc \in {proc.pc, "boots"}
  BY <1>1 DEF Spawn, Proc, ProcessTypeOK, Processes
<1>3. /\ client'.cmd = client.cmd /\ client'.reattach = client.reattach
      /\ client'.child = client.child
  BY DEF Spawn, ProcessTypeOK, Processes
<1> QED BY <1>1, <1>2, <1>3 DEF StartInv, StartedOnce, LineIsPlugins, ChildWasAccepted

\* Reading keeps a child with an acceptable line only, and its version.
LEMMA LineIsRead ==
  ASSUME ProcessTypeOK, StartInv, ReadLine
  PROVE  StartInv'
<1>1. client.pc = "reads" /\ thread = "done" /\ UNCHANGED <<config, thread, proc>>
  BY DEF ReadLine, StartInv, StartedOnce, ProcessTypeOK, Processes
<1>2. client'.cmd = client.cmd /\ client'.reattach = client.reattach
  BY DEF ReadLine, ProcessTypeOK, Processes
<1>3. ChildWasAccepted'
  <2>1. CASE proc.line # NoLine /\ Acceptable(config, proc.line)
    <3>1. client'.version = Parse(proc.line).app
      BY <2>1 DEF ReadLine, ProcessTypeOK, Processes
    <3> QED BY <1>1, <2>1, <3>1 DEF ChildWasAccepted
  <2>2. CASE ~(proc.line # NoLine /\ Acceptable(config, proc.line))
    <3>1. client'.child = client.child /\ client'.version = client.version
      BY <2>2 DEF ReadLine, ProcessTypeOK, Processes
    <3> QED BY <1>1, <2>2, <3>1 DEF StartInv, ChildWasAccepted
  <2> QED BY <2>1, <2>2
<1> QED BY <1>1, <1>2, <1>3 DEF StartInv, StartedOnce, LineIsPlugins

\* Every step keeps it.
LEMMA StartInvKept == ASSUME ProcessTypeOK, StartInv, ProcessNext PROVE StartInv'
<1>1. CASE Serve \/ ServeOther
  BY <1>1, LineIsWritten
<1>2. CASE StartTakesCmd
  BY <1>2, CommandIsTaken
<1>3. CASE Spawn
  BY <1>3, ProcessIsSpawned
<1>4. CASE ReadLine
  BY <1>4, LineIsRead
<1>5. CASE Crash \/ StopGracefully \/ Die
  <2>1. UNCHANGED <<config, client, thread>> /\ proc' = [proc EXCEPT !.pc = proc'.pc]
    BY <1>5 DEF Crash, StopGracefully, Die, Proc, ProcessTypeOK, Processes
  <2>2. proc'.pc # "boots" /\ proc'.line = proc.line
    BY <1>5 DEF Crash, StopGracefully, Die, Proc, ProcessTypeOK, Processes
  <2> QED BY <2>1, <2>2, StartInvStays
<1>6. CASE StartReattaches
  <2>1. client.reattach /\ thread # "done"
    BY <1>6 DEF StartReattaches, StartInv, StartedOnce, ProcessTypeOK, Processes
  <2>2. ~client.child
    BY <2>1 DEF StartInv, StartedOnce
  <2>3. /\ client'.pc = "connects" /\ client'.cmd = client.cmd
        /\ client'.reattach = client.reattach /\ client'.child = client.child
    BY <1>6 DEF StartReattaches, ProcessTypeOK, Processes
  <2> QED BY <1>6, <2>2, <2>3, StartInvStays DEF StartReattaches
<1>7. CASE StartTimesOut \/ Connect \/ KillCalled \/ CallDropped
  <2>1. /\ client'.pc # "reads" /\ client'.cmd = client.cmd
        /\ client'.reattach = client.reattach /\ client'.child = client.child
        /\ client'.version = client.version
    BY <1>7 DEF StartTimesOut, Connect, KillCalled, CallDropped, ProcessTypeOK, Processes
  <2>2. UNCHANGED <<config, thread, proc>>
    BY <1>7 DEF StartTimesOut, Connect, KillCalled, CallDropped
  <2> QED BY <2>1, <2>2, StartInvStays
<1>8. CASE ShutdownReturns \/ KillWaits \/ DropClient \/ CleanupClients
  <2>1. /\ client'.pc = "reads" => client.pc = "reads"
        /\ client'.cmd = client.cmd
        /\ client'.reattach = client.reattach /\ client'.child = client.child
        /\ client'.version = client.version
    BY ZenonT(30), <1>8 DEF ShutdownReturns, KillWaits, KillReturns, DropClient, CleanupClients,
                   ProcessTypeOK, Processes
  <2>2. UNCHANGED <<config, thread>>
    BY <1>8 DEF ShutdownReturns, KillWaits, DropClient, CleanupClients
  <2>3. proc'.line = proc.line /\ (proc'.pc = "boots" => proc.pc = "boots")
    BY <1>8 DEF ShutdownReturns, ControllerShutdown, KillWaits, DropClient, CleanupClients,
                   ProcessTypeOK, Processes
  <2> QED BY <2>1, <2>2, <2>3, StartInvStays
<1>9. CASE OpenStreams
  <2>1. UNCHANGED <<config, client, thread>>
    BY <1>9 DEF OpenStreams
  <2>2. proc'.line = proc.line /\ proc'.pc = proc.pc
    BY <1>9 DEF OpenStreams, ProcessTypeOK, Processes
  <2> QED BY <2>1, <2>2, StartInvStays
<1>10. CASE PluginWrites \/ StdioGoesOn
  BY <1>10, StartInvStays DEF PluginWrites, StdioGoesOn, procVars
<1> QED BY <1>1, <1>2, <1>3, <1>4, <1>5, <1>6, <1>7, <1>8, <1>9, <1>10
        DEF ProcessNext, Process, Call, HostGoesOn

\* What the plugin has chosen is the highest of the versions that both have.
LEMMA HighestIsChosen ==
  ASSUME NEW c \in Configs, NEW v \in c.host \cap c.versioned
  PROVE  v <= ServerVersion(c, Environment(c))
<1> DEFINE both == c.versioned \cap Environment(c).versions
<1>1. both = c.versioned \cap c.host /\ "versions" \in DOMAIN Environment(c)
  BY VersionsAreSet
<1>2. both \subseteq Nat /\ IsFiniteSet(both) /\ v \in both
  <2>1. both \subseteq Versions
    BY <1>1 DEF Configs
  <2> QED BY <1>1, <2>1, HandshakeAssumption, FS_Subset
<1>3. ServerVersion(c, Environment(c)) = Max(both)
  BY <1>1, <1>2 DEF ServerVersion
<1> HIDE DEF both
<1> QED BY <1>2, <1>3, MaxIsGreatest

\* The invariant agrees on versions.
LEMMA StartInvAgrees == ASSUME ProcessTypeOK, StartInv PROVE VersionsAgree
<1> SUFFICES ASSUME client.child
             PROVE  /\ client.version = Parse(proc.line).app /\ client.version \in config.host
                    /\ config.binary = "plugin" =>
                         \A v \in config.host \cap config.versioned : v <= client.version
  BY DEF VersionsAgree
<1>1. /\ proc.line # NoLine /\ Acceptable(config, proc.line) /\ config \in Configs
      /\ client.version = Parse(proc.line).app
  BY DEF StartInv, ChildWasAccepted, ProcessTypeOK, Processes
<1>2. client.version \in config.host
  BY <1>1, AcceptableVersion
<1>3. ASSUME config.binary = "plugin", NEW v \in config.host \cap config.versioned
      PROVE  v <= client.version
  <2>1. PICK network \in Listeners :
          proc.line = NegotiationLine(config, Environment(config), network)
    BY <1>1, <1>3 DEF StartInv, LineIsPlugins
  <2>2. client.version = ServerVersion(config, Environment(config))
    BY <1>1, <2>1, LineTellsVersion
  <2> QED BY <1>1, <2>2, HighestIsChosen
<1> QED BY <1>1, <1>2, <1>3

-----------------------------------------------------------------------------
(* Sequences *)

\* What is appended to the second of two sequences is appended to both.
LEMMA AppendToSecond ==
  ASSUME NEW S, NEW s \in Seq(S), NEW t \in Seq(S), NEW x \in S
  PROVE  s \o Append(t, x) = Append(s \o t, x)
  OBVIOUS

\* Moving the head of the second to the end of the first moves nothing.
LEMMA HeadIsForwarded ==
  ASSUME NEW S, NEW s \in Seq(S), NEW t \in Seq(S), t # <<>>
  PROVE  Append(s, Head(t)) \o Tail(t) = s \o t
  OBVIOUS

\* The tail of the first is the tail of both.
LEMMA TailOfFirst ==
  ASSUME NEW S, NEW s \in Seq(S), NEW t \in Seq(S), s # <<>>
  PROVE  Tail(s) \o t = Tail(s \o t) /\ Head(s \o t) = Head(s) /\ s \o t # <<>>
  OBVIOUS

\* The elements of a sequence, of its tail and of a longer one.
LEMMA Elements ==
  ASSUME NEW S, NEW s \in Seq(S), NEW x \in S
  PROVE  /\ Append(s, x) \in Seq(S) /\ Len(Append(s, x)) = Len(s) + 1
         /\ \A i \in 1..Len(s) : Append(s, x)[i] = s[i]
         /\ Append(s, x)[Len(s) + 1] = x
         /\ s # <<>> => /\ Head(s) = s[1] /\ Head(s) \in S /\ Tail(s) \in Seq(S)
                        /\ Len(s) \in Nat \ {0} /\ Len(Tail(s)) = Len(s) - 1
                        /\ \A i \in 1..Len(s) - 1 : Tail(s)[i] = s[i + 1]
  OBVIOUS

-----------------------------------------------------------------------------
(* The output *)

\* Reading one more chunk of pipe q puts it behind what is on the way.
LEMMA ReadingHolds ==
  ASSUME NEW flow \in Seq(OutputData), NEW p \in Pipes, NEW q \in Pipes,
         NEW m \in Nat, NEW r \in Nat, NEW n \in Nat, m <= r,
         p = q => n = r + 1,
         Holds(flow, p, m, r)
  PROVE  Holds(Append(flow, [pipe |-> q, chunk |-> n]), p, m, IF p = q THEN r + 1 ELSE r)
<1> DEFINE data == [pipe |-> q, chunk |-> n]
           more == Append(flow, data)
           upTo == IF p = q THEN r + 1 ELSE r
<1>1. data \in OutputData /\ data.pipe = q /\ data.chunk = n
  BY DEF OutputData
<1>2. more \in Seq(OutputData) /\ Len(more) = Len(flow) + 1 /\ Len(flow) \in Nat
  BY <1>1, Elements
<1>3. \A i \in 1..Len(flow) : more[i] = flow[i] /\ flow[i].chunk \in Nat
  <2>1. \A i \in 1..Len(flow) : flow[i] \in OutputData
    OBVIOUS
  <2> QED BY <1>1, <2>1, Elements DEF OutputData
<1>4. more[Len(flow) + 1] = data
  BY <1>1, Elements
<1>5. DOMAIN more = 1..Len(flow) + 1 /\ DOMAIN flow = 1..Len(flow)
  BY <1>2
<1>6. \A i \in 1..Len(flow) + 1 : i \in 1..Len(flow) \/ i = Len(flow) + 1
  BY <1>2
<1> HIDE DEF data, more
<1>7. \A i \in DOMAIN more : more[i].pipe = p => m < more[i].chunk /\ more[i].chunk <= upTo
  <2> SUFFICES ASSUME NEW i \in 1..Len(flow) + 1, more[i].pipe = p
               PROVE  m < more[i].chunk /\ more[i].chunk <= upTo
    BY <1>5
  <2>1. CASE i \in 1..Len(flow)
    <3>1. m < flow[i].chunk /\ flow[i].chunk <= r /\ flow[i].chunk \in Nat
      BY <2>1, <1>3, <1>5 DEF Holds
    <3> QED BY <2>1, <3>1, <1>3
  <2>2. CASE i = Len(flow) + 1
    BY <2>2, <1>1, <1>4
  <2> QED BY <2>1, <2>2, <1>6
<1>8. \A i, j \in DOMAIN more :
        i < j /\ more[i].pipe = p /\ more[j].pipe = p => more[i].chunk < more[j].chunk
  <2> SUFFICES ASSUME NEW i \in 1..Len(flow) + 1, NEW j \in 1..Len(flow) + 1,
                      i < j, more[i].pipe = p, more[j].pipe = p
               PROVE  more[i].chunk < more[j].chunk
    BY <1>5
  <2>1. i \in 1..Len(flow)
    BY <1>2
  <2>2. CASE j \in 1..Len(flow)
    BY <2>1, <2>2, <1>3, <1>5 DEF Holds
  <2>3. CASE j = Len(flow) + 1
    <3>1. flow[i].chunk <= r /\ flow[i].chunk \in Nat
      BY <2>1, <1>3, <1>5 DEF Holds
    <3>2. more[j].chunk = r + 1
      BY <2>3, <1>1, <1>4
    <3> QED BY <2>1, <3>1, <3>2, <1>3
  <2> QED BY <2>2, <2>3, <1>6
<1>9. \A k \in Nat : m < k /\ k <= upTo =>
        \E i \in DOMAIN more : more[i] = [pipe |-> p, chunk |-> k]
  <2> SUFFICES ASSUME NEW k \in Nat, m < k, k <= upTo
               PROVE  \E i \in DOMAIN more : more[i] = [pipe |-> p, chunk |-> k]
    OBVIOUS
  <2>1. CASE k <= r
    <3>1. PICK i \in DOMAIN flow : flow[i] = [pipe |-> p, chunk |-> k]
      BY <2>1 DEF Holds
    <3>2. i \in DOMAIN more /\ more[i] = flow[i]
      BY <3>1, <1>2, <1>3, <1>5
    <3> QED BY <3>1, <3>2
  <2>2. CASE ~(k <= r)
    <3>1. p = q /\ k = n
      BY <2>2
    <3>2. Len(flow) + 1 \in DOMAIN more
      BY <1>2, <1>5
    <3> QED BY <3>1, <3>2, <1>4 DEF data
  <2> QED BY <2>1, <2>2
<1>10. Holds(more, p, m, upTo)
  BY <1>7, <1>8, <1>9 DEF Holds
<1> QED BY <1>10 DEF more, data

\* What is at the head is the next chunk of its pipe, and the rest goes on from it.
LEMMA MirroringHolds ==
  ASSUME NEW flow \in Seq(OutputData), flow # <<>>, NEW p \in Pipes,
         NEW m \in Nat, NEW r \in Nat, m <= r,
         Holds(flow, p, m, r)
  PROVE  IF Head(flow).pipe = p
         THEN /\ Head(flow).chunk = m + 1 /\ m + 1 <= r
              /\ Holds(Tail(flow), p, m + 1, r)
         ELSE Holds(Tail(flow), p, m, r)
<1> DEFINE rest == Tail(flow)
<1>1. /\ Head(flow) = flow[1] /\ rest \in Seq(OutputData)
      /\ Len(flow) \in Nat \ {0} /\ Len(rest) = Len(flow) - 1
      /\ \A i \in 1..Len(flow) - 1 : rest[i] = flow[i + 1]
  BY Elements, flow[1] \in OutputData
<1>2. DOMAIN flow = 1..Len(flow) /\ DOMAIN rest = 1..Len(flow) - 1
  BY <1>1
<1>3. \A i \in 1..Len(flow) : flow[i].chunk \in Nat
  <2>1. \A i \in 1..Len(flow) : flow[i] \in OutputData
    OBVIOUS
  <2> QED BY <2>1 DEF OutputData
<1>4. \A i \in 1..Len(flow) - 1 : i + 1 \in 1..Len(flow) /\ i \in Nat /\ i >= 1
  BY <1>1
<1>5. \A i \in 1..Len(flow) : i = 1 \/ (i - 1 \in 1..Len(flow) - 1 /\ rest[i - 1] = flow[i])
  <2> SUFFICES ASSUME NEW i \in 1..Len(flow), i # 1
               PROVE  i - 1 \in 1..Len(flow) - 1 /\ rest[i - 1] = flow[i]
    OBVIOUS
  <2>1. i - 1 \in 1..Len(flow) - 1 /\ (i - 1) + 1 = i
    BY <1>1
  <2> QED BY <2>1, <1>1
<1> HIDE DEF rest
<1>6. \A i, j \in DOMAIN rest :
        i < j /\ rest[i].pipe = p /\ rest[j].pipe = p => rest[i].chunk < rest[j].chunk
  <2> SUFFICES ASSUME NEW i \in 1..Len(flow) - 1, NEW j \in 1..Len(flow) - 1,
                      i < j, rest[i].pipe = p, rest[j].pipe = p
               PROVE  rest[i].chunk < rest[j].chunk
    BY <1>2
  <2>1. rest[i] = flow[i + 1] /\ rest[j] = flow[j + 1] /\ i + 1 < j + 1
    BY <1>1, <1>4
  <2> QED BY <2>1, <1>2, <1>4 DEF Holds
<1>7. CASE flow[1].pipe = p
  <2>1. /\ m < flow[1].chunk /\ flow[1].chunk <= r /\ flow[1].chunk \in Nat
        /\ 1 \in DOMAIN flow
    BY <1>1, <1>2, <1>3, <1>7 DEF Holds
  <2>2. flow[1].chunk = m + 1
    <3>1. PICK i \in DOMAIN flow : flow[i] = [pipe |-> p, chunk |-> m + 1]
      <4>1. m + 1 \in Nat /\ m < m + 1 /\ m + 1 <= r
        BY <2>1
      <4> QED BY <4>1 DEF Holds
    <3>2. flow[i].pipe = p /\ flow[i].chunk = m + 1
      BY <3>1
    <3>3. i > 1 => flow[1].chunk < flow[i].chunk
      BY <2>1, <3>2, <1>7 DEF Holds
    <3> QED BY <2>1, <3>1, <3>2, <3>3, <1>1, <1>2
  <2>3. \A i \in DOMAIN rest : rest[i].pipe = p => m + 1 < rest[i].chunk /\ rest[i].chunk <= r
    <3> SUFFICES ASSUME NEW i \in 1..Len(flow) - 1, rest[i].pipe = p
                 PROVE  m + 1 < rest[i].chunk /\ rest[i].chunk <= r
      BY <1>2
    <3>1. rest[i] = flow[i + 1] /\ 1 < i + 1 /\ i + 1 \in DOMAIN flow
      BY <1>1, <1>2, <1>4
    <3>2. flow[1].chunk < flow[i + 1].chunk /\ flow[i + 1].chunk <= r
      BY <3>1, <2>1, <1>7 DEF Holds
    <3> QED BY <3>1, <3>2, <2>2
  <2>4. \A k \in Nat : m + 1 < k /\ k <= r =>
          \E i \in DOMAIN rest : rest[i] = [pipe |-> p, chunk |-> k]
    <3> SUFFICES ASSUME NEW k \in Nat, m + 1 < k, k <= r
                 PROVE  \E i \in DOMAIN rest : rest[i] = [pipe |-> p, chunk |-> k]
      OBVIOUS
    <3>1. PICK i \in DOMAIN flow : flow[i] = [pipe |-> p, chunk |-> k]
      BY DEF Holds
    <3>2. i # 1
      BY <3>1, <2>2
    <3> QED BY <3>1, <3>2, <1>2, <1>5
  <2>5. Holds(rest, p, m + 1, r)
    BY <2>3, <2>4, <1>6 DEF Holds
  <2> QED BY <1>1, <1>7, <2>1, <2>2, <2>5 DEF rest
<1>8. CASE flow[1].pipe # p
  <2>1. \A i \in DOMAIN rest : rest[i].pipe = p => m < rest[i].chunk /\ rest[i].chunk <= r
    <3> SUFFICES ASSUME NEW i \in 1..Len(flow) - 1, rest[i].pipe = p
                 PROVE  m < rest[i].chunk /\ rest[i].chunk <= r
      BY <1>2
    <3>1. rest[i] = flow[i + 1] /\ i + 1 \in DOMAIN flow
      BY <1>1, <1>2, <1>4
    <3> QED BY <3>1 DEF Holds
  <2>2. \A k \in Nat : m < k /\ k <= r =>
          \E i \in DOMAIN rest : rest[i] = [pipe |-> p, chunk |-> k]
    <3> SUFFICES ASSUME NEW k \in Nat, m < k, k <= r
                 PROVE  \E i \in DOMAIN rest : rest[i] = [pipe |-> p, chunk |-> k]
      OBVIOUS
    <3>1. PICK i \in DOMAIN flow : flow[i] = [pipe |-> p, chunk |-> k]
      BY DEF Holds
    <3>2. i # 1
      BY <3>1, <1>8
    <3> QED BY <3>1, <3>2, <1>2, <1>5
  <2>3. Holds(rest, p, m, r)
    BY <2>1, <2>2, <1>6 DEF Holds
  <2> QED BY <1>1, <1>8, <2>3 DEF rest
<1> QED BY <1>7, <1>8

\* The host counts on.
LEMMA CountedOn ==
  ASSUME NEW s, Counted(s)
  PROVE  Counted(Append(s, Len(s) + 1)) /\ Len(Append(s, Len(s) + 1)) = Len(s) + 1
<1>1. s \in Seq(Nat) /\ Len(s) + 1 \in Nat
  BY DEF Counted
<1>2. \A i \in 1..Len(s) + 1 : i \in 1..Len(s) \/ i = Len(s) + 1
  BY <1>1
<1> QED BY <1>1, <1>2, Elements DEF Counted

\* Nothing is on the way at first.
LEMMA OutputInvHoldsInitially == StdioInit => OutputInv
<1> SUFFICES ASSUME StdioInit PROVE OutputInv
  OBVIOUS
<1>1. OutputTypes
  BY DEF StdioInit, OutputTypes
<1>2. ASSUME NEW p \in Pipes
      PROVE  /\ Counted(mirrored[p]) /\ Len(mirrored[p]) <= read[p]
             /\ Holds(stream \o merged, p, Len(mirrored[p]), read[p])
  <2>1. mirrored[p] = <<>> /\ read[p] = 0 /\ Len(mirrored[p]) = 0
    BY DEF StdioInit
  <2>2. Counted(<<>>)
    BY DEF Counted
  <2>3. stream \o merged = <<>>
    BY DEF StdioInit
  <2>4. Holds(<<>>, p, 0, 0)
    BY DEF Holds
  <2> QED BY <2>1, <2>2, <2>3, <2>4
<1> QED BY <1>1, <1>2 DEF OutputInv

\* The pipe's task reads a chunk.
LEMMA ReadKeeps ==
  ASSUME OutputInv, NEW q \in Pipes, ReadIntoChannel(q)
  PROVE  OutputInv'
<1> DEFINE data == [pipe |-> q, chunk |-> read[q] + 1]
<1>1. /\ read' = [read EXCEPT ![q] = @ + 1] /\ merged' = Append(merged, data)
      /\ UNCHANGED <<written, stream, mirrored>>
  BY DEF ReadIntoChannel
<1>2. read[q] \in Nat /\ read[q] + 1 \in Nat /\ data \in OutputData
  BY DEF OutputInv, OutputTypes, OutputData
<1>3. /\ merged \in Seq(OutputData) /\ stream \in Seq(OutputData)
      /\ read \in [Pipes -> Nat] /\ mirrored \in [Pipes -> Seq(Nat)]
  BY DEF OutputInv, OutputTypes
<1> HIDE DEF data
<1>4. OutputTypes'
  <2>1. merged' \in Seq(OutputData)
    BY <1>1, <1>2, <1>3, Elements
  <2>2. read' \in [Pipes -> Nat]
    BY <1>1, <1>2, <1>3
  <2> QED BY <2>1, <2>2, <1>1 DEF OutputInv, OutputTypes
<1>5. stream' \o merged' = Append(stream \o merged, data) /\ stream \o merged \in Seq(OutputData)
  BY <1>1, <1>2, <1>3, AppendToSecond
<1>6. ASSUME NEW p \in Pipes
      PROVE  /\ Counted(mirrored'[p]) /\ Len(mirrored'[p]) <= read'[p]
             /\ Holds(stream' \o merged', p, Len(mirrored'[p]), read'[p])
  <2>1. mirrored' = mirrored /\ Len(mirrored[p]) \in Nat /\ read[p] \in Nat
    BY <1>1, <1>3
  <2>2. read'[p] = IF p = q THEN read[p] + 1 ELSE read[p]
    BY <1>1, <1>3
  <2>3. /\ Counted(mirrored[p]) /\ Len(mirrored[p]) <= read[p]
        /\ Holds(stream \o merged, p, Len(mirrored[p]), read[p])
    BY DEF OutputInv
  <2>4. Holds(Append(stream \o merged, data), p, Len(mirrored[p]),
              IF p = q THEN read[p] + 1 ELSE read[p])
    BY <2>1, <2>3, <1>2, <1>5, ReadingHolds DEF data
  <2> QED BY <2>1, <2>2, <2>3, <2>4, <1>5
<1> QED BY <1>4, <1>6 DEF OutputInv

\* The forwarding task moves a chunk from one channel to the other.
LEMMA ForwardKeeps ==
  ASSUME OutputInv, Forward
  PROVE  OutputInv'
<1>1. /\ merged # <<>> /\ stream' = Append(stream, Head(merged)) /\ merged' = Tail(merged)
      /\ UNCHANGED <<written, read, mirrored>>
  BY DEF Forward
<1>2. merged \in Seq(OutputData) /\ stream \in Seq(OutputData)
  BY DEF OutputInv, OutputTypes
<1>3. OutputTypes'
  <2>1. Head(merged) \in OutputData /\ merged' \in Seq(OutputData)
    BY <1>1, <1>2
  <2>2. stream' \in Seq(OutputData)
    BY <1>1, <1>2, <2>1
  <2> QED BY <2>1, <2>2, <1>1 DEF OutputInv, OutputTypes
<1>4. stream' \o merged' = stream \o merged
  BY <1>1, <1>2, HeadIsForwarded
<1> QED BY <1>1, <1>3, <1>4 DEF OutputInv

\* The host writes a chunk to its own output.
LEMMA MirrorKeeps ==
  ASSUME OutputInv, Mirror
  PROVE  OutputInv'
<1> DEFINE data == Head(stream)
<1>1. /\ stream # <<>> /\ stream' = Tail(stream) /\ UNCHANGED <<written, read, merged>>
      /\ mirrored' = [mirrored EXCEPT ![data.pipe] = Append(@, data.chunk)]
  BY DEF Mirror
<1>2. /\ merged \in Seq(OutputData) /\ stream \in Seq(OutputData)
      /\ read \in [Pipes -> Nat] /\ mirrored \in [Pipes -> Seq(Nat)]
  BY DEF OutputInv, OutputTypes
<1>3. data \in OutputData /\ data.pipe \in Pipes /\ data.chunk \in Nat
  <2>1. data \in OutputData
    BY <1>1, <1>2
  <2> QED BY <2>1 DEF OutputData
<1>4. /\ stream' \o merged = Tail(stream \o merged) /\ Head(stream \o merged) = data
      /\ stream \o merged # <<>> /\ stream \o merged \in Seq(OutputData)
  BY <1>1, <1>2, TailOfFirst
<1> HIDE DEF data
<1>5. OutputTypes'
  <2>1. stream' \in Seq(OutputData)
    BY <1>1, <1>2
  <2>2. Append(mirrored[data.pipe], data.chunk) \in Seq(Nat)
    BY <1>2, <1>3
  <2>3. mirrored' \in [Pipes -> Seq(Nat)]
    BY <2>2, <1>1, <1>2, <1>3
  <2> QED BY <2>1, <2>3, <1>1 DEF OutputInv, OutputTypes
<1>6. ASSUME NEW p \in Pipes
      PROVE  /\ Counted(mirrored'[p]) /\ Len(mirrored'[p]) <= read'[p]
             /\ Holds(stream' \o merged', p, Len(mirrored'[p]), read'[p])
  <2>1. read' = read /\ merged' = merged /\ Len(mirrored[p]) \in Nat /\ read[p] \in Nat
    BY <1>1, <1>2
  <2>2. /\ Counted(mirrored[p]) /\ Len(mirrored[p]) <= read[p]
        /\ Holds(stream \o merged, p, Len(mirrored[p]), read[p])
    BY DEF OutputInv
  <2>3. IF data.pipe = p
        THEN /\ data.chunk = Len(mirrored[p]) + 1 /\ Len(mirrored[p]) + 1 <= read[p]
             /\ Holds(Tail(stream \o merged), p, Len(mirrored[p]) + 1, read[p])
        ELSE Holds(Tail(stream \o merged), p, Len(mirrored[p]), read[p])
    BY <2>1, <2>2, <1>4, MirroringHolds
  <2>4. CASE data.pipe = p
    <3>1. mirrored'[p] = Append(mirrored[p], Len(mirrored[p]) + 1)
      BY <2>3, <2>4, <1>1, <1>2
    <3>2. Counted(mirrored'[p]) /\ Len(mirrored'[p]) = Len(mirrored[p]) + 1
      BY <3>1, <2>2, CountedOn
    <3> QED BY <3>2, <2>1, <2>3, <2>4, <1>4
  <2>5. CASE data.pipe # p
    <3>1. mirrored'[p] = mirrored[p]
      BY <2>5, <1>1, <1>2
    <3> QED BY <3>1, <2>1, <2>2, <2>3, <2>5, <1>4
  <2> QED BY <2>4, <2>5
<1> QED BY <1>5, <1>6 DEF OutputInv

\* Every step keeps the invariant of the output.
LEMMA OutputInvKept == ASSUME OutputInv, ProcessNext PROVE OutputInv'
<1>1. CASE UNCHANGED stdioVars
  BY <1>1 DEF stdioVars, OutputInv, OutputTypes
<1>2. CASE StreamStdio
  BY <1>2 DEF StreamStdio, OutputInv, OutputTypes
<1>3. ASSUME NEW p \in Pipes, Write(p) PROVE OutputInv'
  <2>1. UNCHANGED <<read, merged, stream, mirrored>> /\ written' \in [Pipes -> Nat]
    BY <1>3 DEF Write, OutputInv, OutputTypes
  <2> QED BY <2>1 DEF OutputInv, OutputTypes
<1>4. CASE StdioTasks
  BY <1>4, ReadKeeps, ForwardKeeps, MirrorKeeps DEF StdioTasks
<1>5. CASE Process
  BY <1>1, <1>5 DEF Process, Serve, ServeOther, Crash, StopGracefully, Die
<1>6. CASE OpenStreams
  BY <1>1, <1>2, <1>6 DEF OpenStreams
<1>7. CASE StartTakesCmd \/ StartReattaches \/ StartTimesOut \/ KillCalled \/ CallDropped
             \/ DropClient \/ CleanupClients
  BY <1>1, <1>7 DEF StartTakesCmd, StartReattaches, StartTimesOut, KillCalled, CallDropped,
                    DropClient, CleanupClients
<1>8. CASE HostGoesOn
  BY <1>1, <1>8 DEF HostGoesOn, Spawn, ReadLine, Connect, ShutdownReturns, KillWaits
<1>9. CASE PluginWrites \/ StdioGoesOn
  BY <1>3, <1>4, <1>9 DEF PluginWrites, StdioGoesOn
<1> QED BY <1>5, <1>6, <1>7, <1>8, <1>9 DEF ProcessNext, Call

\* The invariant's output is whole.
LEMMA OutputInvIsWhole == OutputInv => OutputIsWhole
<1> SUFFICES ASSUME OutputInv, NEW p \in Pipes
             PROVE  mirrored[p] = [n \in 1..Len(mirrored[p]) |-> n]
  BY DEF OutputIsWhole
<1>1. mirrored[p] \in Seq(Nat) /\ \A n \in 1..Len(mirrored[p]) : mirrored[p][n] = n
  BY DEF OutputInv, Counted
<1> QED BY SMTT(20), <1>1

-----------------------------------------------------------------------------
(* Theorems *)

\* Whatever is called, dropped, spawned, crashed or killed, the command becomes
\* one process and one line, and the channels hold what is on the way.
THEOREM ProcessInvariance == ProcessSpec => []ProcessInv
<1>1. ProcessInit => ProcessInv
  BY TypesHoldInitially, StartInvHoldsInitially, OutputInvHoldsInitially DEF ProcessInv, ProcessInit
<1>2. ProcessInv /\ [ProcessNext]_processVars => ProcessInv'
  <2> SUFFICES ASSUME ProcessInv, [ProcessNext]_processVars PROVE ProcessInv'
    OBVIOUS
  <2>1. CASE ProcessNext
    <3>1. ProcessTypeOK'
      <4>1. CASE Process
        BY <4>1, ProcessKeepsTypes DEF ProcessInv
      <4>2. CASE Call
        BY <4>2, CallKeepsTypes DEF ProcessInv
      <4>3. CASE PluginWrites \/ StdioGoesOn
        BY <4>3 DEF PluginWrites, StdioGoesOn, procVars, ProcessInv, ProcessTypeOK, Processes
      <4> QED BY <2>1, <4>1, <4>2, <4>3 DEF ProcessNext
    <3>2. StartInv' /\ OutputInv'
      BY <2>1, StartInvKept, OutputInvKept DEF ProcessInv
    <3> QED BY <3>1, <3>2 DEF ProcessInv
  <2>2. CASE UNCHANGED processVars
    BY <2>2 DEF processVars, procVars, stdioVars, ProcessInv, ProcessTypeOK, Processes, StartInv, StartedOnce,
                LineIsPlugins, ChildWasAccepted, OutputInv, OutputTypes
  <2> QED BY <2>1, <2>2
<1> QED BY <1>1, <1>2, PTL DEF ProcessSpec

\* Client::start keeps a child only with a version that the host supports, and the
\* highest of those that a plugin of this crate supports too.
THEOREM VersionsAlwaysAgree == ProcessSpec => []VersionsAgree
<1>1. ProcessInv => VersionsAgree
  BY StartInvAgrees DEF ProcessInv
<1> QED BY <1>1, ProcessInvariance, PTL

\* grpc_stdio loses, repeats and reorders no chunk of a pipe between the plugin's
\* tasks, the stream and the host's own output.
THEOREM OutputStaysWhole == ProcessSpec => []OutputIsWhole
<1>1. ProcessInv => OutputIsWhole
  BY OutputInvIsWhole DEF ProcessInv
<1> QED BY <1>1, ProcessInvariance, PTL

-----------------------------------------------------------------------------
(* The broker of a gRPC connection *)

TableAgrees ==
  \A s \in Sides, i \in Ids : \A d \in Dials : pending[s][i] = d =>
    dial[d].pc # "idle" /\ dial[d].id = i /\ SideOf[d] = s

\* An announcement that is true, of an accept that will not be called again.
Genuine(s, info) ==
  /\ info \in [id : Ids, address : Accepts]
  /\ accept[info.address].pc # "idle"
  /\ accept[info.address].id = info.id
  /\ SideOf[info.address] = Peer(s)

WireAgrees == \A s \in Sides : \A n \in 1 .. Len(wire[s]) : Genuine(s, wire[s][n])

AcceptsHaveIds == \A a \in Accepts : accept[a].pc # "idle" => accept[a].id \in Ids

DialsAgree ==
  \A d \in Dials :
    /\ dial[d].pc # "idle" => dial[d].id \in Ids
    /\ dial[d].pc \in {"connects", "connected"} =>
         /\ dial[d].to \in Accepts
         /\ Genuine(SideOf[d], [id |-> dial[d].id, address |-> dial[d].to])

PeersAgree ==
  \A a \in Accepts :
    /\ accept[a].pc = "connected" => accept[a].peer \in Dials
    /\ \A d \in Dials : accept[a].peer = d => dial[d].pc = "connected" /\ dial[d].to = a

BrokerInv == BrokerTypeOK /\ TableAgrees /\ AcceptsHaveIds /\ WireAgrees /\ DialsAgree /\ PeersAgree
        /\ WaitersAreHeld

AcceptRecord ==
  [pc : {"idle", "locks", "announces", "listens", "connected", "failed"},
   id : Ids \cup {None}, peer : Dials \cup {None}]
DialRecord ==
  [pc : {"idle", "waits", "dropped", "connects", "connected", "failed"},
   id : Ids \cup {None}, to : Accepts \cup {None}]

\* There are two sides, and every call is on one.
LEMMA SidesFacts ==
  /\ \A s \in Sides : Peer(s) \in Sides /\ Peer(Peer(s)) = s
  /\ \A d \in Dials : SideOf[d] \in Sides /\ d # None
  /\ \A a \in Accepts : SideOf[a] \in Sides /\ a # None
BY GrpcBrokerAssumption DEF Sides, Peer

\* Nothing is called and nothing announced.
LEMMA BrokerStarts == BrokerInit => BrokerInv
<1> SUFFICES ASSUME BrokerInit PROVE BrokerInv
  OBVIOUS
<1>1. BrokerTypeOK
  BY DEF BrokerInit, BrokerTypeOK, Sides
<1>2. TableAgrees /\ AcceptsHaveIds /\ WireAgrees /\ DialsAgree /\ PeersAgree /\ WaitersAreHeld
  BY SidesFacts
     DEF BrokerInit, TableAgrees, AcceptsHaveIds, WireAgrees, DialsAgree, PeersAgree, WaitersAreHeld
<1> QED BY <1>1, <1>2 DEF BrokerInv

\* An accept goes on, without changing its id and its peer, and the wire only
\* loses announcements or gains a true one.
LEMMA AcceptsMove ==
  ASSUME BrokerInv, NEW a \in Accepts,
         NEW point \in {"announces", "listens", "connected", "failed"},
         accept[a].pc # "idle",
         accept' = [accept EXCEPT ![a].pc = point],
         point = "connected" => accept[a].peer # None,
         UNCHANGED <<dial, pending>>
  PROVE  /\ accept' \in [Accepts -> AcceptRecord] /\ AcceptsHaveIds'
         /\ \A s \in Sides : \A info : Genuine(s, info) => Genuine(s, info)'
         /\ TableAgrees' /\ DialsAgree' /\ PeersAgree' /\ WaitersAreHeld'
<1>1. accept \in [Accepts -> AcceptRecord] /\ accept[a] \in AcceptRecord
  BY DEF BrokerInv, BrokerTypeOK, AcceptRecord
<1>2. \A b \in Accepts : /\ accept'[b].id = accept[b].id /\ accept'[b].peer = accept[b].peer
                         /\ accept[b].pc # "idle" => accept'[b].pc # "idle"
                         /\ b # a => accept'[b] = accept[b]
  BY <1>1 DEF AcceptRecord
<1>3. accept' \in [Accepts -> AcceptRecord] /\ accept'[a].pc = point
  BY <1>1 DEF AcceptRecord
<1>4. \A s \in Sides : \A info : Genuine(s, info) => Genuine(s, info)'
  BY <1>2 DEF Genuine
<1>5. TableAgrees' /\ AcceptsHaveIds' /\ WaitersAreHeld'
  <2>1. TableAgrees' /\ WaitersAreHeld'
    BY DEF BrokerInv, TableAgrees, WaitersAreHeld
  <2>2. AcceptsHaveIds'
    BY <1>2 DEF BrokerInv, AcceptsHaveIds
  <2> QED BY <2>1, <2>2
<1>6. DialsAgree'
  BY <1>4, SidesFacts DEF BrokerInv, DialsAgree
<1>7. PeersAgree'
  BY <1>1, <1>2, <1>3 DEF BrokerInv, PeersAgree, AcceptRecord
<1> QED BY <1>3, <1>4, <1>5, <1>6, <1>7

\* Nothing but the streams, the mutexes and the closes change, and the wires lose.
LEMMA CallsUntouched ==
  ASSUME BrokerInv, UNCHANGED <<accept, dial, pending>>
  PROVE  /\ TableAgrees' /\ AcceptsHaveIds' /\ DialsAgree' /\ PeersAgree' /\ WaitersAreHeld'
         /\ \A s \in Sides : \A info : Genuine(s, info)' <=> Genuine(s, info)
BY DEF BrokerInv, TableAgrees, AcceptsHaveIds, Genuine, DialsAgree, PeersAgree, WaitersAreHeld

\* The stream's coming and going touches no call: what is on the wire is there or lost.
LEMMA StreamSteps ==
  ASSUME BrokerInv, SetStreamTx \/ Disconnect \/ \E s \in Sides : CloseEnds(s)
  PROVE  BrokerInv'
<1>1. UNCHANGED <<accept, dial, pending>>
  BY DEF SetStreamTx, Disconnect, CloseEnds
<1>2. wire' = wire \/ wire' = [s \in Sides |-> <<>>]
  BY DEF SetStreamTx, Disconnect, CloseEnds
<1>3. WireAgrees'
  BY <1>1, <1>2, CallsUntouched DEF BrokerInv, WireAgrees
<1>4. wire' \in [Sides -> Seq([id : Ids, address : Accepts])]
  <2>1. <<>> \in Seq([id : Ids, address : Accepts])
    OBVIOUS
  <2> QED BY <1>2, <2>1 DEF BrokerInv, BrokerTypeOK
<1>5. /\ streamTx' \in [Sides -> BOOLEAN] /\ linked' \in BOOLEAN
      /\ lock' \in [Sides -> Accepts \cup {None}]
      /\ closing' \in [Sides -> {"no", "waits", "done"}]
  BY DEF SetStreamTx, Disconnect, CloseEnds, BrokerInv, BrokerTypeOK
<1>6. BrokerTypeOK'
  BY <1>1, <1>4, <1>5 DEF BrokerInv, BrokerTypeOK
<1> QED BY <1>1, <1>3, <1>6, CallsUntouched DEF BrokerInv

\* close drops whom it takes out of the table.
LEMMA CloseStep ==
  ASSUME BrokerInv, NEW s \in Sides, CloseBegins(s)
  PROVE  BrokerInv'
<1>1. dial \in [Dials -> DialRecord] /\ pending \in [Sides -> [Ids -> Dials \cup {None}]]
  BY DEF BrokerInv, BrokerTypeOK, DialRecord
<1>2. /\ dial' = [d \in Dials |->
                    IF \E i \in Ids : pending[s][i] = d THEN Dropped(dial[d]) ELSE dial[d]]
      /\ pending' = [pending EXCEPT ![s] = [i \in Ids |-> None]]
      /\ UNCHANGED <<accept, wire>>
  BY DEF CloseBegins
<1>3. \A d \in Dials : /\ dial'[d].id = dial[d].id /\ dial'[d].to = dial[d].to
                       /\ \/ dial'[d].pc = dial[d].pc
                          \/ dial[d].pc = "waits" /\ dial'[d].pc = "dropped"
  BY <1>1, <1>2 DEF Dropped, DialRecord
<1>4. BrokerTypeOK'
  <2>1. dial' \in [Dials -> DialRecord]
    BY <1>1, <1>2 DEF Dropped, DialRecord
  <2>2. pending' \in [Sides -> [Ids -> Dials \cup {None}]]
    BY <1>1, <1>2
  <2> QED BY <2>1, <2>2 DEF CloseBegins, BrokerInv, BrokerTypeOK, DialRecord
<1>5. TableAgrees'
  BY <1>1, <1>2, <1>3, SidesFacts DEF BrokerInv, TableAgrees
<1>6. WireAgrees' /\ AcceptsHaveIds'
  BY <1>2 DEF BrokerInv, WireAgrees, AcceptsHaveIds, Genuine
<1>7. DialsAgree' /\ PeersAgree'
  BY <1>2, <1>3 DEF BrokerInv, DialsAgree, PeersAgree, Genuine
<1>8. WaitersAreHeld'
  <2> SUFFICES ASSUME NEW d \in Dials, dial'[d].pc = "waits"
               PROVE  pending'[SideOf[d]][dial'[d].id] = d
    BY DEF WaitersAreHeld
  <2>1. dial[d].pc = "waits" /\ pending[SideOf[d]][dial[d].id] = d
    BY <1>3 DEF BrokerInv, WaitersAreHeld
  <2>2. dial[d].id \in Ids
    BY <2>1 DEF BrokerInv, DialsAgree
  <2>3. ~\E i \in Ids : pending[s][i] = d
    BY <1>1, <1>2, <2>1 DEF Dropped, DialRecord
  <2>4. SideOf[d] # s
    BY <2>1, <2>2, <2>3
  <2> QED BY <1>1, <1>2, <1>3, <2>1, <2>4, SidesFacts DEF BrokerInv, WaitersAreHeld
<1> QED BY <1>4, <1>5, <1>6, <1>7, <1>8 DEF BrokerInv

\* An accept is called: nobody has heard of it.
LEMMA AcceptCalledStep ==
  ASSUME BrokerInv, NEW a \in Accepts, NEW i \in Ids, AcceptCalled(a, i)
  PROVE  BrokerInv'
<1>1. accept \in [Accepts -> AcceptRecord]
  BY DEF BrokerInv, BrokerTypeOK, AcceptRecord
<1>2. /\ accept[a].pc = "idle"
      /\ accept' = [accept EXCEPT ![a] = [pc |-> "locks", id |-> i, peer |-> None]]
      /\ UNCHANGED <<dial, pending, streamTx, lock, wire, closing, linked>>
  BY DEF AcceptCalled
<1>3. /\ accept' \in [Accepts -> AcceptRecord] /\ accept'[a].peer = None
      /\ accept'[a].pc = "locks"
      /\ \A b \in Accepts : b # a => accept'[b] = accept[b]
  BY <1>1, <1>2 DEF AcceptRecord
<1>4. \A s \in Sides : \A info : Genuine(s, info) => Genuine(s, info)'
  BY <1>2, <1>3 DEF Genuine
<1>5. BrokerTypeOK'
  BY <1>2, <1>3 DEF BrokerInv, BrokerTypeOK, AcceptRecord
<1>6. TableAgrees' /\ AcceptsHaveIds' /\ WaitersAreHeld'
  BY <1>2, <1>3 DEF BrokerInv, TableAgrees, AcceptsHaveIds, WaitersAreHeld, AcceptCalled
<1>7. WireAgrees' /\ DialsAgree'
  <2>1. WireAgrees'
    BY <1>2, <1>4 DEF BrokerInv, WireAgrees
  <2>2. DialsAgree'
    BY <1>2, <1>4, SidesFacts DEF BrokerInv, DialsAgree
  <2> QED BY <2>1, <2>2
<1>8. PeersAgree'
  BY <1>2, <1>3, SidesFacts DEF BrokerInv, PeersAgree
<1> QED BY <1>5, <1>6, <1>7, <1>8 DEF BrokerInv

\* Whatever a called accept does next; only its announcement is seen from outside.
LEMMA AcceptStep ==
  ASSUME BrokerInv, NEW a \in Accepts, AcceptGoesOn(a)
  PROVE  BrokerInv'
<1> DEFINE s == SideOf[a]
<1>i. PICK info : info = [id |-> accept[a].id, address |-> a]
  OBVIOUS
<1>w. PICK old : old = wire
  OBVIOUS
<1>1. s \in Sides /\ Peer(s) \in Sides /\ Peer(Peer(s)) = s
  BY SidesFacts
<1>2. accept \in [Accepts -> AcceptRecord]
  BY DEF BrokerInv, BrokerTypeOK, AcceptRecord
<1>3. /\ accept[a].pc # "idle"
      /\ \E point \in {"announces", "listens", "connected", "failed"} :
           /\ accept' = [accept EXCEPT ![a].pc = point]
           /\ point = "connected" => accept[a].peer # None
      /\ UNCHANGED <<dial, pending, streamTx, closing, linked>>
      /\ lock' = lock \/ lock' = [lock EXCEPT ![s] = a] \/ lock' = [lock EXCEPT ![s] = None]
      /\ \/ wire' = wire
         \/ accept[a].id \in Ids /\ wire' = [wire EXCEPT ![Peer(s)] = Append(@, info)]
  <2>1. CASE AcceptLocks(a)
    BY <2>1 DEF AcceptLocks
  <2>2. CASE AcceptAnnounces(a)
    BY <2>2, <1>i DEF AcceptAnnounces, BrokerInv, AcceptsHaveIds
  <2>3. CASE AcceptFails(a)
    BY <2>3 DEF AcceptFails, AcceptReturns
  <2>4. CASE AcceptTimesOut(a)
    BY <2>4 DEF AcceptTimesOut, AcceptReturns
  <2>5. CASE AcceptConnected(a)
    BY <2>5 DEF AcceptConnected, AcceptReturns
  <2> QED BY <2>1, <2>2, <2>3, <2>4, <2>5 DEF AcceptGoesOn
<1>4. PICK point \in {"announces", "listens", "connected", "failed"} :
        /\ accept' = [accept EXCEPT ![a].pc = point]
        /\ point = "connected" => accept[a].peer # None
  BY <1>3
<1>5. /\ accept' \in [Accepts -> AcceptRecord] /\ AcceptsHaveIds'
      /\ \A r \in Sides : \A m : Genuine(r, m) => Genuine(r, m)'
      /\ TableAgrees' /\ DialsAgree' /\ PeersAgree' /\ WaitersAreHeld'
  BY <1>3, <1>4, AcceptsMove
<1>6. /\ wire' \in [Sides -> Seq([id : Ids, address : Accepts])]
      /\ WireAgrees'
  <2>1. wire \in [Sides -> Seq([id : Ids, address : Accepts])]
    BY DEF BrokerInv, BrokerTypeOK
  <2>2. CASE wire' = wire
    BY <1>5, <2>1, <2>2 DEF BrokerInv, WireAgrees
  <2>3. CASE accept[a].id \in Ids /\ wire' = [wire EXCEPT ![Peer(s)] = Append(@, info)]
    <3>1. Genuine(Peer(s), info)'
      <4>1. Genuine(Peer(s), info)
        BY <1>1, <1>3, <1>i, <2>3 DEF Genuine
      <4> QED BY <1>1, <1>5, <4>1
    <3>2. info \in [id : Ids, address : Accepts]
      BY <1>i, <2>3
    <3>0. wire' = [wire EXCEPT ![Peer(s)] = Append(wire[Peer(s)], info)]
      BY <2>3
    <3>a. Append(wire[Peer(s)], info) \in Seq([id : Ids, address : Accepts])
      <4>1. wire[Peer(s)] \in Seq([id : Ids, address : Accepts])
        BY <1>1, <2>1
      <4>2. ASSUME NEW S, NEW q \in Seq(S), NEW x \in S PROVE Append(q, x) \in Seq(S)
        OBVIOUS
      <4> QED BY <3>2, <4>1, <4>2
    <3> HIDE DEF s
    <3>3. /\ wire' \in [Sides -> Seq([id : Ids, address : Accepts])]
          /\ wire'[Peer(s)] = Append(wire[Peer(s)], info)
          /\ \A r \in Sides : r # Peer(s) => wire'[r] = wire[r]
      <4>1. /\ wire'[Peer(s)] = Append(wire[Peer(s)], info)
            /\ \A r \in Sides : r # Peer(s) => wire'[r] = wire[r]
        BY <1>1, <2>1, <3>0
      <4>2. \A r \in Sides : wire'[r] \in Seq([id : Ids, address : Accepts])
        BY <2>1, <3>a, <4>1
      <4>3. wire' = [r \in Sides |-> wire'[r]]
        BY <2>1, <3>0
      <4> QED BY <4>1, <4>2, <4>3
    <3>4. \A n \in 1 .. Len(wire'[Peer(s)]) :
            \/ n \in 1 .. Len(wire[Peer(s)]) /\ wire'[Peer(s)][n] = wire[Peer(s)][n]
            \/ wire'[Peer(s)][n] = info
      BY <1>1, <2>1, <3>2, <3>3
    <3>5. \A r \in Sides : \A n \in 1 .. Len(old[r]) : Genuine(r, old[r][n])'
      BY <1>5, <1>w DEF BrokerInv, WireAgrees
    <3>6. ASSUME NEW r \in Sides, NEW n \in 1 .. Len(wire'[r]) PROVE Genuine(r, wire[r][n])'
      <4>1. CASE r = Peer(s)
        <5>1. CASE wire'[r][n] = info
          BY <3>1, <4>1, <5>1 DEF Genuine
        <5>2. CASE n \in 1 .. Len(old[r]) /\ wire'[r][n] = old[r][n]
          BY <3>5, <5>2 DEF Genuine
        <5> QED BY <3>4, <4>1, <5>1, <5>2, <1>w
      <4>2. CASE r # Peer(s)
        <5>1. n \in 1 .. Len(old[r]) /\ wire'[r][n] = old[r][n]
          BY <3>3, <4>2, <1>w
        <5> QED BY <3>5, <5>1 DEF Genuine
      <4> QED BY <4>1, <4>2
    <3> QED BY <3>3, <3>6 DEF WireAgrees
  <2> QED BY <1>3, <2>2, <2>3
<1>7. BrokerTypeOK'
  <2>1. lock' \in [Sides -> Accepts \cup {None}]
    BY <1>3 DEF BrokerInv, BrokerTypeOK
  <2> QED BY <1>3, <1>5, <1>6, <2>1 DEF BrokerInv, BrokerTypeOK, AcceptRecord
<1> QED BY <1>5, <1>6, <1>7 DEF BrokerInv

\* A dial is registered, and the one whose place it takes is dropped.
LEMMA RegisterStep ==
  ASSUME BrokerInv, NEW d \in Dials, NEW i \in Ids, RegisterPending(d, i)
  PROVE  BrokerInv'
<1> DEFINE s == SideOf[d]
<1>1. /\ dial \in [Dials -> DialRecord] /\ pending \in [Sides -> [Ids -> Dials \cup {None}]]
      /\ s \in Sides
  BY SidesFacts DEF BrokerInv, BrokerTypeOK, DialRecord
<1>2. /\ dial[d].pc = "idle"
      /\ pending' = [pending EXCEPT ![s][i] = d]
      /\ dial' = [e \in Dials |->
                    CASE e = d -> [pc |-> "waits", id |-> i, to |-> None]
                      [] e # d /\ e = pending[s][i] -> Dropped(dial[e])
                      [] OTHER -> dial[e]]
      /\ UNCHANGED <<accept, streamTx, lock, wire, closing, linked>>
  BY DEF RegisterPending
<1>3. /\ dial'[d] = [pc |-> "waits", id |-> i, to |-> None]
      /\ \A e \in Dials : e # d =>
           /\ dial'[e].id = dial[e].id /\ dial'[e].to = dial[e].to
           /\ \/ dial'[e].pc = dial[e].pc
              \/ e = pending[s][i] /\ dial[e].pc = "waits" /\ dial'[e].pc = "dropped"
           /\ e = pending[s][i] => dial'[e].pc # "waits"
  BY <1>1, <1>2 DEF Dropped, DialRecord
<1>4. /\ pending' \in [Sides -> [Ids -> Dials \cup {None}]]
      /\ \A r \in Sides, j \in Ids :
           pending'[r][j] = IF r = s /\ j = i THEN d ELSE pending[r][j]
  BY <1>1, <1>2
<1>5. BrokerTypeOK'
  <2>1. dial' \in [Dials -> DialRecord]
    <3>1. \A e \in Dials : Dropped(dial[e]) \in DialRecord
      BY <1>1 DEF Dropped, DialRecord
    <3>2. [pc |-> "waits", id |-> i, to |-> None] \in DialRecord
      BY DEF DialRecord
    <3> QED BY <1>1, <1>2, <3>1, <3>2
  <2> QED BY <1>2, <1>4, <2>1 DEF BrokerInv, BrokerTypeOK, DialRecord
<1>6. TableAgrees'
  BY <1>2, <1>3, <1>4, SidesFacts DEF BrokerInv, TableAgrees
<1>7. WireAgrees' /\ AcceptsHaveIds'
  BY <1>2 DEF BrokerInv, WireAgrees, AcceptsHaveIds, Genuine
<1>8. DialsAgree' /\ PeersAgree'
  <2>1. DialsAgree'
    BY <1>2, <1>3 DEF BrokerInv, DialsAgree, Genuine
  <2>2. PeersAgree'
    BY <1>2, <1>3 DEF BrokerInv, PeersAgree
  <2> QED BY <2>1, <2>2
<1>9. WaitersAreHeld'
  <2> SUFFICES ASSUME NEW e \in Dials, dial'[e].pc = "waits"
               PROVE  pending'[SideOf[e]][dial'[e].id] = e
    BY DEF WaitersAreHeld
  <2>1. CASE e = d
    BY <1>1, <1>3, <1>4, <2>1
  <2>2. CASE e # d
    <3>1. /\ dial[e].pc = "waits" /\ dial'[e].id = dial[e].id /\ dial[e].id \in Ids
          /\ e # pending[s][i]
      BY <1>3, <2>2 DEF BrokerInv, DialsAgree
    <3>2. pending[SideOf[e]][dial[e].id] = e
      BY <3>1 DEF BrokerInv, WaitersAreHeld
    <3> QED BY <1>4, <3>1, <3>2, SidesFacts
  <2> QED BY <2>1, <2>2
<1> QED BY <1>5, <1>6, <1>7, <1>8, <1>9 DEF BrokerInv

\* A dial goes on from where it is, and its place in the table stays as it is.
LEMMA DialStep ==
  ASSUME BrokerInv, NEW d \in Dials, DialGoesOn(d)
  PROVE  BrokerInv'
<1>1. dial \in [Dials -> DialRecord] /\ accept \in [Accepts -> AcceptRecord]
  BY DEF BrokerInv, BrokerTypeOK, DialRecord, AcceptRecord
<1>2. CASE DialTimesOut(d) \/ DialDropped(d) \/ DialRefused(d)
  <2>1. /\ dial[d].pc \in {"waits", "dropped", "connects"}
        /\ dial' = [dial EXCEPT ![d].pc = "failed"]
        /\ UNCHANGED <<accept, pending, streamTx, lock, wire, closing, linked>>
    BY <1>2 DEF DialTimesOut, DialDropped, DialRefused, DialReturns
  <2>2. /\ dial' \in [Dials -> DialRecord] /\ dial'[d].pc = "failed"
        /\ \A e \in Dials : /\ dial'[e].id = dial[e].id /\ dial'[e].to = dial[e].to
                            /\ e # d => dial'[e] = dial[e]
    BY <1>1, <2>1 DEF DialRecord
  <2>3. BrokerTypeOK'
    BY <2>1, <2>2 DEF BrokerInv, BrokerTypeOK, DialRecord
  <2>4. TableAgrees' /\ WaitersAreHeld'
    BY <2>1, <2>2, SidesFacts DEF BrokerInv, TableAgrees, WaitersAreHeld
  <2>5. WireAgrees' /\ AcceptsHaveIds'
    BY <2>1 DEF BrokerInv, WireAgrees, AcceptsHaveIds, Genuine
  <2>6. DialsAgree'
    BY <2>1, <2>2 DEF BrokerInv, DialsAgree, Genuine
  <2>7. PeersAgree'
    BY <2>1, <2>2 DEF BrokerInv, PeersAgree
  <2> QED BY <2>3, <2>4, <2>5, <2>6, <2>7 DEF BrokerInv
<1>3. CASE DialConnects(d)
  <2> DEFINE a == dial[d].to
  <2>1. /\ dial[d].pc = "connects" /\ accept[a].pc = "listens"
        /\ dial' = [dial EXCEPT ![d].pc = "connected"]
        /\ accept' = [accept EXCEPT ![a].peer = d]
        /\ UNCHANGED <<pending, streamTx, lock, wire, closing, linked>>
    BY <1>3 DEF DialConnects
  <2>2. a \in Accepts
    BY <2>1 DEF BrokerInv, DialsAgree
  <2>3. /\ dial' \in [Dials -> DialRecord] /\ dial'[d].pc = "connected"
        /\ \A e \in Dials : /\ dial'[e].id = dial[e].id /\ dial'[e].to = dial[e].to
                            /\ e # d => dial'[e] = dial[e]
    BY <1>1, <2>1 DEF DialRecord
  <2>0. accept' \in [Accepts -> AcceptRecord]
    BY <1>1, <2>1, <2>2 DEF AcceptRecord
  <2>a. \A b \in Accepts : accept'[b].pc = accept[b].pc /\ accept'[b].id = accept[b].id
    BY <1>1, <2>1, <2>2 DEF AcceptRecord
  <2>b. \A b \in Accepts : \/ accept'[b].peer = accept[b].peer
                           \/ b = dial[d].to /\ accept'[b].peer = d
    BY <1>1, <2>1, <2>2 DEF AcceptRecord
  <2> HIDE DEF a
  <2>5. \A s \in Sides : \A info : Genuine(s, info) => Genuine(s, info)'
    BY <2>a DEF Genuine
  <2>6. BrokerTypeOK'
    BY <2>0, <2>1, <2>3 DEF BrokerInv, BrokerTypeOK, DialRecord, AcceptRecord
  <2>7. TableAgrees' /\ WaitersAreHeld'
    BY <2>1, <2>3, SidesFacts DEF BrokerInv, TableAgrees, WaitersAreHeld
  <2>8. WireAgrees'
    BY <2>1, <2>5 DEF BrokerInv, WireAgrees
  <2>9. AcceptsHaveIds'
    BY <2>1, <2>a DEF BrokerInv, AcceptsHaveIds
  <2>10. DialsAgree'
    <3> SUFFICES ASSUME NEW e \in Dials, dial'[e].pc # "idle"
                 PROVE  /\ dial'[e].id \in Ids
                        /\ dial'[e].pc \in {"connects", "connected"} =>
                             /\ dial'[e].to \in Accepts
                             /\ Genuine(SideOf[e], [id |-> dial[e].id, address |-> dial[e].to])'
      BY <2>1, <2>3 DEF BrokerInv, DialsAgree
    <3>1. /\ dial[e].pc # "idle" /\ dial'[e].id = dial[e].id /\ dial'[e].to = dial[e].to
          /\ dial'[e].pc \in {"connects", "connected"} => dial[e].pc \in {"connects", "connected"}
      BY <2>1, <2>3
    <3> QED BY <2>a, <3>1 DEF BrokerInv, DialsAgree, Genuine
  <2>11. PeersAgree'
    <3> SUFFICES ASSUME NEW b \in Accepts
                 PROVE  /\ accept'[b].pc = "connected" => accept'[b].peer \in Dials
                        /\ \A e \in Dials : accept'[b].peer = e =>
                             dial'[e].pc = "connected" /\ dial'[e].to = b
      BY DEF PeersAgree
    <3>1. CASE b = dial[d].to /\ accept'[b].peer = d
      <4>1. dial'[d].pc = "connected" /\ dial'[d].to = b
        BY <2>3, <3>1
      <4> QED BY <3>1, <4>1
    <3>2. CASE accept'[b].peer = accept[b].peer
      BY <2>1, <2>3, <2>a, <3>2 DEF BrokerInv, PeersAgree
    <3> QED BY <2>b, <3>1, <3>2
  <2> QED BY <2>6, <2>7, <2>8, <2>9, <2>10, <2>11 DEF BrokerInv
<1> QED BY <1>2, <1>3 DEF DialGoesOn

\* What is at the head of the wire is true, and the table names its dial.
LEMMA DeliverStep ==
  ASSUME BrokerInv, NEW s \in Sides, Deliver(s)
  PROVE  BrokerInv'
<1>1. /\ wire \in [Sides -> Seq([id : Ids, address : Accepts])]
      /\ dial \in [Dials -> DialRecord]
      /\ pending \in [Sides -> [Ids -> Dials \cup {None}]]
  BY DEF BrokerInv, BrokerTypeOK, DialRecord
<1>2. wire[s] # <<>> /\ wire[s] \in Seq([id : Ids, address : Accepts])
  BY <1>1 DEF Deliver
<1>3. PICK info \in [id : Ids, address : Accepts] : info = wire[s][1]
  <2>1. ASSUME NEW S, NEW q \in Seq(S), q # <<>> PROVE q[1] \in S
    BY <2>1
  <2> QED BY <1>2, <2>1
<1>4. Genuine(s, info)
  <2>1. 1 \in 1 .. Len(wire[s])
    BY <1>2
  <2> QED BY <1>3, <2>1 DEF BrokerInv, WireAgrees
<1>5. PICK d \in Dials \cup {None} : d = pending[s][info.id]
  BY <1>1
<1>6. /\ wire' = [wire EXCEPT ![s] = Tail(wire[s])]
      /\ UNCHANGED <<accept, streamTx, lock, closing, linked>>
      /\ \/ d = None /\ UNCHANGED <<pending, dial>>
         \/ /\ d # None /\ pending' = [pending EXCEPT ![s][info.id] = None]
            /\ dial[d].pc # "waits" /\ dial' = dial
         \/ /\ d # None /\ pending' = [pending EXCEPT ![s][info.id] = None]
            /\ dial[d].pc = "waits"
            /\ dial' = [dial EXCEPT ![d].pc = "connects", ![d].to = info.address]
  <2>1. Head(wire[s]) = info
    BY <1>2, <1>3
  <2> QED BY <1>5, <2>1 DEF Deliver, DeliverTo, Addressee
<1>7. AcceptsHaveIds' /\ \A r \in Sides : \A m : Genuine(r, m)' <=> Genuine(r, m)
  BY <1>6 DEF BrokerInv, AcceptsHaveIds, Genuine
<1>8. Tail(wire[s]) \in Seq([id : Ids, address : Accepts])
  <2>1. ASSUME NEW S, NEW q \in Seq(S), q # <<>> PROVE Tail(q) \in Seq(S)
    BY <2>1
  <2> QED BY <1>2, <2>1
<1>9. /\ wire' \in [Sides -> Seq([id : Ids, address : Accepts])]
      /\ wire'[s] = Tail(wire[s]) /\ \A r \in Sides : r # s => wire'[r] = wire[r]
  <2>1. wire'[s] = Tail(wire[s]) /\ \A r \in Sides : r # s => wire'[r] = wire[r]
    BY <1>1, <1>6
  <2>2. \A r \in Sides : wire'[r] \in Seq([id : Ids, address : Accepts])
    BY <1>1, <1>8, <2>1
  <2>3. wire' = [r \in Sides |-> wire'[r]]
    BY <1>1, <1>6
  <2> QED BY <2>1, <2>2, <2>3
<1>10. WireAgrees'
  <2>1. \A n \in 1 .. Len(wire'[s]) :
          n + 1 \in 1 .. Len(wire[s]) /\ wire'[s][n] = wire[s][n + 1]
    <3>1. ASSUME NEW S, NEW q \in Seq(S), q # <<>>, NEW n \in 1 .. Len(Tail(q))
          PROVE  n + 1 \in 1 .. Len(q) /\ Tail(q)[n] = q[n + 1]
      BY <3>1
    <3> QED BY <1>2, <1>9, <3>1
  <2>2. ASSUME NEW r \in Sides, NEW n \in 1 .. Len(wire'[r]) PROVE Genuine(r, wire'[r][n])
    BY <1>9, <2>1, <2>2 DEF BrokerInv, WireAgrees
  <2>3. \A r \in Sides : \A n \in 1 .. Len(wire'[r]) : Genuine(r, wire[r][n])'
    BY ZenonT(30), <1>6, <2>2 DEF Genuine
  <2> QED BY <2>3 DEF WireAgrees
<1>11. /\ pending' \in [Sides -> [Ids -> Dials \cup {None}]]
       /\ \A r \in Sides, i \in Ids :
            pending'[r][i] = IF r = s /\ i = info.id THEN None ELSE pending[r][i]
  <2>1. info.id \in Ids
    OBVIOUS
  <2>2. CASE pending' = pending /\ pending[s][info.id] = None
    BY <1>1, <2>1, <2>2
  <2>3. CASE pending' = [pending EXCEPT ![s][info.id] = None]
    BY <1>1, <2>1, <2>3
  <2> QED BY <1>5, <1>6, <2>2, <2>3
<1>12. CASE dial' = dial /\ (d = None \/ dial[d].pc # "waits")
  <2>1. BrokerTypeOK'
    BY <1>6, <1>9, <1>11, <1>12 DEF BrokerInv, BrokerTypeOK
  <2>2. TableAgrees' /\ PeersAgree'
    BY <1>6, <1>11, <1>12, SidesFacts DEF BrokerInv, TableAgrees, PeersAgree
  <2>3. DialsAgree'
    BY <1>7, <1>12, SidesFacts DEF BrokerInv, DialsAgree
  <2>4. WaitersAreHeld'
    <3> SUFFICES ASSUME NEW e \in Dials, dial[e].pc = "waits"
                 PROVE  pending'[SideOf[e]][dial[e].id] = e
      BY <1>12 DEF WaitersAreHeld
    <3>1. pending[SideOf[e]][dial[e].id] = e /\ dial[e].id \in Ids /\ e # d
      BY <1>12, SidesFacts DEF BrokerInv, WaitersAreHeld, DialsAgree
    <3> QED BY <1>5, <1>11, <3>1, SidesFacts
  <2> QED BY <1>7, <1>10, <2>1, <2>2, <2>3, <2>4 DEF BrokerInv
<1>13. CASE /\ d \in Dials /\ dial[d].pc = "waits"
            /\ dial' = [dial EXCEPT ![d].pc = "connects", ![d].to = info.address]
  <2>1. dial[d].id = info.id /\ SideOf[d] = s /\ info.id \in Ids /\ info.address \in Accepts
    BY <1>5, <1>13 DEF BrokerInv, TableAgrees
  <2>2. /\ dial' \in [Dials -> DialRecord]
        /\ dial'[d].pc = "connects" /\ dial'[d].to = info.address /\ dial'[d].id = info.id
        /\ \A e \in Dials : e # d => dial'[e] = dial[e]
    BY <1>1, <1>13, <2>1 DEF DialRecord
  <2>3. BrokerTypeOK'
    BY <1>6, <1>9, <1>11, <2>2 DEF BrokerInv, BrokerTypeOK, DialRecord
  <2>4. TableAgrees'
    BY <1>11, <1>13, <2>1, <2>2, SidesFacts DEF BrokerInv, TableAgrees
  <2>5. DialsAgree'
    <3> SUFFICES ASSUME NEW e \in Dials, dial'[e].pc # "idle"
                 PROVE  /\ dial'[e].id \in Ids
                        /\ dial'[e].pc \in {"connects", "connected"} =>
                             /\ dial'[e].to \in Accepts
                             /\ Genuine(SideOf[e], [id |-> dial[e].id, address |-> dial[e].to])'
      BY DEF DialsAgree
    <3>1. CASE e = d
      <4>1. info = [id |-> info.id, address |-> info.address]
        OBVIOUS
      <4> QED BY <1>4, <1>6, <2>1, <2>2, <3>1, <4>1 DEF Genuine
    <3>2. CASE e # d
      BY <1>6, <2>2, <3>2 DEF BrokerInv, DialsAgree, Genuine
    <3> QED BY <3>1, <3>2
  <2>6. PeersAgree'
    BY <1>6, <1>13, <2>2 DEF BrokerInv, PeersAgree
  <2>7. WaitersAreHeld'
    <3> SUFFICES ASSUME NEW e \in Dials, dial'[e].pc = "waits"
                 PROVE  pending'[SideOf[e]][dial'[e].id] = e
      BY DEF WaitersAreHeld
    <3>1. e # d /\ dial'[e] = dial[e]
      BY <2>2
    <3>2. pending[SideOf[e]][dial[e].id] = e /\ dial[e].id \in Ids
      BY <3>1 DEF BrokerInv, WaitersAreHeld, DialsAgree
    <3> QED BY <1>5, <1>11, <3>1, <3>2, SidesFacts
  <2> QED BY <1>7, <1>10, <2>3, <2>4, <2>5, <2>6, <2>7 DEF BrokerInv
<1> QED BY <1>5, <1>6, <1>12, <1>13

-----------------------------------------------------------------------------
\* Every step of the brokers keeps the invariant.
LEMMA StepHolds == BrokerInv /\ [BrokerNext]_brokerVars => BrokerInv'
<1> SUFFICES ASSUME BrokerInv, [BrokerNext]_brokerVars PROVE BrokerInv'
  OBVIOUS
<1>1. CASE UNCHANGED brokerVars
  <2>1. UNCHANGED <<accept, dial, pending, wire>> /\ BrokerTypeOK'
    BY <1>1 DEF brokerVars, BrokerInv, BrokerTypeOK
  <2>2. WireAgrees'
    BY <2>1, CallsUntouched DEF BrokerInv, WireAgrees
  <2> QED BY <2>1, <2>2, CallsUntouched DEF BrokerInv
<1>2. CASE SetStreamTx \/ Disconnect
  BY <1>2, StreamSteps
<1>3. ASSUME NEW s \in Sides, CloseBegins(s) \/ CloseEnds(s) \/ Deliver(s) PROVE BrokerInv'
  BY <1>3, CloseStep, StreamSteps, DeliverStep
<1>4. ASSUME NEW a \in Accepts, AcceptGoesOn(a) \/ \E i \in Ids : AcceptCalled(a, i) PROVE BrokerInv'
  BY <1>4, AcceptStep, AcceptCalledStep
<1>5. ASSUME NEW d \in Dials, DialGoesOn(d) \/ \E i \in Ids : RegisterPending(d, i) PROVE BrokerInv'
  BY <1>5, DialStep, RegisterStep
<1> QED BY <1>1, <1>2, <1>3, <1>4, <1>5 DEF BrokerNext

\* The types, and what is said of the table, the wires, the dials and the peers,
\* hold of every behaviour of the brokers.
THEOREM BrokerInvariance == BrokerSpec => []BrokerInv
<1>1. BrokerInit => BrokerInv
  BY BrokerStarts
<1>2. BrokerInv /\ [BrokerNext]_brokerVars => BrokerInv'
  BY StepHolds
<1> QED BY <1>1, <1>2, PTL DEF BrokerSpec

\* deliver hands every announcement to a dial of its id: who connects, on either
\* side, has reached the other one's call for the same service.
THEOREM DialsReach == BrokerSpec => []DialReachesItsService
<1>1. BrokerInv => DialReachesItsService
  <2> SUFFICES ASSUME BrokerInv PROVE DialReachesItsService
    OBVIOUS
  <2>1. \A d \in Dials : dial[d].pc \in {"connects", "connected"} =>
          /\ dial[d].to \in Accepts
          /\ accept[dial[d].to].id = dial[d].id
          /\ SideOf[dial[d].to] = Peer(SideOf[d])
    BY DEF BrokerInv, DialsAgree, Genuine
  <2>2. \A a \in Accepts : accept[a].pc = "connected" =>
          \E d \in Dials : accept[a].peer = d /\ dial[d].pc = "connected" /\ dial[d].to = a
    BY DEF BrokerInv, PeersAgree
  <2> QED BY <2>1, <2>2 DEF DialReachesItsService
<1> QED BY <1>1, BrokerInvariance, PTL

\* No dial waits for a sender that the table has let go of, whoever registers,
\* delivers or closes meanwhile.
THEOREM WaitersHeld == BrokerSpec => []WaitersAreHeld
<1>1. BrokerInv => WaitersAreHeld
  BY DEF BrokerInv
<1> QED BY <1>1, BrokerInvariance, PTL

=============================================================================
