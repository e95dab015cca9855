------------------------------ MODULE DalPlugin ------------------------------
(***************************************************************************)
(* The CoreMediaIO DAL plugin (macos-dal/KalidoKitDALPlugin.m) as one of   *)
(* the camera's clients: the objects it publishes and their properties,    *)
(* the stream's timer and the queue its consumer reads.  CoreMediaIO       *)
(* itself is external: it may refuse to create or publish an object.       *)
(***************************************************************************)
EXTENDS VirtualCamera

CONSTANTS Dal,       \* the client that is the plugin
          QueueCap   \* capacity of the buffer queue

ASSUME DalAssumption == Dal \in Clients /\ QueueCap \in Nat \ {0}

VARIABLES ids,      \* gPlugInID, gDeviceID, gStreamID
          stream    \* the timer, the running flag and the queue

dalVars == <<ids, stream>>
vars == <<vcamVars, dalVars>>

Unknown == 0
Objects == [plugIn |-> 1, device |-> 2, stream |-> 3]
NoQueue == [made |-> FALSE, length |-> 0]

-----------------------------------------------------------------------------
(* Lifecycle *)

\* The objects an initialisation leaves, by the step that fails.
Created(step) ==
  CASE step = "device" -> [ids EXCEPT !.plugIn = Objects.plugIn]
    [] step = "stream" -> [ids EXCEPT !.plugIn = Objects.plugIn, !.device = Objects.device]
    [] OTHER -> Objects

\* Objects are created and published, then the TCP client starts.
InitializeWithObjectID ==
  /\ Dal \notin up /\ ids.device = Unknown
  /\ \E step \in {"device", "stream", "publish", "none"} :
       /\ ids' = Created(step)
       /\ up' = IF step = "none" THEN up \union {Dal} ELSE up
  /\ UNCHANGED <<hostVars, conn, conns, fd, buffer, latest, stream>>

\* The running flag, the read buffer and the latest frame stay as they are.
Teardown ==
  /\ ids.plugIn # Unknown
  /\ Disconnect(Dal)
  /\ ids' = [ids EXCEPT !.device = Unknown, !.stream = Unknown]
  /\ stream' = [stream EXCEPT !.timer = FALSE, !.queue = NoQueue]
  /\ UNCHANGED <<hostVars, conns, buffer, latest>>

StartStream ==
  /\ Dal \in up
  /\ stream' = [stream EXCEPT !.running = TRUE, !.timer = TRUE]
  /\ UNCHANGED <<vcamVars, ids>>

StopStream ==
  /\ Dal \in up
  /\ stream' = [stream EXCEPT !.running = FALSE, !.timer = FALSE]
  /\ UNCHANGED <<vcamVars, ids>>

\* A new queue; the consumer keeps the one it had.
CopyBufferQueue ==
  /\ Dal \in up
  /\ stream' = [stream EXCEPT !.queue = [made |-> TRUE, length |-> 0]]
  /\ UNCHANGED <<vcamVars, ids>>

\* The plugin speaks the extension's protocol, with code of its own.
TcpClient == TryConnect(Dal) \/ Reads(Dal)

ExtensionClient(c) == ClientStarts(c) \/ ClientDies(c) \/ TryConnect(c) \/ Reads(c)

\* A tick: the latest frame, or the test pattern before there is one; dropped when
\* the queue is full.
PushFrame ==
  /\ stream.timer /\ stream.queue.made /\ stream.queue.length < QueueCap
  /\ stream' = [stream EXCEPT !.queue.length = @ + 1]
  /\ UNCHANGED <<vcamVars, ids>>

\* The consumer takes a frame.
Dequeue ==
  /\ stream.queue.length > 0
  /\ stream' = [stream EXCEPT !.queue.length = @ - 1]
  /\ UNCHANGED <<vcamVars, ids>>

NoStream == [timer |-> FALSE, running |-> FALSE, queue |-> NoQueue]

\* The process that loaded the plugin ends.
DalDies ==
  /\ ids.plugIn # Unknown
  /\ Disconnect(Dal)
  /\ buffer' = [buffer EXCEPT ![Dal] = <<>>]
  /\ latest' = [latest EXCEPT ![Dal] = <<>>]
  /\ ids' = [Objects EXCEPT !.plugIn = Unknown, !.device = Unknown, !.stream = Unknown]
  /\ stream' = NoStream
  /\ UNCHANGED <<hostVars, conns>>

-----------------------------------------------------------------------------
(* Properties of the objects *)

DeviceWords == {"transportType", "isAlive", "hasChanged", "isRunning", "isRunningSomewhere"}
StreamWords == {"direction", "terminalType", "startingChannel"}
Strings == {"name", "manufacturer", "deviceUID", "modelUID"}
Lists == {"ownedObjects", "streams"}
Pointers == {"formatDescription", "formatDescriptions", "frameRates"}

\* Seeded fault: every object announces the ones it owns.
HasPropertyOwned(object) ==
  IF object = ids.plugIn THEN {"name", "ownedObjects"}
  ELSE IF object = ids.device
       THEN {"name", "manufacturer", "deviceUID", "modelUID"} \union Lists \union DeviceWords
  ELSE IF object = ids.stream
       THEN {"name", "ownedObjects", "frameRate"} \union StreamWords \union Pointers
  ELSE {}

\* The first of the three that has the id, in this order: an id may be 0.
HasProperty(object) ==
  IF object = ids.plugIn THEN {"name", "ownedObjects"}
  ELSE IF object = ids.device
       THEN {"name", "manufacturer", "deviceUID", "modelUID"} \union Lists \union DeviceWords
  ELSE IF object = ids.stream
       THEN {"name", "frameRate"} \union StreamWords \union Pointers
  ELSE {}

Refused == -1
PointerSize == 8
WordSize == 4

\* What GetPropertyDataSize announces, by the selector first.
DataSize(object, selector) ==
  CASE selector \in Strings \union Pointers \union {"frameRate"} -> PointerSize
    [] selector \in DeviceWords \union StreamWords -> WordSize
    [] selector \in Lists ->
         IF object \in {ids.plugIn, ids.device} THEN WordSize ELSE 0
    [] OTHER -> Refused

\* What GetPropertyData writes; the objects a stream owns are left unwritten.
DataUsed(object, selector) ==
  CASE selector = "name" ->
         IF object \in {ids.plugIn, ids.device, ids.stream} THEN PointerSize ELSE Refused
    [] selector = "ownedObjects" ->
         IF object \in {ids.plugIn, ids.device} THEN WordSize ELSE Refused
    [] selector = "streams" -> WordSize
    [] selector \in Strings \union Pointers \union {"frameRate"} -> PointerSize
    [] selector \in DeviceWords \union StreamWords -> WordSize
    [] OTHER -> Refused

-----------------------------------------------------------------------------
Init ==
  /\ VcamInit
  /\ ids = [plugIn |-> Unknown, device |-> Unknown, stream |-> Unknown]
  /\ stream = NoStream

Next ==
  \/ VcamNext /\ UNCHANGED dalVars
  \/ TcpClient /\ UNCHANGED dalVars
  \/ \E c \in Clients \ {Dal} : ExtensionClient(c) /\ UNCHANGED dalVars
  \/ InitializeWithObjectID \/ Teardown \/ DalDies
  \/ StartStream \/ StopStream \/ CopyBufferQueue \/ PushFrame \/ Dequeue

Spec == Init /\ [][Next]_vars
FairSpec == Spec /\ VcamFairness

\* Type invariant.
TypeOK ==
  /\ VcamTypeOK
  /\ ids \in [{"plugIn", "device", "stream"} -> 0 .. 3]
  /\ stream.queue.length <= QueueCap

\* A property an object announces can be read, and its value is as long as was
\* said, at every moment of the plugin's life (DAL_ObjectHasProperty,
\* DAL_ObjectGetPropertyDataSize and DAL_ObjectGetPropertyData).
AnnouncedIsReadable ==
  \A object \in 0 .. 3 : \A selector \in HasProperty(object) :
    DataSize(object, selector) # Refused
      /\ DataUsed(object, selector) = DataSize(object, selector)
=============================================================================
