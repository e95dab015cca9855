----------------------------- MODULE StdioMirror -----------------------------
(***************************************************************************)
(* How a plugin's output gets to its host (crates/go-plugin,               *)
(* grpc_stdio.rs).  The plugin's stdout and stderr are pipes; a task per   *)
(* pipe reads it into one bounded channel; stream_stdio takes the channel  *)
(* away and a task forwards it; the host writes what comes to its own      *)
(* stdout and stderr.  Each pipe's chunks are numbered as written.         *)
(***************************************************************************)
EXTENDS Naturals, Sequences

CONSTANTS Chunks,   \* chunks written to each pipe
          Queue     \* room of each of the two channels

ASSUME StdioMirrorAssumption == Chunks \in Nat /\ Queue \in Nat \ {0}

Pipes == {"stdout", "stderr"}

VARIABLES written,   \* per pipe: how many chunks the plugin has written
          read,      \* per pipe: how many its task has read
          merged,    \* the channel between the tasks and the stream
          stream,    \* the channel to the host, and what is on the way
          taken,     \* stream_stdio has taken the receiver of merged
          mirrored   \* per pipe: what the host has written of it

stdioVars == <<written, read, merged, stream, taken, mirrored>>

StdioInit ==
  /\ written = [p \in Pipes |-> 0] /\ read = [p \in Pipes |-> 0]
  /\ merged = <<>> /\ stream = <<>> /\ taken = FALSE
  /\ mirrored = [p \in Pipes |-> <<>>]

Write(p) ==
  /\ written[p] < Chunks
  /\ written' = [written EXCEPT ![p] = @ + 1]
  /\ UNCHANGED <<read, merged, stream, taken, mirrored>>

\* read_into_channel: one chunk, when there is room for it.
ReadIntoChannel(p) ==
  /\ read[p] < written[p] /\ Len(merged) < Queue
  /\ read' = [read EXCEPT ![p] = @ + 1]
  /\ merged' = Append(merged, [pipe |-> p, chunk |-> read[p] + 1])
  /\ UNCHANGED <<written, stream, taken, mirrored>>

\* The host asks for the stream.  A second request would get an empty one.
StreamStdio ==
  /\ ~taken /\ taken' = TRUE
  /\ UNCHANGED <<written, read, merged, stream, mirrored>>

\* Seeded fault: a stream that is full loses what does not fit.
ForwardDrops ==
  /\ taken /\ merged # <<>>
  /\ stream' = IF Len(stream) < Queue THEN Append(stream, Head(merged)) ELSE stream
  /\ merged' = Tail(merged)
  /\ UNCHANGED <<written, read, taken, mirrored>>

Forward ==
  /\ taken /\ merged # <<>> /\ Len(stream) < Queue
  /\ stream' = Append(stream, Head(merged))
  /\ merged' = Tail(merged)
  /\ UNCHANGED <<written, read, taken, mirrored>>

\* process_stream.  The host's own writers are not waited for.
Mirror ==
  /\ stream # <<>>
  /\ LET data == Head(stream) IN
       mirrored' = [mirrored EXCEPT ![data.pipe] = Append(@, data.chunk)]
  /\ stream' = Tail(stream)
  /\ UNCHANGED <<written, read, merged, taken>>

\* Seeded fault: the task of stderr is not spawned.
StdoutTasks == ReadIntoChannel("stdout") \/ Forward \/ Mirror

\* The tasks of from_readers and capture_stdio, of the stream and of the host.
StdioTasks == (\E p \in Pipes : ReadIntoChannel(p)) \/ Forward \/ Mirror

-----------------------------------------------------------------------------
\* Through two bounded channels and four tasks nothing of a pipe is lost,
\* repeated, reordered or taken for the other pipe's.
OutputIsWhole ==
  \A p \in Pipes : mirrored[p] = [n \in 1..Len(mirrored[p]) |-> n]
==============================================================================
