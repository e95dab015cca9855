---------------------------- MODULE VirtualCamera ----------------------------
(***************************************************************************)
(* The virtual camera (crates/virtual-camera): the app serves its frames   *)
(* over TCP (src/macos.rs), and the clients, the camera extension          *)
(* (macos-extension/StreamSource.m) and the DAL plugin                     *)
(* (macos-dal/KalidoKitDALPlugin.m), put the byte stream together again.   *)
(*                                                                         *)
(* A frame f goes out as the units <<f, 1>> .. <<f, Chunks>>, the first of *)
(* which has the header; a pipe is the socket buffers of a connection, and *)
(* a write cut short by the end of the app leaves part of a frame in it.   *)
(***************************************************************************)
EXTENDS Integers, SequencesExt

CONSTANTS Clients,    \* the processes that show the camera
          Chunks,     \* units of a frame
          PipeCap,    \* units the socket buffers of a connection hold
          MaxFrames, MaxConns  \* bounds

ASSUME VirtualCameraAssumption ==
  /\ Chunks \in Nat \ {0} /\ PipeCap \in Nat \ {0}
  /\ MaxFrames \in Nat /\ MaxConns \in Nat

VARIABLES
  cam,       \* the app's camera
  queue,     \* the channel to the writer, of capacity 1
  frames,    \* frames given to the channel
  clients,   \* the accepted connections; the writer locks it while it writes
  backlog,   \* connections not yet accepted
  writer,    \* the writer thread: its frame and the units it still has to write
  conn,      \* the connections: their pipe and their two ends
  conns,     \* connections made
  up,        \* the clients whose connect timer runs
  fd,        \* each client's connection, 0 for none
  buffer,    \* each client's read buffer
  latest     \* each client's latest frame, as units

hostVars == <<cam, queue, frames, clients, backlog, writer>>
clientVars == <<up, fd, buffer, latest>>
vcamVars == <<hostVars, conn, conns, clientVars>>

Units(f) == [i \in 1 .. Chunks |-> <<f, i>>]
ConnIds == 1 .. MaxConns

Idle == [pc |-> "recv", frame |-> 0, todo |-> <<>>, left |-> <<>>]

Locked == writer.pc = "write"
Running == cam = "running"

-----------------------------------------------------------------------------
(* The app *)

\* The camera starts with the first frame: it binds the port, and starts the
\* listener and the writer.
Start ==
  /\ cam = "none"
  /\ cam' = "running"
  /\ queue' = <<>> /\ clients' = <<>> /\ backlog' = <<>>
  /\ writer' = Idle
  /\ UNCHANGED <<frames, conn, conns, clientVars>>

\* A frame; it is dropped when the one before still waits for the writer.  The
\* writer holds its end of the channel as long as there is a sender.
SendFrame ==
  /\ Running /\ frames < MaxFrames
  /\ frames' = frames + 1
  /\ queue' = IF queue = <<>> THEN <<frames + 1>> ELSE queue
  /\ UNCHANGED <<cam, clients, backlog, writer, conn, conns, clientVars>>

\* stop, called by drop: first the sender goes, then the clients, under the lock.
StopDropsSender ==
  /\ Running
  /\ cam' = "stopping"
  /\ UNCHANGED <<queue, frames, clients, backlog, writer, conn, conns, clientVars>>

StopClears ==
  /\ cam = "stopping" /\ ~Locked
  /\ cam' = "stopped"
  /\ clients' = <<>>
  /\ conn' = [k \in ConnIds |-> IF Contains(clients, k) THEN [conn[k] EXCEPT !.host = FALSE]
                                ELSE conn[k]]
  /\ UNCHANGED <<queue, frames, backlog, writer, conns, clientVars>>

\* The process ends, after stop or in the middle of anything: threads are gone
\* and every connection is closed.
Exit ==
  /\ cam # "none"
  /\ cam' = "none"
  /\ queue' = <<>> /\ clients' = <<>> /\ backlog' = <<>>
  /\ writer' = Idle
  /\ conn' = [k \in ConnIds |-> [conn[k] EXCEPT !.host = FALSE]]
  /\ UNCHANGED <<frames, conns, clientVars>>

-----------------------------------------------------------------------------
(* The listener and the writer *)

\* Nothing ends the listener: it also accepts after stop.
Accept ==
  /\ backlog # <<>> /\ ~Locked
  /\ clients' = Append(clients, Head(backlog))
  /\ backlog' = Tail(backlog)
  /\ UNCHANGED <<cam, queue, frames, writer, conn, conns, clientVars>>

WriterRecv ==
  /\ writer.pc = "recv" /\ queue # <<>>
  /\ writer' = [Idle EXCEPT !.pc = "lock", !.frame = Head(queue)]
  /\ queue' = Tail(queue)
  /\ UNCHANGED <<cam, frames, clients, backlog, conn, conns, clientVars>>

WriterEnds ==
  /\ writer.pc = "recv" /\ queue = <<>> /\ cam \in {"stopping", "stopped"}
  /\ writer' = [writer EXCEPT !.pc = "ended"]
  /\ UNCHANGED <<cam, queue, frames, clients, backlog, conn, conns, clientVars>>

\* The writer after it is done with the first client of its round.
Onwards(todo) ==
  IF todo = <<>> THEN Idle
  ELSE [writer EXCEPT !.pc = "write", !.todo = todo, !.left = Units(writer.frame)]

WriterLocks ==
  /\ writer.pc = "lock"
  /\ writer' = Onwards(clients)
  /\ UNCHANGED <<cam, queue, frames, clients, backlog, conn, conns, clientVars>>

\* A unit for the first client; a full pipe blocks.
Write ==
  LET k == Head(writer.todo) IN
  /\ Locked
  /\ conn[k].peer /\ Len(conn[k].pipe) < PipeCap
  /\ conn' = [conn EXCEPT ![k].pipe = Append(@, Head(writer.left))]
  /\ writer' = IF Len(writer.left) = 1 THEN Onwards(Tail(writer.todo))
               ELSE [writer EXCEPT !.left = Tail(@)]
  /\ UNCHANGED <<cam, queue, frames, clients, backlog, conns, clientVars>>

\* Seeded fault: a write that fails is tried again.
WriteRetries ==
  /\ Locked /\ ~conn[Head(writer.todo)].peer
  /\ UNCHANGED vcamVars

\* A client that is gone leaves the list.
WriteFails ==
  LET k == Head(writer.todo) IN
  /\ Locked /\ ~conn[k].peer
  /\ \E i \in DOMAIN clients : clients[i] = k /\ clients' = RemoveAt(clients, i)
  /\ conn' = [conn EXCEPT ![k].host = FALSE]
  /\ writer' = Onwards(Tail(writer.todo))
  /\ UNCHANGED <<cam, queue, frames, backlog, conns, clientVars>>

-----------------------------------------------------------------------------
(* The clients *)

\* Seeded fault: the read buffer survives the connection.
TryConnectKeepsBuffer(c) ==
  /\ c \in up /\ fd[c] = 0
  /\ cam # "none" /\ conns < MaxConns
  /\ conns' = conns + 1
  /\ conn' = [conn EXCEPT ![conns + 1] = [pipe |-> <<>>, host |-> TRUE, peer |-> TRUE]]
  /\ fd' = [fd EXCEPT ![c] = conns + 1]
  /\ backlog' = Append(backlog, conns + 1)
  /\ UNCHANGED <<cam, queue, frames, clients, writer, up, latest, buffer>>

\* The connect timer.  A listener answers as long as the process lives.
TryConnect(c) ==
  /\ c \in up /\ fd[c] = 0
  /\ cam # "none" /\ conns < MaxConns
  /\ conns' = conns + 1
  /\ conn' = [conn EXCEPT ![conns + 1] = [pipe |-> <<>>, host |-> TRUE, peer |-> TRUE]]
  /\ fd' = [fd EXCEPT ![c] = conns + 1]
  /\ buffer' = [buffer EXCEPT ![c] = <<>>]
  /\ backlog' = Append(backlog, conns + 1)
  /\ UNCHANGED <<cam, queue, frames, clients, writer, up, latest>>

\* The buffer after the complete frames at its front, and the latest of them.  What
\* has no header, read as one, is no frame size, and empties the buffer.
Complete(buf) == Len(buf) \div Chunks
HasHeader(buf, n) == buf[n * Chunks + 1][2] = 1
Valid(buf) == \A n \in 0 .. Complete(buf) : n * Chunks < Len(buf) => HasHeader(buf, n)

Process(buf, old) ==
  LET whole == IF Valid(buf) THEN Complete(buf)
               ELSE CHOOSE n \in 0 .. Complete(buf) :
                      ~HasHeader(buf, n) /\ \A m \in 0 .. n - 1 : HasHeader(buf, m)
      last == whole * Chunks
  IN [rest |-> IF Valid(buf) THEN SubSeq(buf, last + 1, Len(buf)) ELSE <<>>,
      latest |-> IF whole = 0 THEN old ELSE SubSeq(buf, last - Chunks + 1, last)]

\* All there is, and then the frames in it.
ReadFromHost(c) ==
  LET k == fd[c]  buf == buffer[c] \o conn[fd[c]].pipe IN
  /\ k # 0 /\ conn[k].host /\ conn[k].pipe # <<>>
  /\ conn' = [conn EXCEPT ![k].pipe = <<>>]
  /\ buffer' = [buffer EXCEPT ![c] = Process(buf, latest[c]).rest]
  /\ latest' = [latest EXCEPT ![c] = Process(buf, latest[c]).latest]
  /\ UNCHANGED <<hostVars, conns, up, fd>>

Closed(k) == [conn EXCEPT ![k].pipe = <<>>, ![k].peer = FALSE]

\* Seeded fault: the read source is cancelled and the descriptor kept.
ReadEofKeepsFd(c) ==
  LET k == fd[c] IN
  /\ k # 0 /\ ~conn[k].host /\ conn[k].peer
  /\ conn' = Closed(k)
  /\ buffer' = [buffer EXCEPT ![c] = @ \o conn[k].pipe]
  /\ UNCHANGED <<hostVars, conns, up, fd, latest>>

\* The end of the stream: what came before it stays in the buffer, unread.
ReadEof(c) ==
  LET k == fd[c] IN
  /\ k # 0 /\ ~conn[k].host /\ conn[k].peer
  /\ conn' = Closed(k)
  /\ buffer' = [buffer EXCEPT ![c] = @ \o conn[k].pipe]
  /\ fd' = [fd EXCEPT ![c] = 0]
  /\ UNCHANGED <<hostVars, conns, up, latest>>

\* stopTcpClient, or the end of the process.
Disconnect(c) ==
  /\ up' = up \ {c}
  /\ fd' = [fd EXCEPT ![c] = 0]
  /\ conn' = IF fd[c] = 0 THEN conn ELSE Closed(fd[c])

\* A client process starts, and ends.
ClientStarts(c) ==
  /\ c \notin up
  /\ up' = up \union {c}
  /\ UNCHANGED <<hostVars, conn, conns, fd, buffer, latest>>

ClientDies(c) ==
  /\ c \in up
  /\ Disconnect(c)
  /\ buffer' = [buffer EXCEPT ![c] = <<>>]
  /\ latest' = [latest EXCEPT ![c] = <<>>]
  /\ UNCHANGED <<hostVars, conns>>

-----------------------------------------------------------------------------
VcamInit ==
  /\ cam = "none" /\ frames = 0
  /\ queue = <<>> /\ clients = <<>> /\ backlog = <<>>
  /\ writer = Idle
  /\ conn = [k \in ConnIds |-> [pipe |-> <<>>, host |-> FALSE, peer |-> FALSE]]
  /\ conns = 0
  /\ up = {}
  /\ fd = [c \in Clients |-> 0]
  /\ buffer = [c \in Clients |-> <<>>]
  /\ latest = [c \in Clients |-> <<>>]

Threads == Accept \/ WriterRecv \/ WriterEnds \/ WriterLocks \/ Write \/ WriteFails
Reads(c) == ReadFromHost(c) \/ ReadEof(c)

VcamNext ==
  \/ Start \/ SendFrame \/ StopDropsSender \/ StopClears \/ Exit
  \/ Threads

\* The listener polls, the writer and stop run when they can, a client's queue
\* runs its read source, and its connect timer fires every second.
VcamFairness ==
  /\ WF_vcamVars(Accept)
  /\ WF_vcamVars(WriterRecv \/ WriterEnds \/ WriterLocks \/ Write \/ WriteFails)
  /\ WF_vcamVars(StopClears)
  /\ \A c \in Clients : WF_vcamVars(Reads(c)) /\ WF_vcamVars(TryConnect(c))

-----------------------------------------------------------------------------
(* Properties *)

\* Type invariant.
VcamTypeOK ==
  /\ cam \in {"none", "running", "stopping", "stopped"}
  /\ Len(queue) <= 1 /\ ToSet(queue) \subseteq 1 .. frames
  /\ writer.pc \in {"recv", "lock", "write", "ended"}
  /\ ToSet(clients) \union ToSet(backlog) \subseteq 1 .. conns
  /\ \A k \in ConnIds : Len(conn[k].pipe) <= PipeCap
  /\ up \subseteq Clients
  /\ fd \in [Clients -> 0 .. conns]

\* A client shows whole frames only, whatever part of a frame an app that went
\* away left behind (readFromHost and tryConnect, the reset of the buffer).
FramesAreWhole ==
  \A c \in Clients : latest[c] # <<>> => \E f \in 1 .. frames : latest[c] = Units(f)

\* A frame that has come in whole is taken over at once: none waits in a read buffer
\* for the bytes of the next (readFromHost, the loops).
NoFrameWaits == \A c \in Clients : fd[c] # 0 => Complete(buffer[c]) = 0

\* A client finds a camera that runs, also after the app was started again
\* (readFromHost and the connect timer; run, the listener).
ClientsReconnect ==
  \A c \in Clients :
    (c \in up /\ Running)
      ~> (c \notin up \/ ~Running \/ conns = MaxConns \/ Contains(clients, fd[c]))

\* stop returns although the writer holds the list while it writes, as long as the
\* clients that live keep reading (MacOsVirtualCamera::stop).
StopReturns == (cam = "stopping") ~> (cam # "stopping")
=============================================================================
