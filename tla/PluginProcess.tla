---------------------------- MODULE PluginProcess ----------------------------
(***************************************************************************)
(* A plugin process and the Client that starts, uses and kills it          *)
(* (crates/go-plugin: client.rs, runner.rs, protocol.rs, secure.rs and     *)
(* mtls.rs on the host; server.rs and grpc_server.rs in the plugin).       *)
(*                                                                         *)
(* The methods of Client take it exclusively, so that one call is under    *)
(* way at a time; it may be dropped at an await.  The binary is a plugin   *)
(* of this crate, or any other one, which may write any negotiation line   *)
(* or none.  A reattached plugin is not a child of the host.               *)
(***************************************************************************)
EXTENDS Handshake, StdioMirror

VARIABLES config,   \* what host and plugin were configured with
          client,   \* the Client; killed is history: a kill with a child has returned
          thread,   \* the blocking thread in cmd.start()
          proc      \* the plugin's process

procVars == <<config, client, thread, proc>>
processVars == <<procVars, stdioVars>>

\* A reattached plugin serves already; its version is what the config says.
ProcessInit ==
  /\ config \in Configs
  /\ \E cmd, reattach \in BOOLEAN :
       /\ client = [pc |-> "idle", cmd |-> cmd, reattach |-> reattach, child |-> FALSE,
                    connected |-> FALSE, version |-> 0, exited |-> FALSE, killed |-> FALSE]
       /\ proc = [pc |-> IF reattach THEN "serving" ELSE "none", line |-> NoLine,
                  tls |-> FALSE, grpc |-> TRUE, streams |-> FALSE, signalled |-> FALSE]
  /\ thread = "none"
  /\ StdioInit

-----------------------------------------------------------------------------
(* The plugin's process *)

Proc(pc) == proc' = [proc EXCEPT !.pc = pc]

\* serve, up to the line: without the cookie or a port it ends.  With a
\* certificate it serves TLS.
Serve ==
  /\ proc.pc = "boots" /\ config.binary = "plugin"
  /\ LET env == Environment(config)
     IN  \E network \in IF CookieMatches(env) THEN Listeners ELSE {"none"} :
           proc' = IF network = "none" THEN [proc EXCEPT !.pc = "dead"]
                   ELSE [proc EXCEPT !.pc = "serving", !.tls = ServerCert(env) # "",
                           !.line = NegotiationLine(config, env, network)]
  /\ UNCHANGED <<config, client, thread, stdioVars>>

\* Another binary writes a line and serves what it says, or says nothing.
ServeOther ==
  /\ proc.pc = "boots" /\ config.binary = "other"
  /\ \E line \in ForeignLines \cup {NoLine} :
       proc' = [proc EXCEPT !.pc = "serving", !.line = line,
                  !.grpc = Parses(line) /\ Parse(line).protocol = "grpc"]
  /\ UNCHANGED <<config, client, thread, stdioVars>>

\* It exits of itself or crashes: no port, no certificate, a panic.
Crash ==
  /\ proc.pc \in {"boots", "serving", "stopping"} /\ ~proc.signalled
  /\ Proc("dead")
  /\ UNCHANGED <<config, client, thread, stdioVars>>

\* The Controller service: the watch is set, and the answer goes out.
ControllerShutdown(p) == [p EXCEPT !.pc = "stopping"]

\* serve_with_incoming_shutdown returns when no request is left.  The broker's
\* stream, and stdio's, are requests that end with the connection.
StopGracefully ==
  /\ proc.pc = "stopping" /\ ~proc.streams
  /\ Proc("dead")
  /\ UNCHANGED <<config, client, thread, stdioVars>>

Die ==
  /\ proc.signalled /\ proc.pc # "dead" /\ Proc("dead")
  /\ UNCHANGED <<config, client, thread, stdioVars>>

\* Whether the calls of a plain gRPC client get through.
Answers == proc.pc \in {"serving", "stopping"} /\ proc.grpc /\ ~proc.tls

-----------------------------------------------------------------------------
(* Client::start *)

Idle == client.pc = "idle"

\* Nothing is done unless exactly one of cmd and reattach is there: neither after
\* the first start of a command, which takes it even if the checksum is wrong.
StartTakesCmd ==
  /\ Idle /\ client.cmd /\ ~client.reattach
  /\ client' = [client EXCEPT !.cmd = FALSE, !.pc = IF Verified(config) THEN "spawns" ELSE @]
  /\ thread' = IF Verified(config) THEN "spawns" ELSE thread
  /\ UNCHANGED <<config, proc, stdioVars>>

StartReattaches ==
  /\ Idle /\ client.reattach /\ ~client.cmd
  /\ \E v \in Versions : client' = [client EXCEPT !.pc = "connects", !.version = v]
  /\ UNCHANGED <<config, thread, proc, stdioVars>>

\* CmdRunner::start in the blocking thread, whether or not it is waited for.
Spawn ==
  /\ thread = "spawns" /\ thread' = "done"
  /\ \/ /\ Proc("boots")
        /\ client' = IF client.pc = "spawns" THEN [client EXCEPT !.pc = "reads"] ELSE client
     \/ /\ client' = IF client.pc = "spawns" THEN [client EXCEPT !.pc = "idle"] ELSE client
        /\ UNCHANGED proc
  /\ UNCHANGED <<config, stdioVars>>

\* start_timeout, which is about the spawning alone.
StartTimesOut ==
  /\ client.pc = "spawns" /\ client' = [client EXCEPT !.pc = "idle"]
  /\ UNCHANGED <<config, thread, proc, stdioVars>>

\* The line is read, however long it takes, and the child is recorded when it is
\* acceptable; at the end of the output without one the start has failed.
ReadLine ==
  /\ client.pc = "reads"
  /\ \/ /\ proc.line # NoLine
        /\ client' = IF Acceptable(config, proc.line)
                       THEN [client EXCEPT !.pc = "connects", !.child = TRUE,
                                           !.version = Parse(proc.line).app]
                       ELSE [client EXCEPT !.pc = "idle"]
     \/ proc.line = NoLine /\ proc.pc = "dead" /\ client' = [client EXCEPT !.pc = "idle"]
  /\ UNCHANGED <<config, thread, proc, stdioVars>>

\* connect_grpc over plain TCP.  It does not wait for the server's first frame,
\* so that a server that wants TLS or speaks another protocol is as good.  The
\* address of a Unix socket is no valid one.
Connect ==
  /\ client.pc = "connects"
  /\ \/ /\ proc.pc = "serving"
        /\ client.child => Parse(proc.line).network # "unix"
        /\ client' = [client EXCEPT !.pc = "idle", !.connected = TRUE]
     \/ client' = [client EXCEPT !.pc = "idle"]
  /\ UNCHANGED <<config, thread, proc, stdioVars>>

\* The broker's task and, for a child, the stdio task open their streams.
OpenStreams ==
  /\ client.connected /\ Answers /\ proc.pc = "serving" /\ ~proc.streams
  /\ proc' = [proc EXCEPT !.streams = TRUE]
  /\ IF client.child THEN StreamStdio ELSE UNCHANGED stdioVars
  /\ UNCHANGED <<config, client, thread>>

-----------------------------------------------------------------------------
(* kill and drop *)

\* kill asks a connected plugin to shut down first.
KillCalled ==
  /\ Idle
  /\ client' = [client EXCEPT !.pc = IF client.connected THEN "shutsDown" ELSE "waits"]
  /\ UNCHANGED <<config, thread, proc, stdioVars>>

\* The answer, or an error; there is no time limit.
ShutdownReturns ==
  /\ client.pc = "shutsDown"
  /\ client' = [client EXCEPT !.pc = "waits"]
  /\ proc' = IF Answers THEN ControllerShutdown(proc) ELSE proc
  /\ UNCHANGED <<config, thread, stdioVars>>

KillReturns ==
  /\ client.pc = "waits"
  /\ client' = [client EXCEPT !.pc = "idle", !.exited = TRUE, !.killed = @ \/ client.child]

\* Seeded fault: the child is waited for without a time limit.
KillPatiently ==
  /\ KillReturns /\ (client.child => proc.pc = "dead")
  /\ UNCHANGED <<config, thread, proc, stdioVars>>

\* A child that has not exited after two seconds is killed.
KillWaits ==
  /\ KillReturns
  /\ proc' = [proc EXCEPT !.signalled = @ \/ (client.child /\ proc.pc # "dead")]
  /\ UNCHANGED <<config, thread, stdioVars>>

\* The future of start or kill is dropped at an await.
CallDropped ==
  /\ client.pc \in {"spawns", "connects", "shutsDown", "waits"}
  /\ client' = [client EXCEPT !.pc = "idle"]
  /\ UNCHANGED <<config, thread, proc, stdioVars>>

DropClient ==
  /\ Idle /\ client' = [client EXCEPT !.pc = "dropped"]
  /\ proc' = [proc EXCEPT !.signalled = @ \/ (client.child /\ proc.pc # "dead")]
  /\ UNCHANGED <<config, thread, stdioVars>>

\* cleanup_clients, of a client that was registered: its child is killed.
CleanupClients ==
  /\ Idle /\ client' = [client EXCEPT !.killed = @ \/ client.child]
  /\ proc' = [proc EXCEPT !.signalled = @ \/ (client.child /\ proc.pc # "dead")]
  /\ UNCHANGED <<config, thread, stdioVars>>

-----------------------------------------------------------------------------
\* The plugin's output is captured while it serves.
Captures == proc.pc \in {"serving", "stopping"} /\ config.binary = "plugin" /\ thread = "done"

PluginWrites == Captures /\ (\E p \in Pipes : Write(p)) /\ UNCHANGED procVars
StdioGoesOn == Captures /\ StdioTasks /\ UNCHANGED procVars

Process == Serve \/ ServeOther \/ Crash \/ StopGracefully \/ Die

HostGoesOn == Spawn \/ ReadLine \/ Connect \/ ShutdownReturns \/ KillWaits

Call ==
  \/ StartTakesCmd \/ StartReattaches \/ StartTimesOut \/ OpenStreams
  \/ KillCalled \/ CallDropped \/ DropClient \/ CleanupClients \/ HostGoesOn

ProcessNext == Process \/ Call \/ PluginWrites \/ StdioGoesOn

ProcessSpec == ProcessInit /\ [][ProcessNext]_processVars

\* The host's runtime polls its tasks, the plugin its own, and answers a shutdown
\* request; the system delivers signals.
Fairness ==
  /\ WF_processVars(HostGoesOn) /\ WF_processVars(Die)
  /\ WF_processVars(StdioGoesOn)

FairSpec == ProcessSpec /\ Fairness

-----------------------------------------------------------------------------
(* Properties *)

\* What a process of the configuration c may have written.
Lines(c) ==
  ForeignLines \cup {NoLine}
    \cup {NegotiationLine(c, Environment(c), network) : network \in Listeners}

Processes(c) ==
  [pc : {"none", "boots", "serving", "stopping", "dead"}, line : Lines(c),
   tls : BOOLEAN, grpc : BOOLEAN, streams : BOOLEAN, signalled : BOOLEAN]

ProcessTypeOK ==
  /\ config \in Configs
  /\ client \in [pc : {"idle", "spawns", "reads", "connects", "shutsDown", "waits", "dropped"},
                 cmd : BOOLEAN, reattach : BOOLEAN, child : BOOLEAN,
                 connected : BOOLEAN, version : Versions \cup {0}, exited : BOOLEAN, killed : BOOLEAN]
  /\ thread \in {"none", "spawns", "done"}
  /\ proc \in Processes(config)

\* A child that is kept speaks a version of the host's and, if it is one of this
\* crate's, none that both support is higher: the choice goes through the
\* environment, the plugin, the line and back.
VersionsAgree ==
  client.child =>
    /\ client.version = Parse(proc.line).app /\ client.version \in config.host
    /\ config.binary = "plugin" =>
         \A v \in config.host \cap config.versioned : v <= client.version

\* kill returns, and the child that the client has kept is dead soon after kill or
\* drop, although it never stops of its own while the host's streams are open.
ChildIsKilled ==
  /\ client.pc = "waits" ~> client.pc # "waits"
  /\ client.child /\ (client.killed \/ client.pc = "dropped") ~> proc.pc = "dead"

\* What the plugin writes is mirrored, once the stream is there and as long as the
\* plugin lives, however small the channels.
OutputArrives ==
  \A p \in Pipes : \A n \in 1..Chunks :
    taken /\ written[p] >= n ~> Len(mirrored[p]) >= n \/ proc.pc = "dead"

\* mtls.rs:3 to 8 and lib.rs:26 to 32: with the default configuration, which has
\* AutoMTLS on, a plugin is started and used.
StartedAnswers == client.connected /\ config.binary = "plugin" /\ proc.pc = "serving" => Answers

\* client.rs:3 to 5: the client manages the full lifecycle of the process.
NoOrphan ==
  client.pc \in {"idle", "dropped"} /\ thread = "done" /\ proc.pc \notin {"none", "dead"}
    => client.child
==============================================================================
