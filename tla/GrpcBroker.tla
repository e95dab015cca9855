------------------------------ MODULE GrpcBroker ------------------------------
(***************************************************************************)
(* The brokers of a gRPC plugin connection (crates/go-plugin,              *)
(* grpc_broker.rs and the host's end of the stream in grpc_client.rs).     *)
(* Each side of the connection has a GRPCBroker.  accept opens a listener  *)
(* and announces it to the peer; dial registers for an announcement and    *)
(* connects to what it is given; deliver is the loop between them; close   *)
(* cancels.  accept keeps the stream's mutex until it has a connection.    *)
(*                                                                         *)
(* An address is the accept that listens on it.  The plugin stores the     *)
(* sender of its stream (start_stream); the host never does, so that its   *)
(* accepts fail and the plugin's dials wait in vain.                       *)
(***************************************************************************)
EXTENDS Naturals, Sequences

CONSTANTS Accepts, Dials,  \* the calls that may be made, each once
          SideOf,          \* the side each call is made on
          Ids,             \* service ids
          Slots            \* announcements that fit on the way to a peer

Sides == {"host", "plugin"}
Peer(s) == IF s = "host" THEN "plugin" ELSE "host"

None == "none"

ASSUME GrpcBrokerAssumption ==
  /\ Accepts \cap Dials = {}
  /\ None \notin Accepts \cup Dials \cup Ids
  /\ SideOf \in [Accepts \cup Dials -> Sides]
  /\ Slots \in Nat \ {0}

VARIABLES accept,   \* the accept calls: where they are, and who connected
          dial,     \* the dial calls: where they are, and what they were given
          pending,  \* per side: the dials registered, by id
          streamTx, \* per side: stream_tx is Some
          lock,     \* per side: who holds the mutex of stream_tx
          wire,     \* per side: the announcements on the way to it
          closing,  \* per side: where close is; it holds pending when "waits"
          linked    \* the bidirectional stream is up

brokerVars == <<accept, dial, pending, streamTx, lock, wire, closing, linked>>


BrokerInit ==
  /\ accept = [a \in Accepts |-> [pc |-> "idle", id |-> None, peer |-> None]]
  /\ dial = [d \in Dials |-> [pc |-> "idle", id |-> None, to |-> None]]
  /\ pending = [s \in Sides |-> [i \in Ids |-> None]]
  /\ streamTx = [s \in Sides |-> FALSE]
  /\ lock = [s \in Sides |-> None]
  /\ wire = [s \in Sides |-> <<>>]
  /\ closing = [s \in Sides |-> "no"]
  /\ linked = TRUE

-----------------------------------------------------------------------------
(* The stream and the close of a broker. *)

\* start_stream's task stores the sender, as soon as nobody holds the mutex.
SetStreamTx ==
  /\ linked /\ lock["plugin"] = None /\ ~streamTx["plugin"]
  /\ streamTx' = [streamTx EXCEPT !["plugin"] = TRUE]
  /\ UNCHANGED <<accept, dial, pending, lock, wire, closing, linked>>

\* The connection is lost: both loops end with what was on the way.
Disconnect ==
  /\ linked /\ linked' = FALSE
  /\ wire' = [s \in Sides |-> <<>>]
  /\ UNCHANGED <<accept, dial, pending, streamTx, lock, closing>>

PendingFree(s) == closing[s] # "waits"

\* The sender of a registered dial is dropped: it gets an error unless it has
\* an answer already or has stopped waiting.
Dropped(d) == IF d.pc = "waits" THEN [d EXCEPT !.pc = "dropped"] ELSE d

\* Seeded fault: the table is emptied with its senders still alive elsewhere.
CloseForgets(s) ==
  /\ closing[s] = "no" /\ closing' = [closing EXCEPT ![s] = "waits"]
  /\ pending' = [pending EXCEPT ![s] = [i \in Ids |-> None]]
  /\ UNCHANGED <<accept, dial, streamTx, lock, wire, linked>>

\* close empties the table and goes on to the stream's mutex with the table's
\* still in hand.
CloseBegins(s) ==
  /\ closing[s] = "no" /\ closing' = [closing EXCEPT ![s] = "waits"]
  /\ dial' = [d \in Dials |->
                IF \E i \in Ids : pending[s][i] = d THEN Dropped(dial[d]) ELSE dial[d]]
  /\ pending' = [pending EXCEPT ![s] = [i \in Ids |-> None]]
  /\ UNCHANGED <<accept, streamTx, lock, wire, linked>>

CloseEnds(s) ==
  /\ closing[s] = "waits" /\ lock[s] = None
  /\ closing' = [closing EXCEPT ![s] = "done"]
  /\ streamTx' = [streamTx EXCEPT ![s] = FALSE]
  /\ UNCHANGED <<accept, dial, pending, lock, wire, linked>>

-----------------------------------------------------------------------------
(* accept *)

AcceptCalled(a, i) ==
  /\ accept[a].pc = "idle"
  /\ accept' = [accept EXCEPT ![a] = [pc |-> "locks", id |-> i, peer |-> None]]
  /\ UNCHANGED <<dial, pending, streamTx, lock, wire, closing, linked>>

\* The mutex is taken; without a stream it is given back with the error.
AcceptLocks(a) ==
  LET s == SideOf[a] IN
  /\ accept[a].pc = "locks" /\ lock[s] = None
  /\ IF streamTx[s]
       THEN /\ lock' = [lock EXCEPT ![s] = a]
            /\ accept' = [accept EXCEPT ![a].pc = "announces"]
       ELSE /\ accept' = [accept EXCEPT ![a].pc = "failed"]
            /\ UNCHANGED lock
  /\ UNCHANGED <<dial, pending, streamTx, wire, closing, linked>>

\* The listener is bound and its address sent, when there is room.
AcceptAnnounces(a) ==
  LET s == SideOf[a] IN
  /\ accept[a].pc = "announces" /\ linked /\ Len(wire[Peer(s)]) < Slots
  /\ wire' = [wire EXCEPT ![Peer(s)] = Append(@, [id |-> accept[a].id, address |-> a])]
  /\ accept' = [accept EXCEPT ![a].pc = "listens"]
  /\ UNCHANGED <<dial, pending, streamTx, lock, closing, linked>>

AcceptReturns(a, result) ==
  /\ accept' = [accept EXCEPT ![a].pc = result]
  /\ lock' = [lock EXCEPT ![SideOf[a]] = None]
  /\ UNCHANGED <<dial, pending, streamTx, wire, closing, linked>>

\* The listener cannot be bound, or nobody receives the stream any more.
AcceptFails(a) == accept[a].pc = "announces" /\ AcceptReturns(a, "failed")

\* Seeded fault: no time limit.
AcceptWaitsOn(a) == FALSE /\ AcceptReturns(a, "failed")

\* Five seconds are over.  A connection may be in the listener's backlog by then.
AcceptTimesOut(a) == accept[a].pc = "listens" /\ AcceptReturns(a, "failed")

AcceptConnected(a) ==
  /\ accept[a].pc = "listens" /\ accept[a].peer # None
  /\ AcceptReturns(a, "connected")

-----------------------------------------------------------------------------
(* dial_grpc and deliver *)

\* register_pending.  An earlier dial of the id loses its place.
RegisterPending(d, i) ==
  LET s == SideOf[d]
      old == pending[s][i] IN
  /\ dial[d].pc = "idle" /\ PendingFree(s)
  /\ pending' = [pending EXCEPT ![s][i] = d]
  /\ dial' = [e \in Dials |->
                CASE e = d -> [pc |-> "waits", id |-> i, to |-> None]
                  [] e # d /\ e = old -> Dropped(dial[e])
                  [] OTHER -> dial[e]]
  /\ UNCHANGED <<accept, streamTx, lock, wire, closing, linked>>

DialReturns(d, from, result) ==
  /\ dial[d].pc = from
  /\ dial' = [dial EXCEPT ![d].pc = result]
  /\ UNCHANGED <<accept, pending, streamTx, lock, wire, closing, linked>>

\* Five seconds are over.  The entry stays in the table.
DialTimesOut(d) == DialReturns(d, "waits", "failed")

DialDropped(d) == DialReturns(d, "dropped", "failed")

\* The connection is made if the listener is still there.
DialConnects(d) ==
  LET a == dial[d].to IN
  /\ dial[d].pc = "connects" /\ accept[a].pc = "listens"
  /\ dial' = [dial EXCEPT ![d].pc = "connected"]
  /\ accept' = [accept EXCEPT ![a].peer = d]
  /\ UNCHANGED <<pending, streamTx, lock, wire, closing, linked>>

DialRefused(d) ==
  /\ DialReturns(d, "connects", "failed")
  /\ accept[dial[d].to].pc # "listens"

\* Who gets an announcement: the dial in the table under its id.
Addressee(s, info) == pending[s][info.id]

\* Seeded fault: any dial that waits gets it.
AnyAddressee(s, info) ==
  IF \E d \in Dials : dial[d].pc = "waits" /\ SideOf[d] = s
    THEN CHOOSE d \in Dials : dial[d].pc = "waits" /\ SideOf[d] = s
    ELSE None

\* The loop at the end of the stream: an announcement nobody has registered for
\* is lost, as is one for a dial that has timed out.
DeliverTo(s, info, d) ==
  IF d = None
    THEN UNCHANGED <<pending, dial>>
    ELSE /\ pending' = [pending EXCEPT ![s][info.id] = None]
         /\ dial' = IF dial[d].pc = "waits"
                      THEN [dial EXCEPT ![d].pc = "connects", ![d].to = info.address]
                      ELSE dial

\* Seeded fault: deliver does not look at the id.
DeliverToAnyone(s) ==
  /\ wire[s] # <<>> /\ PendingFree(s)
  /\ DeliverTo(s, Head(wire[s]), AnyAddressee(s, Head(wire[s])))
  /\ wire' = [wire EXCEPT ![s] = Tail(@)]
  /\ UNCHANGED <<accept, streamTx, lock, closing, linked>>

Deliver(s) ==
  /\ wire[s] # <<>> /\ PendingFree(s)
  /\ DeliverTo(s, Head(wire[s]), Addressee(s, Head(wire[s])))
  /\ wire' = [wire EXCEPT ![s] = Tail(@)]
  /\ UNCHANGED <<accept, streamTx, lock, closing, linked>>

-----------------------------------------------------------------------------
AcceptGoesOn(a) ==
  \/ AcceptLocks(a) \/ AcceptAnnounces(a) \/ AcceptFails(a)
  \/ AcceptTimesOut(a) \/ AcceptConnected(a)

DialGoesOn(d) ==
  DialTimesOut(d) \/ DialDropped(d) \/ DialConnects(d) \/ DialRefused(d)

BrokerNext ==
  \/ SetStreamTx \/ Disconnect
  \/ \E s \in Sides : CloseBegins(s) \/ CloseEnds(s) \/ Deliver(s)
  \/ \E a \in Accepts : AcceptGoesOn(a) \/ \E i \in Ids : AcceptCalled(a, i)
  \/ \E d \in Dials : DialGoesOn(d) \/ \E i \in Ids : RegisterPending(d, i)

BrokerSpec == BrokerInit /\ [][BrokerNext]_brokerVars

\* The runtime polls every task, and the deadlines pass.
BrokerFairness ==
  /\ \A s \in Sides : WF_brokerVars(CloseEnds(s)) /\ WF_brokerVars(Deliver(s))
  /\ \A a \in Accepts : WF_brokerVars(AcceptGoesOn(a))
  /\ \A d \in Dials : WF_brokerVars(DialGoesOn(d))

BrokerFairSpec == BrokerSpec /\ BrokerFairness

-----------------------------------------------------------------------------
(* Properties *)

BrokerTypeOK ==
  /\ accept \in [Accepts ->
       [pc : {"idle", "locks", "announces", "listens", "connected", "failed"},
        id : Ids \cup {None}, peer : Dials \cup {None}]]
  /\ dial \in [Dials ->
       [pc : {"idle", "waits", "dropped", "connects", "connected", "failed"},
        id : Ids \cup {None}, to : Accepts \cup {None}]]
  /\ pending \in [Sides -> [Ids -> Dials \cup {None}]]
  /\ streamTx \in [Sides -> BOOLEAN] /\ linked \in BOOLEAN
  /\ lock \in [Sides -> Accepts \cup {None}]
  /\ wire \in [Sides -> Seq([id : Ids, address : Accepts])]
  /\ closing \in [Sides -> {"no", "waits", "done"}]

\* A dial that succeeds has reached an accept of its own id on the other side, and
\* an accept that succeeds has the connection of such a dial.  Announcements,
\* registrations, replacements and time-outs interleave in deliver, and an address
\* that reached the wrong call would go unnoticed.
DialReachesItsService ==
  /\ \A d \in Dials : dial[d].pc \in {"connects", "connected"} =>
       LET a == dial[d].to IN
       /\ a \in Accepts
       /\ accept[a].id = dial[d].id
       /\ SideOf[a] = Peer(SideOf[d])
  /\ \A a \in Accepts : accept[a].pc = "connected" =>
       \E d \in Dials : accept[a].peer = d /\ dial[d].pc = "connected" /\ dial[d].to = a

\* A dial waits only while the table holds its sender: whoever takes the sender
\* out answers the dial or drops it, so that no dial sits out its five seconds
\* for an answer nobody can give it any more.
WaitersAreHeld ==
  \A d \in Dials : dial[d].pc = "waits" => pending[SideOf[d]][dial[d].id] = d

\* Every accept, dial and close returns, whoever holds which mutex meanwhile.
CallsReturn ==
  /\ \A a \in Accepts : accept[a].pc # "idle" ~> accept[a].pc \in {"connected", "failed"}
  /\ \A d \in Dials : dial[d].pc # "idle" ~> dial[d].pc \in {"connected", "failed"}
  /\ \A s \in Sides : closing[s] = "waits" ~> closing[s] = "done"
===============================================================================
