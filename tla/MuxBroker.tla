------------------------------ MODULE MuxBroker ------------------------------
(***************************************************************************)
(* The broker of a net/rpc plugin connection (crates/go-plugin,            *)
(* mux_broker.rs): streams of one yamux connection, matched by an id.  The *)
(* dialing side opens a stream, writes the id and waits for it to come     *)
(* back; the accepting side registers the id, and a task per inbound       *)
(* stream routes it to the accept.                                         *)
(*                                                                         *)
(* The two directions share nothing but the connection, so one is          *)
(* modelled.  A stream is named by the dial that opened it.                *)
(***************************************************************************)
EXTENDS Naturals

CONSTANTS Accepts, Dials,  \* the calls that may be made, each once
          Ids              \* stream ids

None == "none"

ASSUME MuxBrokerAssumption == None \notin Accepts \cup Dials /\ Ids \subseteq Nat \ {0}

VARIABLES accept,    \* the accept calls, and the stream each has got
          dial,      \* the dial calls
          inbound,   \* the task of each stream on the accepting side, and whom it found
          pending,   \* the accepts registered, by id
          connected  \* the yamux connection is up

muxVars == <<accept, dial, inbound, pending, connected>>

MuxInit ==
  /\ accept = [a \in Accepts |-> [pc |-> "idle", id |-> 0, stream |-> None]]
  /\ dial = [d \in Dials |-> [pc |-> "idle", id |-> 0]]
  /\ inbound = [d \in Dials |-> [pc |-> "none", to |-> None]]
  /\ pending = [i \in Ids |-> None]
  /\ connected = TRUE

-----------------------------------------------------------------------------
(* accept and close *)

\* An accept whose sender is dropped while it waits is cancelled.
Cancelled(a) == IF a.pc = "waits" THEN [a EXCEPT !.pc = "failed"] ELSE a

\* The accept registers; an earlier one of the id loses its place.
Accept(a, i) ==
  /\ accept[a].pc = "idle"
  /\ pending' = [pending EXCEPT ![i] = a]
  /\ accept' = [b \in Accepts |->
                  IF b = a THEN [pc |-> "waits", id |-> i, stream |-> None]
                  ELSE IF b = pending[i] THEN Cancelled(accept[b])
                  ELSE accept[b]]
  /\ UNCHANGED <<dial, inbound, connected>>

\* Five seconds are over.  The entry stays.
AcceptTimesOut(a) ==
  /\ accept[a].pc = "waits"
  /\ accept' = [accept EXCEPT ![a].pc = "failed"]
  /\ UNCHANGED <<dial, inbound, pending, connected>>

Close ==
  /\ pending' = [i \in Ids |-> None]
  /\ accept' = [a \in Accepts |->
                  IF \E i \in Ids : pending[i] = a THEN Cancelled(accept[a]) ELSE accept[a]]
  /\ UNCHANGED <<dial, inbound, connected>>

-----------------------------------------------------------------------------
(* dial.  None of its steps has a time limit. *)

DialIs(d, pc) == dial' = [dial EXCEPT ![d].pc = pc]
InboundIs(d, pc) == inbound' = [inbound EXCEPT ![d].pc = pc]

\* The driver opens a stream, or cannot: no room, or the connection is gone.
DialOpens(d, i) ==
  /\ dial[d].pc = "idle"
  /\ \/ connected /\ dial' = [dial EXCEPT ![d] = [pc |-> "opened", id |-> i]]
     \/ dial' = [dial EXCEPT ![d] = [pc |-> "failed", id |-> i]]
  /\ UNCHANGED <<accept, inbound, pending, connected>>

\* The id is written, and the peer's driver spawns the stream's task.
DialWrites(d) ==
  /\ dial[d].pc = "opened" /\ connected
  /\ DialIs(d, "asks") /\ InboundIs(d, "reads")
  /\ UNCHANGED <<accept, pending, connected>>

\* The id comes back; it may have been on the way when the connection was lost.
DialAcked(d) ==
  /\ dial[d].pc = "asks" /\ inbound[d].pc \in {"acked", "given", "lost"}
  /\ DialIs(d, "connected")
  /\ UNCHANGED <<accept, inbound, pending, connected>>

\* The stream ends without it.
DialRefused(d) ==
  /\ dial[d].pc \in {"opened", "asks"}
  /\ ~connected \/ inbound[d].pc = "refused"
  /\ DialIs(d, "failed")
  /\ UNCHANGED <<accept, inbound, pending, connected>>

-----------------------------------------------------------------------------
(* handle_inbound_stream, one task per stream.  A task whose connection is   *)
(* lost while it reads returns; its writes are best effort.                  *)

\* Seeded fault: a stream nobody waits for is kept.
RouteKeeps(d) ==
  LET a == pending[dial[d].id] IN
  /\ inbound[d].pc = "reads" /\ connected /\ a # None
  /\ inbound' = [inbound EXCEPT ![d] = [pc |-> "routed", to |-> a]]
  /\ pending' = [pending EXCEPT ![dial[d].id] = None]
  /\ UNCHANGED <<accept, dial, connected>>

\* The id is read and its accept taken from the table; without one the stream
\* is dropped.
Route(d) ==
  LET a == pending[dial[d].id] IN
  /\ inbound[d].pc = "reads" /\ connected
  /\ inbound' = [inbound EXCEPT ![d] = IF a = None THEN [pc |-> "refused", to |-> None]
                                                   ELSE [pc |-> "routed", to |-> a]]
  /\ pending' = [pending EXCEPT ![dial[d].id] = None]
  /\ UNCHANGED <<accept, dial, connected>>

Ack(d) ==
  /\ inbound[d].pc = "routed"
  /\ InboundIs(d, "acked")
  /\ UNCHANGED <<accept, dial, pending, connected>>

\* Seeded fault: the stream goes to whoever is registered under the id by now.
GiveLatest(d) ==
  LET a == pending[dial[d].id] IN
  /\ inbound[d].pc = "acked" /\ a # None
  /\ inbound' = [inbound EXCEPT ![d].pc = "given"]
  /\ accept' = [accept EXCEPT ![a] = [@ EXCEPT !.pc = "connected", !.stream = d]]
  /\ UNCHANGED <<dial, pending, connected>>

\* The accept gets the stream, unless it has stopped waiting: the stream is
\* dropped then, although its dial has the acknowledgement.
Give(d) ==
  LET a == inbound[d].to IN
  /\ inbound[d].pc = "acked"
  /\ IF accept[a].pc = "waits"
       THEN /\ accept' = [accept EXCEPT ![a] = [@ EXCEPT !.pc = "connected", !.stream = d]]
            /\ InboundIs(d, "given")
       ELSE UNCHANGED accept /\ InboundIs(d, "lost")
  /\ UNCHANGED <<dial, pending, connected>>

Disconnect ==
  /\ connected /\ connected' = FALSE
  /\ UNCHANGED <<accept, dial, inbound, pending>>

-----------------------------------------------------------------------------
DialGoesOn(d) == DialWrites(d) \/ DialAcked(d) \/ DialRefused(d)

InboundGoesOn(d) == Route(d) \/ Ack(d) \/ Give(d)

MuxNext ==
  \/ \E a \in Accepts : AcceptTimesOut(a) \/ \E i \in Ids : Accept(a, i)
  \/ \E d \in Dials : DialGoesOn(d) \/ InboundGoesOn(d) \/ \E i \in Ids : DialOpens(d, i)
  \/ Close \/ Disconnect

MuxSpec == MuxInit /\ [][MuxNext]_muxVars

-----------------------------------------------------------------------------
(* Properties *)

MuxTypeOK ==
  /\ accept \in [Accepts -> [pc : {"idle", "waits", "connected", "failed"},
                             id : Ids \cup {0}, stream : Dials \cup {None}]]
  /\ dial \in [Dials -> [pc : {"idle", "opened", "asks", "connected", "failed"},
                         id : Ids \cup {0}]]
  /\ inbound \in [Dials -> [pc : {"none", "reads", "refused", "routed", "acked", "given", "lost"},
                            to : Accepts \cup {None}]]
  /\ pending \in [Ids -> Accepts \cup {None}] /\ connected \in BOOLEAN

\* A stream ends up with one accept, of the id its dial wrote, and only after
\* the acknowledgement: while the task is between routing and handing over, the
\* accept may time out and another register under the same id.
StreamsAreMatched ==
  \A d \in Dials : \A a \in Accepts : accept[a].stream = d =>
    /\ accept[a].id = dial[d].id
    /\ inbound[d] = [pc |-> "given", to |-> a]
    /\ \A b \in Accepts : accept[b].stream = d => b = a

\* dial has no time limit, and returns all the same: the task at the other end
\* answers or drops the stream.
DialsReturn ==
  \A d \in Dials : dial[d].pc # "idle" ~> dial[d].pc \in {"connected", "failed"}
==============================================================================
