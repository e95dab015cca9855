------------------------------- MODULE RpcCalls -------------------------------
(***************************************************************************)
(* Calls over the control stream of a net/rpc plugin (crates/go-plugin,    *)
(* rpc_client.rs, rpc_server.rs, rpc_codec.rs).  A message is its length   *)
(* and then its body; a call numbers its request, takes the mutex of the   *)
(* stream, writes, reads one message and checks the number.  Its caller    *)
(* may drop it at any await, and what it has written or not yet read then  *)
(* stays on the stream for the next call.                                  *)
(*                                                                         *)
(* A body is its sequence number and, in an answer, a result, 0 for an     *)
(* error.  RPCServer encodes its results twice, handle_request once and    *)
(* encode_response again; a peer in Go, for which the wire format is made, *)
(* does it once.  Both are modelled.                                       *)
(* A message read from the middle of another one is garbage: it is too     *)
(* long, or it does not decode, or its rest never comes.                   *)
(***************************************************************************)
EXTENDS Naturals, Sequences, FiniteSets

CONSTANTS Calls,   \* the calls that may be made, each once
          Plugins  \* the names the server can dispense

ASSUME RpcCallsAssumption ==
  Plugins \cap {"Control.Ping", "Control.Quit", "unknown"} = {} /\ "free" \notin Calls

VARIABLES call,      \* per call: where it is, its number, its method, its result
          nextSeq,   \* RPCClient.seq
          lock,      \* the mutex of control_stream: "free", or the call that holds it
          requests,  \* bytes on the way to the server
          replies,   \* bytes on the way to the client
          twice,     \* the server encodes its results twice
          server,    \* serve_conn: "serves", or "ended" with its stream dropped
          nextId,    \* the broker's next stream id
          executed   \* history: the numbers of the requests handled, in order

vars == <<call, nextSeq, lock, requests, replies, twice, server, nextId, executed>>

serverVars == <<twice, server, nextId, executed>>

\* A method of the control service, or the name of a plugin to dispense.
Methods == {"Control.Ping", "Control.Quit", "unknown"} \cup Plugins

Length == [part |-> "length", seq |-> 0, result |-> 0]
Body(n, result) == [part |-> "body", seq |-> n, result |-> result]

Init ==
  /\ call = [c \in Calls |-> [pc |-> "idle", seq |-> 0, method |-> "Control.Ping", result |-> 0]]
  /\ nextSeq = 1 /\ lock = "free"
  /\ requests = <<>> /\ replies = <<>>
  /\ server = "serves" /\ nextId = 1
  /\ executed = <<>> /\ twice \in BOOLEAN

-----------------------------------------------------------------------------
(* RPCClient::call *)

Goes(c, from, to) == call[c].pc = from /\ call' = [call EXCEPT ![c].pc = to]

CallStarts(c) ==
  /\ call[c].pc = "idle"
  /\ \E m \in Methods :
       call' = [call EXCEPT ![c] = [@ EXCEPT !.pc = "locks", !.seq = nextSeq, !.method = m]]
  /\ nextSeq' = nextSeq + 1
  /\ UNCHANGED <<lock, requests, replies, serverVars>>

CallLocks(c) ==
  /\ lock = "free" /\ lock' = c
  /\ Goes(c, "locks", "writes")
  /\ UNCHANGED <<nextSeq, requests, replies, serverVars>>

WriteLength(c) ==
  /\ server = "serves" /\ Goes(c, "writes", "writesBody")
  /\ requests' = Append(requests, Length)
  /\ UNCHANGED <<nextSeq, lock, replies, serverVars>>

WriteBody(c) ==
  /\ server = "serves" /\ Goes(c, "writesBody", "reads")
  /\ requests' = Append(requests, Body(call[c].seq, 0))
  /\ UNCHANGED <<nextSeq, lock, replies, serverVars>>

ReadLength(c) ==
  /\ replies # <<>> /\ Head(replies).part = "length"
  /\ Goes(c, "reads", "readsBody")
  /\ replies' = Tail(replies)
  /\ UNCHANGED <<nextSeq, lock, requests, serverVars>>

Fails(c) == lock' = "free" /\ call' = [call EXCEPT ![c].pc = "failed"]

\* Seeded fault: the sequence number of the answer is not compared.
AnyAnswer(c, reply) == TRUE

OwnAnswer(c, reply) == reply.seq = call[c].seq

\* The body is read, the mutex given back, the number compared, and the result
\* decoded unless it is an error the server reports.
ReadBody(c) ==
  LET reply == Head(replies) IN
  /\ call[c].pc = "readsBody" /\ replies # <<>> /\ reply.part = "body"
  /\ replies' = Tail(replies) /\ lock' = "free"
  /\ call' = [call EXCEPT ![c] =
       IF ~OwnAnswer(c, reply) \/ reply.result = 0 THEN [@ EXCEPT !.pc = "failed"]
       ELSE IF twice THEN [@ EXCEPT !.pc = "undecoded"]
       ELSE [@ EXCEPT !.pc = "ok", !.result = reply.result]]
  /\ UNCHANGED <<nextSeq, requests, serverVars>>

\* A call dropped before it had read its answer's body left it on the stream: its
\* bytes are taken for a length, four by each call that comes, till none is left.
ReadGarbage(c) ==
  /\ call[c].pc = "reads" /\ replies # <<>> /\ Head(replies).part = "body"
  /\ Fails(c) /\ replies' \in {replies, Tail(replies)}
  /\ UNCHANGED <<nextSeq, requests, serverVars>>

\* The server has dropped the stream.
StreamGone(c) ==
  /\ server = "ended"
  /\ \/ call[c].pc \in {"writes", "writesBody"}
     \/ call[c].pc \in {"reads", "readsBody"} /\ replies = <<>>
  /\ Fails(c)
  /\ UNCHANGED <<nextSeq, requests, replies, serverVars>>

\* The caller drops the call at an await.
CallDropped(c) ==
  /\ call[c].pc \in {"locks", "writes", "writesBody", "reads", "readsBody"}
  /\ call' = [call EXCEPT ![c].pc = "dropped"]
  /\ lock' = IF lock = c THEN "free" ELSE lock
  /\ UNCHANGED <<nextSeq, requests, replies, serverVars>>

-----------------------------------------------------------------------------
(* RPCServer::serve_conn *)

\* handle_request: the result of a call, 0 for an error, and the broker's ids used.
Handle(method) ==
  IF method \in {"Control.Ping", "Control.Quit"} THEN [result |-> 1, ids |-> 0]
  ELSE IF method \in Plugins THEN [result |-> nextId, ids |-> 1]
  ELSE [result |-> 0, ids |-> 0]

\* The loop ends: the stream is dropped with what was not read.
Stops == server' = "ended" /\ requests' = <<>>

\* A whole message is read, handled and answered.
Serve ==
  LET n == requests[2].seq
      method == call[CHOOSE c \in Calls : call[c].seq = n].method
      answer == Handle(method)
  IN
  /\ server = "serves" /\ Len(requests) >= 2 /\ requests[2].part = "body"
  /\ executed' = Append(executed, n)
  /\ nextId' = nextId + answer.ids
  /\ replies' = replies \o <<Length, Body(n, answer.result)>>
  /\ IF method = "Control.Quit"
       THEN Stops
       ELSE requests' = Tail(Tail(requests)) /\ UNCHANGED server
  /\ UNCHANGED <<call, nextSeq, lock, twice>>

\* The loop ends on anything it cannot read: the connection is lost, read has
\* returned fewer than the four bytes of a length, or a length is followed by the
\* next request, the body having been dropped with its call.
ServerStops ==
  /\ server = "serves"
  /\ Stops
  /\ UNCHANGED <<call, nextSeq, lock, replies, twice, nextId, executed>>

-----------------------------------------------------------------------------
CallGoesOn(c) ==
  \/ CallLocks(c) \/ WriteLength(c) \/ WriteBody(c)
  \/ ReadLength(c) \/ ReadBody(c) \/ ReadGarbage(c) \/ StreamGone(c)

Next ==
  \/ \E c \in Calls : CallStarts(c) \/ CallGoesOn(c) \/ CallDropped(c)
  \/ Serve \/ ServerStops

Spec == Init /\ [][Next]_vars

-----------------------------------------------------------------------------
(* Properties *)

TypeOK ==
  /\ call \in [Calls -> [pc : {"idle", "locks", "writes", "writesBody", "reads", "readsBody",
                              "ok", "failed", "undecoded", "dropped"},
                        seq : Nat, method : Methods, result : Nat]]
  /\ nextSeq \in Nat \ {0} /\ nextId \in Nat \ {0}
  /\ lock \in Calls \cup {"free"}
  /\ server \in {"serves", "ended"} /\ twice \in BOOLEAN

\* The calls seen from outside.
CallBar ==
  [asked |-> {c \in Calls : call[c].pc # "idle"},
   executed |-> [c \in Calls |-> Cardinality({k \in DOMAIN executed : executed[k] = call[c].seq})],
   answered |-> {c \in Calls : call[c].pc = "ok"},
   over |-> {c \in Calls : call[c].pc \in {"failed", "undecoded", "dropped"}}]

CallReturned == INSTANCE CallReturn
  WITH asked <- CallBar.asked, executed <- CallBar.executed,
       answered <- CallBar.answered, over <- CallBar.over

\* Calls dropped at any await leave halves of messages and whole answers on the
\* stream for the calls after them; no call is executed twice for it, and none
\* takes another's answer for its own.
RefinesCallReturn == CallReturned!Spec

\* rpc_server.rs:1 promises a server of Go-compatible calls, and rpc_client.rs:123
\* that dispense returns the broker's stream id: a call that has its own answer,
\* which is no error, can read it.
AnswersAreReadable == \A c \in Calls : call[c].pc # "undecoded"
===============================================================================
