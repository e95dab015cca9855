----------------------------- MODULE NetRpcProofs -----------------------------
(***************************************************************************)
(* A net/rpc connection keeps its calls and its streams apart, for any     *)
(* calls, plugins, accepts, dials and ids.                                 *)
(*                                                                         *)
(* The calls implement CallReturn.  What makes them is where a sequence    *)
(* number may be: on its way to the server or executed, never both nor     *)
(* twice, and in an answer only when it was executed.  A call dropped at   *)
(* an await leaves its number wherever it had got to.                      *)
(*                                                                         *)
(* The streams keep their accepts.  An accept is in the table or has been  *)
(* given to the task of one stream, never both: a later accept of the id   *)
(* cannot reach the task.                                                  *)
(***************************************************************************)
EXTENDS NetRpc, FiniteSetTheorems, TLAPS

Messages == [part : {"length", "body"}, seq : Nat, result : Nat]

\* A call that may have its request on the stream or beyond.
Written(c) == call[c].pc \notin {"idle", "locks", "writes", "writesBody"}

IsBody(message, n) == message.part = "body" /\ message.seq = n

Requested(n) == \E k \in DOMAIN requests : IsBody(requests[k], n)
Executed(n) == \E k \in DOMAIN executed : executed[k] = n
Replied(n) == \E k \in DOMAIN replies : IsBody(replies[k], n)

-----------------------------------------------------------------------------
(* The invariant of the calls *)

StreamTypes ==
  /\ requests \in Seq(Messages) /\ replies \in Seq(Messages) /\ executed \in Seq(Nat)

\* Each call that was made has a number of its own.
NumbersDiffer ==
  /\ \A c \in Calls : IF call[c].pc = "idle" THEN call[c].seq = 0
                                             ELSE call[c].seq \in 1 .. nextSeq - 1
  /\ \A c, d \in Calls : call[c].seq = call[d].seq /\ call[c].pc # "idle" => c = d

\* A number on its way or executed is that of a call that has written it.
NumbersAreWritten ==
  \A n \in Nat : Requested(n) \/ Executed(n) => \E c \in Calls : Written(c) /\ call[c].seq = n

\* It is there once.
OncePerNumber ==
  /\ \A j, k \in DOMAIN requests :
       requests[j].part = "body" /\ requests[k].part = "body" /\ requests[j].seq = requests[k].seq
       => j = k
  /\ \A j, k \in DOMAIN executed : executed[j] = executed[k] => j = k
  /\ \A n \in Nat : ~(Requested(n) /\ Executed(n))

\* Nothing is answered that was not executed.
AnsweredWasExecuted ==
  /\ \A n \in Nat : Replied(n) => Executed(n)
  /\ \A c \in Calls : call[c].pc = "ok" => Executed(call[c].seq)

\* The id i was dispensed to the call of number n: it is in an answer to it, or
\* the call has it.
Dispensed(n, i) ==
  \E c \in Calls :
    /\ call[c].pc # "idle" /\ call[c].seq = n /\ call[c].method \in Plugins
    /\ \/ \E k \in DOMAIN replies : IsBody(replies[k], n) /\ replies[k].result = i
       \/ call[c].pc = "ok" /\ call[c].result = i

\* An id is dispensed to one call, and counted.
IdsAreDispensedOnce ==
  \A i, n \in Nat : Dispensed(n, i) =>
    /\ i < nextId
    /\ \A m \in Nat : Dispensed(m, i) => m = n

CallsInv ==
  /\ TypeOK /\ StreamTypes /\ NumbersDiffer /\ NumbersAreWritten /\ OncePerNumber
  /\ AnsweredWasExecuted /\ IdsAreDispensedOnce

-----------------------------------------------------------------------------
(* The invariant of the streams *)

\* The table leads to accepts of its ids.
PendingAgrees ==
  \A i \in Ids : pending[i] # None =>
    accept[pending[i]].id = i /\ accept[pending[i]].pc # "idle"

\* A stream's task has found an accept of the stream's id, which the table no
\* longer has, nor another task.
TasksAgree ==
  \A d \in Dials :
    /\ dial[d].pc # "idle" => dial[d].id \in Ids
    /\ dial[d].pc \in {"idle", "opened"} => inbound[d].pc = "none"
    /\ inbound[d].to = None <=> inbound[d].pc \in {"none", "reads", "refused"}
    /\ inbound[d].to # None =>
         /\ accept[inbound[d].to].id = dial[d].id /\ accept[inbound[d].to].pc # "idle"
         /\ \A i \in Ids : pending[i] # inbound[d].to
         /\ \A e \in Dials : inbound[e].to = inbound[d].to => e = d

\* An accept that has a stream was found by its task.
StreamsWereGiven ==
  \A a \in Accepts : \A d \in Dials :
    accept[a].stream = d => inbound[d] = [pc |-> "given", to |-> a]

MuxInv == MuxTypeOK /\ PendingAgrees /\ TasksAgree /\ StreamsWereGiven

IInv == CallsInv /\ MuxInv

-----------------------------------------------------------------------------
(* The steps of the streams *)

\* Before the first stream nothing is pending, dialled or accepted.
LEMMA MuxInitHolds == MuxInit => MuxInv
<1> SUFFICES ASSUME MuxInit PROVE MuxInv
  OBVIOUS
<1>1. MuxTypeOK
  BY DEF MuxInit, MuxTypeOK
<1>2. PendingAgrees
  BY DEF MuxInit, PendingAgrees
<1>3. TasksAgree
  BY DEF MuxInit, TasksAgree
<1>4. StreamsWereGiven
  BY MuxBrokerAssumption DEF MuxInit, StreamsWereGiven
<1> QED BY <1>1, <1>2, <1>3, <1>4 DEF MuxInv

\* Accepts that keep their id and their stream, and a table that only forgets,
\* keep the invariant.
LEMMA ForgettingKeeps ==
  ASSUME MuxInv, MuxTypeOK', UNCHANGED <<dial, inbound>>,
         \A a \in Accepts : /\ accept'[a].id = accept[a].id
                            /\ accept'[a].stream = accept[a].stream
                            /\ accept[a].pc # "idle" => accept'[a].pc # "idle",
         \A i \in Ids : pending'[i] \in {pending[i], None}
  PROVE  MuxInv'
<1>1. PendingAgrees'
  BY DEF MuxInv, MuxTypeOK, PendingAgrees
<1>2. TasksAgree'
  <2>1. \A d \in Dials : inbound[d].to \in Accepts \cup {None}
    BY DEF MuxInv, MuxTypeOK
  <2> QED BY <2>1 DEF MuxInv, TasksAgree
<1>3. StreamsWereGiven'
  BY DEF MuxInv, StreamsWereGiven
<1> QED BY <1>1, <1>2, <1>3 DEF MuxInv

\* An accept enters itself in the table under its id, and cancels the accept it
\* finds there.
LEMMA AcceptKeeps ==
  ASSUME MuxInv, NEW a \in Accepts, NEW i \in Ids, Accept(a, i)
  PROVE  MuxInv'
<1>1. /\ accept[a].pc = "idle"
      /\ pending' = [pending EXCEPT ![i] = a]
      /\ pending \in [Ids -> Accepts \cup {None}]
      /\ UNCHANGED <<dial, inbound, connected>>
  BY DEF Accept, MuxInv, MuxTypeOK
<1>2. /\ accept'[a] = [pc |-> "waits", id |-> i, stream |-> None]
      /\ \A b \in Accepts : b # a => /\ accept'[b].id = accept[b].id
                                     /\ accept'[b].stream = accept[b].stream
                                     /\ accept[b].pc # "idle" => accept'[b].pc # "idle"
  BY DEF Accept, Cancelled, MuxInv, MuxTypeOK
<1>3. MuxTypeOK'
  <2>1. accept' \in [Accepts -> [pc : {"idle", "waits", "connected", "failed"},
                                 id : Ids \cup {0}, stream : Dials \cup {None}]]
    BY SMTT(20) DEF Accept, Cancelled, MuxInv, MuxTypeOK
  <2> QED BY <1>1, <2>1 DEF MuxInv, MuxTypeOK
<1>4. PendingAgrees'
  BY <1>1, <1>2 DEF MuxInv, MuxTypeOK, PendingAgrees
<1>5. TasksAgree'
  <2>1. \A d \in Dials : inbound[d].to \in Accepts \cup {None} /\ inbound[d].to # a
    BY <1>1, MuxBrokerAssumption DEF MuxInv, MuxTypeOK, TasksAgree
  <2> QED BY <1>1, <1>2, <2>1 DEF MuxInv, TasksAgree
<1>6. StreamsWereGiven'
  BY <1>1, <1>2, MuxBrokerAssumption DEF MuxInv, StreamsWereGiven
<1> QED BY <1>3, <1>4, <1>5, <1>6 DEF MuxInv

\* An Accept that waited five seconds returns without a stream.
LEMMA AcceptTimesOutKeeps ==
  ASSUME MuxInv, NEW a \in Accepts, AcceptTimesOut(a)
  PROVE  MuxInv'
<1>1. MuxTypeOK'
  BY DEF AcceptTimesOut, MuxInv, MuxTypeOK
<1>2. \A b \in Accepts : /\ accept'[b].id = accept[b].id
                         /\ accept'[b].stream = accept[b].stream
                         /\ accept[b].pc # "idle" => accept'[b].pc # "idle"
  BY DEF AcceptTimesOut, MuxInv, MuxTypeOK
<1> QED BY <1>1, <1>2, ForgettingKeeps DEF AcceptTimesOut

\* Closing the broker empties the table and leaves the streams that were given.
LEMMA CloseKeeps ==
  ASSUME MuxInv, Close
  PROVE  MuxInv'
<1>1. MuxTypeOK'
  BY DEF Close, Cancelled, MuxInv, MuxTypeOK
<1>2. \A b \in Accepts : /\ accept'[b].id = accept[b].id
                         /\ accept'[b].stream = accept[b].stream
                         /\ accept[b].pc # "idle" => accept'[b].pc # "idle"
  BY DEF Close, Cancelled, MuxInv, MuxTypeOK
<1> QED BY <1>1, <1>2, ForgettingKeeps DEF Close

\* A dial that goes on, and a task that goes on without the table.
LEMMA DialOpensKeeps ==
  ASSUME MuxInv, NEW d \in Dials, NEW i \in Ids, DialOpens(d, i)
  PROVE  MuxInv'
<1>1. /\ dial[d].pc = "idle" /\ inbound[d].pc = "none" /\ inbound[d].to = None
      /\ UNCHANGED <<accept, inbound, pending, connected>>
  BY DEF DialOpens, MuxInv, TasksAgree
<1>2. PICK pc \in {"opened", "failed"} : dial' = [dial EXCEPT ![d] = [pc |-> pc, id |-> i]]
  BY DEF DialOpens
<1>3. MuxTypeOK'
  BY <1>1, <1>2 DEF MuxInv, MuxTypeOK
<1>4. TasksAgree'
  BY <1>1, <1>2 DEF MuxInv, MuxTypeOK, TasksAgree
<1> QED BY <1>1, <1>3, <1>4 DEF MuxInv, PendingAgrees, StreamsWereGiven

\* A dial that has its stream writes the id and reads it back, or fails; none of
\* this touches the table.
LEMMA DialGoesOnKeeps ==
  ASSUME MuxInv, NEW d \in Dials, DialGoesOn(d)
  PROVE  MuxInv'
<1>1. UNCHANGED <<accept, pending, connected>>
  BY DEF DialGoesOn, DialWrites, DialAcked, DialRefused
<1>2. CASE DialWrites(d)
  <2>1. /\ dial[d].pc = "opened" /\ inbound[d].pc = "none" /\ inbound[d].to = None
        /\ dial' = [dial EXCEPT ![d].pc = "asks"]
        /\ inbound' = [inbound EXCEPT ![d].pc = "reads"]
    BY <1>2 DEF DialWrites, DialIs, InboundIs, MuxInv, TasksAgree
  <2>2. MuxTypeOK'
    BY <1>1, <2>1 DEF MuxInv, MuxTypeOK
  <2>3. TasksAgree'
    BY <1>1, <2>1 DEF MuxInv, MuxTypeOK, TasksAgree
  <2>4. StreamsWereGiven'
    BY <1>1, <2>1 DEF MuxInv, MuxTypeOK, StreamsWereGiven
  <2> QED BY <1>1, <2>2, <2>3, <2>4 DEF MuxInv, PendingAgrees
<1>3. CASE DialAcked(d) \/ DialRefused(d)
  <2>1. dial[d].pc \in {"opened", "asks"} /\ UNCHANGED inbound
    BY <1>3 DEF DialAcked, DialRefused
  <2>2. PICK pc \in {"connected", "failed"} : dial' = [dial EXCEPT ![d].pc = pc]
    BY <1>3 DEF DialAcked, DialRefused, DialIs
  <2>3. MuxTypeOK'
    BY <1>1, <2>1, <2>2 DEF MuxInv, MuxTypeOK
  <2>4. TasksAgree'
    BY <1>1, <2>1, <2>2 DEF MuxInv, MuxTypeOK, TasksAgree
  <2> QED BY <1>1, <2>1, <2>3, <2>4 DEF MuxInv, PendingAgrees, StreamsWereGiven
<1> QED BY <1>2, <1>3 DEF DialGoesOn

\* The task of a stream reads the id and takes the entry out of the table: from
\* here on the accept is the task's alone.
LEMMA RoutingKeeps ==
  ASSUME MuxInv, NEW d \in Dials, Route(d)
  PROVE  MuxInv'
<1> DEFINE i == dial[d].id
           a == pending[i]
<1>1. /\ inbound[d].pc = "reads" /\ inbound[d].to = None
      /\ dial[d].pc \notin {"idle", "opened"} /\ i \in Ids
      /\ a \in Accepts \cup {None}
      /\ UNCHANGED <<accept, dial, connected>>
  BY DEF Route, MuxInv, MuxTypeOK, TasksAgree
<1>2. /\ inbound' = [inbound EXCEPT ![d] = IF a = None THEN [pc |-> "refused", to |-> None]
                                                      ELSE [pc |-> "routed", to |-> a]]
      /\ pending' = [pending EXCEPT ![i] = None]
  BY DEF Route
<1>3. MuxTypeOK'
  BY <1>1, <1>2 DEF MuxInv, MuxTypeOK
<1>4. PendingAgrees'
  BY <1>1, <1>2 DEF MuxInv, MuxTypeOK, PendingAgrees
<1>5. TasksAgree'
  <2>1. a # None => /\ accept[a].id = i /\ accept[a].pc # "idle"
                    /\ \A e \in Dials : inbound[e].to # a
                    /\ \A j \in Ids : pending'[j] # a
    BY <1>1, <1>2 DEF MuxInv, MuxTypeOK, PendingAgrees, TasksAgree
  <2> QED BY <1>1, <1>2, <2>1 DEF MuxInv, MuxTypeOK, TasksAgree
<1>6. StreamsWereGiven'
  BY <1>1, <1>2 DEF MuxInv, MuxTypeOK, StreamsWereGiven
<1> QED BY <1>3, <1>4, <1>5, <1>6 DEF MuxInv

\* The task writes the id back, and hands the stream to the accept it took, or
\* drops it: the steps on which a stream could reach the wrong accept.
LEMMA HandOverKeeps ==
  ASSUME MuxInv, NEW d \in Dials, Ack(d) \/ Give(d)
  PROVE  MuxInv'
<1>1. /\ inbound[d].pc \in {"routed", "acked"} /\ inbound[d].to \in Accepts
      /\ UNCHANGED <<dial, pending, connected>>
  BY MuxBrokerAssumption DEF Ack, Give, MuxInv, MuxTypeOK, TasksAgree
<1>2. PICK a \in Accepts : a = inbound[d].to
  BY <1>1
<1>3. PICK pc \in {"acked", "given", "lost"} : inbound' = [inbound EXCEPT ![d].pc = pc]
  BY DEF Ack, Give, InboundIs
<1> DEFINE taken == [accept[a] EXCEPT !.pc = "connected", !.stream = d]
<1>4. \/ UNCHANGED accept
      \/ /\ accept' = [accept EXCEPT ![a] = taken]
         /\ inbound' = [inbound EXCEPT ![d].pc = "given"]
  <2>1. CASE Ack(d)
    BY <2>1 DEF Ack
  <2>2. CASE Give(d)
    BY <1>2, <2>2 DEF Give, InboundIs
  <2> QED BY <2>1, <2>2
<1>5. accept \in [Accepts -> [pc : {"idle", "waits", "connected", "failed"},
                              id : Ids \cup {0}, stream : Dials \cup {None}]]
  BY DEF MuxInv, MuxTypeOK
<1>6. /\ taken \in [pc : {"idle", "waits", "connected", "failed"},
                    id : Ids \cup {0}, stream : Dials \cup {None}]
      /\ taken.id = accept[a].id /\ taken.stream = d /\ taken.pc = "connected"
  BY <1>5
<1> HIDE DEF taken
<1>7. MuxTypeOK'
  BY SMTT(20), <1>1, <1>3, <1>4, <1>5, <1>6 DEF MuxInv, MuxTypeOK
<1>8. \A b \in Accepts : /\ accept'[b].id = accept[b].id
                         /\ accept[b].pc # "idle" => accept'[b].pc # "idle"
  BY <1>4, <1>5, <1>6
<1>9. PendingAgrees'
  BY <1>1, <1>8 DEF MuxInv, MuxTypeOK, PendingAgrees
<1>10. TasksAgree'
  <2>1. \A e \in Dials : /\ inbound'[e].to = inbound[e].to
                         /\ inbound[e].to \in Accepts \cup {None}
                         /\ e # d => inbound'[e].pc = inbound[e].pc
    BY <1>3 DEF MuxInv, MuxTypeOK
  <2>2. inbound'[d].pc = pc
    BY <1>3 DEF MuxInv, MuxTypeOK
  <2>3. dial[d].pc \notin {"idle", "opened"} /\ inbound[d].to # None
    BY <1>1 DEF MuxInv, TasksAgree
  <2> QED BY <1>1, <1>8, <2>1, <2>2, <2>3 DEF MuxInv, TasksAgree
<1>11. StreamsWereGiven'
  BY <1>1, <1>2, <1>3, <1>4, <1>5, <1>6 DEF MuxInv, MuxTypeOK, StreamsWereGiven
<1> QED BY <1>7, <1>9, <1>10, <1>11 DEF MuxInv

\* What a connection does to its streams keeps their invariant.
LEMMA MuxStepKeeps ==
  ASSUME MuxInv, [NetNext]_netVars
  PROVE  MuxInv'
<1>1. CASE UNCHANGED muxVars
  BY <1>1 DEF muxVars, MuxInv, MuxTypeOK, PendingAgrees, TasksAgree, StreamsWereGiven
<1>2. CASE Disconnect
  <2>1. MuxTypeOK'
    BY <1>2 DEF Disconnect, MuxInv, MuxTypeOK
  <2> QED BY <1>2, <2>1, ForgettingKeeps DEF Disconnect
<1>3. CASE StreamStep
  <2>1. HandedOut \subseteq Ids /\ Received \subseteq Ids
    BY DEF HandedOut, Received
  <2> QED BY <1>3, <2>1, AcceptKeeps, AcceptTimesOutKeeps, CloseKeeps, DialOpensKeeps,
             DialGoesOnKeeps, RoutingKeeps, HandOverKeeps DEF StreamStep, InboundGoesOn
<1> QED BY <1>1, <1>2, <1>3 DEF NetNext, NetDisconnect, netVars

-----------------------------------------------------------------------------
(* The steps of the calls *)

\* What is read from the front of a stream was on it, and what is left still is.
LEMMA TailFacts ==
  ASSUME NEW S, NEW q \in Seq(S), q # <<>>
  PROVE  /\ Head(q) \in S /\ Head(q) = q[1] /\ 1 \in DOMAIN q
         /\ Tail(q) \in Seq(S) /\ Len(Tail(q)) = Len(q) - 1
         /\ \A k \in DOMAIN Tail(q) : k + 1 \in DOMAIN q /\ Tail(q)[k] = q[k + 1]
OBVIOUS

\* What writing one message to a stream comes to.
LEMMA AppendFacts ==
  ASSUME NEW S, NEW q \in Seq(S), NEW m \in S
  PROVE  /\ Append(q, m) \in Seq(S)
         /\ DOMAIN Append(q, m) = DOMAIN q \cup {Len(q) + 1}
         /\ Len(q) + 1 \notin DOMAIN q
         /\ Append(q, m)[Len(q) + 1] = m
         /\ \A k \in DOMAIN q : Append(q, m)[k] = q[k]
OBVIOUS

\* What writing a length and a body to a stream comes to.
LEMMA PairFacts ==
  ASSUME NEW S, NEW q \in Seq(S), NEW a \in S, NEW b \in S
  PROVE  /\ q \o <<a, b>> \in Seq(S)
         /\ \A k \in DOMAIN (q \o <<a, b>>) :
              \/ k \in DOMAIN q /\ (q \o <<a, b>>)[k] = q[k]
              \/ (q \o <<a, b>>)[k] = a
              \/ (q \o <<a, b>>)[k] = b
<1>1. q \o <<a, b>> = Append(Append(q, a), b)
  OBVIOUS
<1> QED BY <1>1

\* Before the first call nothing is on the wire and no number is in use.
LEMMA CallsInitHolds == Init => CallsInv
<1> SUFFICES ASSUME Init PROVE CallsInv
  OBVIOUS
<1>1. TypeOK
  BY DEF Init, TypeOK, Methods
<1>2. requests = <<>> /\ replies = <<>> /\ executed = <<>>
  BY DEF Init
<1>3. \A n \in Nat : ~Requested(n) /\ ~Executed(n) /\ ~Replied(n)
  BY <1>2 DEF Requested, Executed, Replied
<1>4. NumbersDiffer
  BY DEF Init, NumbersDiffer
<1>5. NumbersAreWritten
  BY <1>3 DEF NumbersAreWritten
<1>6. OncePerNumber
  BY <1>2, <1>3 DEF OncePerNumber
<1>7. AnsweredWasExecuted
  BY <1>3 DEF Init, AnsweredWasExecuted
<1>8. IdsAreDispensedOnce
  BY DEF Init, IdsAreDispensedOnce, Dispensed
<1> QED BY <1>1, <1>2, <1>4, <1>5, <1>6, <1>7, <1>8 DEF CallsInv, StreamTypes

\* A call that was made goes on and puts no body on a stream.
Moves(c, new) ==
  /\ call' = [call EXCEPT ![c] = new]
  /\ call[c].pc \in {"locks", "writes", "writesBody", "reads", "readsBody"}
  /\ new.pc # "idle" /\ new.seq = call[c].seq /\ new.method = call[c].method
  /\ Written(c) => new.pc \notin {"locks", "writes", "writesBody"}
  /\ new.pc = "ok" => Executed(new.seq)
  /\ new.pc = "ok" /\ new.method \in Plugins => Dispensed(new.seq, new.result)
  /\ UNCHANGED <<nextSeq, nextId, executed>>
  /\ requests' = requests \/ requests' = Append(requests, Length)
  /\ replies' = replies \/ (replies # <<>> /\ replies' = Tail(replies))

\* Such a step keeps the invariant: the numbers and what was executed are as they
\* were.
LEMMA MovingKeeps ==
  ASSUME CallsInv, TypeOK', NEW c \in Calls, NEW new, Moves(c, new)
  PROVE  CallsInv'
<1> USE DEF Moves
<1>1. /\ requests' \in Seq(Messages)
      /\ \A k \in DOMAIN requests' : requests'[k].part = "body" =>
           k \in DOMAIN requests /\ requests'[k] = requests[k]
  <2>1. Length \in Messages /\ Length.part = "length" /\ requests \in Seq(Messages)
    BY DEF Length, Messages, CallsInv, StreamTypes
  <2> QED BY <2>1, AppendFacts
<1>2. /\ replies' \in Seq(Messages)
      /\ \A k \in DOMAIN replies' : \E j \in DOMAIN replies : replies'[k] = replies[j]
  <2>1. replies \in Seq(Messages)
    BY DEF CallsInv, StreamTypes
  <2> QED BY <2>1, TailFacts
<1>3. /\ \A d \in Calls : d # c => call'[d] = call[d]
      /\ call'[c] = new
  BY DEF CallsInv, TypeOK
<1>4. /\ \A n \in Nat : Requested(n)' => Requested(n)
      /\ \A n \in Nat : Executed(n)' <=> Executed(n)
      /\ \A n \in Nat : Replied(n)' => Replied(n)
  BY <1>1, <1>2 DEF Requested, Executed, Replied, IsBody
<1>5. NumbersDiffer'
  BY <1>3 DEF CallsInv, NumbersDiffer
<1>6. NumbersAreWritten'
  BY <1>3, <1>4 DEF CallsInv, NumbersAreWritten, Written
<1>7. OncePerNumber'
  BY <1>1, <1>4 DEF CallsInv, OncePerNumber
<1>8. AnsweredWasExecuted'
  BY <1>3, <1>4 DEF CallsInv, AnsweredWasExecuted, Executed
<1>9. StreamTypes'
  BY <1>1, <1>2 DEF CallsInv, StreamTypes
<1>10. IdsAreDispensedOnce'
  <2>1. \A i, n \in Nat : Dispensed(n, i)' => Dispensed(n, i)
    <3> SUFFICES ASSUME NEW i \in Nat, NEW n \in Nat, Dispensed(n, i)' PROVE Dispensed(n, i)
      OBVIOUS
    <3>1. PICK d \in Calls :
            /\ call'[d].pc # "idle" /\ call'[d].seq = n /\ call'[d].method \in Plugins
            /\ \/ \E k \in DOMAIN replies' : IsBody(replies'[k], n) /\ replies'[k].result = i
               \/ call'[d].pc = "ok" /\ call'[d].result = i
      BY DEF Dispensed, IsBody
    <3>2. call[d].pc # "idle" /\ call[d].seq = n /\ call[d].method \in Plugins
      BY <1>3, <3>1
    <3>3. CASE \E k \in DOMAIN replies' : IsBody(replies'[k], n) /\ replies'[k].result = i
      BY <1>2, <3>2, <3>3 DEF Dispensed
    <3>4. CASE call'[d].pc = "ok" /\ call'[d].result = i
      BY <1>3, <3>1, <3>2, <3>4 DEF Dispensed
    <3> QED BY <3>1, <3>3, <3>4
  <2> QED BY <2>1 DEF CallsInv, IdsAreDispensedOnce
<1> QED BY <1>5, <1>6, <1>7, <1>8, <1>9, <1>10 DEF CallsInv

\* A new call takes the next number, which is nowhere yet.
LEMMA CallStartsKeeps ==
  ASSUME CallsInv, NEW c \in Calls, CallStarts(c)
  PROVE  CallsInv'
<1>1. PICK m \in Methods :
        call' = [call EXCEPT ![c] = [@ EXCEPT !.pc = "locks", !.seq = nextSeq, !.method = m]]
  BY DEF CallStarts
<1>2. /\ call[c].pc = "idle" /\ nextSeq' = nextSeq + 1 /\ nextSeq \in Nat \ {0}
      /\ UNCHANGED <<lock, requests, replies, serverVars>>
  BY DEF CallStarts, CallsInv, TypeOK
<1>3. call \in [Calls -> [pc : {"idle", "locks", "writes", "writesBody", "reads", "readsBody",
                               "ok", "failed", "undecoded", "dropped"},
                         seq : Nat, method : Methods, result : Nat]]
  BY DEF CallsInv, TypeOK
<1>4. /\ \A d \in Calls : d # c => call'[d] = call[d]
      /\ call'[c].pc = "locks" /\ call'[c].seq = nextSeq /\ call'[c].method = m
  BY <1>1, <1>3
<1>5. /\ call' \in [Calls -> [pc : {"idle", "locks", "writes", "writesBody", "reads", "readsBody",
                               "ok", "failed", "undecoded", "dropped"},
                         seq : Nat, method : Methods, result : Nat]]
  BY <1>1, <1>2, <1>3
<1>6. TypeOK'
  BY <1>2, <1>5 DEF CallsInv, TypeOK, serverVars
<1>7. \A n \in Nat : /\ Requested(n)' <=> Requested(n)
                     /\ Executed(n)' <=> Executed(n)
                     /\ Replied(n)' <=> Replied(n)
  BY <1>2 DEF Requested, Executed, Replied, serverVars
<1>8. NumbersDiffer'
  BY <1>2, <1>3, <1>4 DEF CallsInv, NumbersDiffer
<1>9. NumbersAreWritten'
  BY <1>2, <1>4, <1>7 DEF CallsInv, NumbersAreWritten, Written
<1>10. OncePerNumber'
  BY <1>2, <1>7 DEF CallsInv, OncePerNumber, serverVars
<1>11. AnsweredWasExecuted'
  BY <1>2, <1>4, <1>7 DEF CallsInv, AnsweredWasExecuted, Executed, serverVars
<1>12. ~Replied(nextSeq)
  <2>1. Executed(nextSeq) => \E d \in Calls : Written(d) /\ call[d].seq = nextSeq
    BY <1>2 DEF CallsInv, NumbersAreWritten
  <2>2. \A d \in Calls : call[d].seq # nextSeq
    BY <1>2 DEF CallsInv, NumbersDiffer
  <2> QED BY <1>2, <2>1, <2>2 DEF CallsInv, AnsweredWasExecuted
<1>13. IdsAreDispensedOnce'
  <2>1. \A i, n \in Nat : Dispensed(n, i)' => Dispensed(n, i)
    BY <1>2, <1>4, <1>12 DEF Dispensed, Replied, IsBody
  <2> QED BY <1>2, <2>1 DEF CallsInv, IdsAreDispensedOnce, serverVars
<1> QED BY <1>2, <1>6, <1>8, <1>9, <1>10, <1>11, <1>13 DEF CallsInv, StreamTypes, serverVars

\* The body that is written carries a number that was on no stream before.
LEMMA WriteBodyKeeps ==
  ASSUME CallsInv, NEW c \in Calls, WriteBody(c)
  PROVE  CallsInv'
<1> DEFINE n == call[c].seq
           body == Body(n, 0)
<1>1. call \in [Calls -> [pc : {"idle", "locks", "writes", "writesBody", "reads", "readsBody",
                               "ok", "failed", "undecoded", "dropped"},
                         seq : Nat, method : Methods, result : Nat]]
  BY DEF CallsInv, TypeOK
<1>2. /\ call[c].pc = "writesBody" /\ call' = [call EXCEPT ![c].pc = "reads"]
      /\ requests' = Append(requests, body)
      /\ UNCHANGED <<nextSeq, lock, replies, serverVars>>
  BY DEF WriteBody, Goes
<1>3. body \in Messages /\ body.part = "body" /\ body.seq = n /\ n \in Nat
  BY <1>1 DEF Body, Messages
<1>4. /\ \A d \in Calls : d # c => call'[d] = call[d]
      /\ call'[c] = [call[c] EXCEPT !.pc = "reads"]
  BY <1>1, <1>2
<1>5. /\ requests' \in Seq(Messages)
      /\ DOMAIN requests' = DOMAIN requests \cup {Len(requests) + 1}
      /\ Len(requests) + 1 \notin DOMAIN requests
      /\ requests'[Len(requests) + 1] = body
      /\ \A k \in DOMAIN requests : requests'[k] = requests[k]
  BY <1>2, <1>3, AppendFacts DEF CallsInv, StreamTypes
<1> HIDE DEF body
<1>6. ~Requested(n) /\ ~Executed(n)
  BY <1>1, <1>2, <1>3 DEF CallsInv, NumbersAreWritten, NumbersDiffer, Written
<1>7. /\ \A m \in Nat : Requested(m)' <=> (Requested(m) \/ m = n)
      /\ \A m \in Nat : Executed(m)' <=> Executed(m)
      /\ \A m \in Nat : Replied(m)' <=> Replied(m)
  BY <1>2, <1>3, <1>5 DEF Requested, Executed, Replied, IsBody, serverVars
<1>8. TypeOK'
  BY <1>1, <1>2 DEF CallsInv, TypeOK, serverVars
<1>9. NumbersDiffer'
  BY <1>2, <1>4 DEF CallsInv, NumbersDiffer
<1>10. NumbersAreWritten'
  <2> SUFFICES ASSUME NEW m \in Nat, Requested(m)' \/ Executed(m)'
               PROVE  \E d \in Calls : Written(d)' /\ call'[d].seq = m
    BY DEF NumbersAreWritten
  <2>1. CASE m = n
    BY <1>1, <1>4, <2>1 DEF Written
  <2>2. CASE m # n
    BY <1>1, <1>4, <1>7, <2>2 DEF CallsInv, NumbersAreWritten, Written
  <2> QED BY <2>1, <2>2
<1>11. OncePerNumber'
  <2>1. \A k \in DOMAIN requests : ~IsBody(requests[k], n)
    BY <1>6 DEF Requested
  <2>2. \A j, k \in DOMAIN requests' :
          requests'[j].part = "body" /\ requests'[k].part = "body"
            /\ requests'[j].seq = requests'[k].seq => j = k
    BY <1>3, <1>5, <2>1 DEF CallsInv, OncePerNumber, IsBody
  <2> QED BY <1>2, <1>6, <1>7, <2>2 DEF CallsInv, OncePerNumber, serverVars
<1>12. AnsweredWasExecuted'
  BY <1>1, <1>2, <1>4, <1>7 DEF CallsInv, AnsweredWasExecuted, Executed, serverVars
<1>13. IdsAreDispensedOnce'
  <2>1. \A i, m \in Nat : Dispensed(m, i)' => Dispensed(m, i)
    BY <1>1, <1>2, <1>4 DEF Dispensed
  <2> QED BY <1>2, <2>1 DEF CallsInv, IdsAreDispensedOnce, serverVars
<1> QED BY <1>2, <1>5, <1>8, <1>9, <1>10, <1>11, <1>12, <1>13
     DEF CallsInv, StreamTypes, serverVars

\* The server stops: what it has not read is gone.
LEMMA ServerStopsKeeps ==
  ASSUME CallsInv, ServerStops
  PROVE  CallsInv'
<1>1. /\ requests' = <<>> /\ server' = "ended"
      /\ UNCHANGED <<call, nextSeq, lock, replies, twice, nextId, executed>>
  BY DEF ServerStops, Stops
<1>2. /\ \A n \in Nat : ~Requested(n)'
      /\ \A n \in Nat : Executed(n)' <=> Executed(n)
      /\ \A n \in Nat : Replied(n)' <=> Replied(n)
  BY <1>1 DEF Requested, Executed, Replied
<1>3. TypeOK' /\ StreamTypes' /\ NumbersDiffer'
  BY <1>1 DEF CallsInv, TypeOK, StreamTypes, NumbersDiffer
<1>4. NumbersAreWritten' /\ OncePerNumber'
  BY <1>1, <1>2 DEF CallsInv, NumbersAreWritten, OncePerNumber, Written
<1>5. AnsweredWasExecuted'
  BY <1>1, <1>2 DEF CallsInv, AnsweredWasExecuted, Executed
<1>6. IdsAreDispensedOnce'
  <2>1. \A i, n \in Nat : Dispensed(n, i)' <=> Dispensed(n, i)
    BY <1>1 DEF Dispensed
  <2> QED BY <1>1, <2>1 DEF CallsInv, IdsAreDispensedOnce
<1> QED BY <1>3, <1>4, <1>5, <1>6 DEF CallsInv

\* What serving a message comes to: the call it is of had written it and was not
\* executed, its number leaves the requests, and a plugin's answer is a new id.
Serves(c, n, i, added) ==
  /\ Written(c) /\ call[c].seq = n /\ ~Executed(n)
  /\ call[c].method \in Plugins => i = nextId /\ added = 1
  /\ executed' = Append(executed, n)
  /\ replies' = replies \o <<Length, Body(n, i)>>
  /\ nextId' = nextId + added
  /\ requests' \in Seq(Messages)
  /\ \A k \in DOMAIN requests' :
       /\ k + 2 \in DOMAIN requests /\ requests'[k] = requests[k + 2]
       /\ ~IsBody(requests'[k], n)
  /\ server' \in {"serves", "ended"}
  /\ UNCHANGED <<call, nextSeq, lock, twice>>

\* The server's step is of that form: its message is the body of a call that was
\* written once, and was not served before.
LEMMA ServeFacts ==
  ASSUME CallsInv, Serve
  PROVE  \E c \in Calls : \E n, i, added \in Nat : Serves(c, n, i, added)
<1> DEFINE n == requests[2].seq
           method == call[CHOOSE c \in Calls : call[c].seq = n].method
           answer == Handle(method)
<1>1. /\ Len(requests) >= 2 /\ requests[2].part = "body" /\ server = "serves"
      /\ executed' = Append(executed, n)
      /\ nextId' = nextId + answer.ids
      /\ replies' = replies \o <<Length, Body(n, answer.result)>>
      /\ requests' = <<>> \/ requests' = Tail(Tail(requests))
      /\ server' \in {"serves", "ended"}
      /\ UNCHANGED <<call, nextSeq, lock, twice>>
  BY DEF Serve, Stops
<1>2. requests \in Seq(Messages) /\ 2 \in DOMAIN requests /\ requests[2] \in Messages
  <2>1. PICK q : q = requests
    OBVIOUS
  <2>2. q \in Seq(Messages) /\ Len(q) >= 2
    BY <1>1, <2>1 DEF CallsInv, StreamTypes
  <2>3. 2 \in DOMAIN q /\ q[2] \in Messages
    BY <2>2
  <2> QED BY <2>1, <2>2, <2>3
<1>3. n \in Nat /\ IsBody(requests[2], n)
  BY <1>1, <1>2 DEF Messages, IsBody
<1>4. /\ requests' \in Seq(Messages)
      /\ \A k \in DOMAIN requests' : k + 2 \in DOMAIN requests /\ requests'[k] = requests[k + 2]
  <2>1. CASE requests' = <<>>
    BY <2>1
  <2>2. CASE requests' = Tail(Tail(requests))
    <3>1. /\ Tail(requests) \in Seq(Messages) /\ Tail(requests) # <<>>
          /\ \A k \in DOMAIN Tail(requests) :
               k + 1 \in DOMAIN requests /\ Tail(requests)[k] = requests[k + 1]
      BY <1>1, <1>2, TailFacts
    <3> QED BY <2>2, <3>1, TailFacts
  <2> QED BY <1>1, <2>1, <2>2
<1>5. Requested(n)
  BY <1>2, <1>3 DEF Requested
<1>6. PICK c \in Calls : Written(c) /\ call[c].seq = n
  BY <1>3, <1>5 DEF CallsInv, NumbersAreWritten
<1>7. method = call[c].method
  <2>1. \A d \in Calls : call[d].seq = n => d = c
    BY <1>6 DEF CallsInv, NumbersDiffer, Written
  <2> QED BY <1>6, <2>1
<1>8. ~Executed(n)
  BY <1>3, <1>5 DEF CallsInv, OncePerNumber
<1>9. \A k \in DOMAIN requests' : ~IsBody(requests'[k], n)
  BY <1>1, <1>2, <1>4 DEF CallsInv, OncePerNumber, IsBody
<1>10. /\ answer.result \in Nat /\ answer.ids \in Nat
       /\ method \in Plugins => answer.result = nextId /\ answer.ids = 1
  BY RpcCallsAssumption DEF Handle, CallsInv, TypeOK
<1> HIDE DEF n, method, answer
<1>11. Serves(c, n, answer.result, answer.ids)
  BY <1>1, <1>4, <1>6, <1>7, <1>8, <1>9, <1>10 DEF Serves
<1> QED BY <1>3, <1>6, <1>10, <1>11

\* Serving keeps the invariant: the call it serves is the only one with its number.
LEMMA ServeKeeps ==
  ASSUME CallsInv, Serve
  PROVE  CallsInv'
<1>1. PICK c \in Calls : \E n, i, added \in Nat : Serves(c, n, i, added)
  BY ServeFacts
<1>2. PICK n, i, added \in Nat : Serves(c, n, i, added)
  BY <1>1
<1> USE <1>2 DEF Serves
<1>3. /\ requests \in Seq(Messages) /\ replies \in Seq(Messages) /\ executed \in Seq(Nat)
      /\ nextId \in Nat \ {0}
  BY DEF CallsInv, StreamTypes, TypeOK
<1>4. /\ executed' \in Seq(Nat)
      /\ DOMAIN executed' = DOMAIN executed \cup {Len(executed) + 1}
      /\ executed'[Len(executed) + 1] = n
      /\ \A k \in DOMAIN executed : executed'[k] = executed[k]
  <2>1. executed' = Append(executed, n)
    BY DEF Serves
  <2> HIDE <1>2
  <2> QED BY <1>3, <2>1, AppendFacts
<1>5. /\ replies' \in Seq(Messages)
      /\ \A k \in DOMAIN replies' :
           \/ k \in DOMAIN replies /\ replies'[k] = replies[k]
           \/ replies'[k] = Length
           \/ replies'[k] = Body(n, i)
  <2>1. Length \in Messages /\ Body(n, i) \in Messages
    BY DEF Length, Body, Messages
  <2> QED BY <1>2, <1>3, <2>1, PairFacts
<1>6. /\ \A m \in Nat : Requested(m)' => Requested(m) /\ m # n
      /\ \A m \in Nat : Executed(m)' <=> (Executed(m) \/ m = n)
      /\ \A m \in Nat : Replied(m)' => Replied(m) \/ m = n
  <2>1. \A m \in Nat : Requested(m)' => Requested(m) /\ m # n
    BY <1>2 DEF Requested, IsBody
  <2>2. \A m \in Nat : Executed(m)' <=> (Executed(m) \/ m = n)
    BY <1>3, <1>4 DEF Executed
  <2>3. \A m \in Nat : Replied(m)' => Replied(m) \/ m = n
    BY SMTT(20), <1>5 DEF Replied, IsBody, Length, Body
  <2> QED BY <2>1, <2>2, <2>3
<1>7. TypeOK'
  BY <1>2, <1>3 DEF CallsInv, TypeOK
<1>8. StreamTypes' /\ NumbersDiffer'
  BY <1>2, <1>4, <1>5 DEF CallsInv, StreamTypes, NumbersDiffer
<1>9. NumbersAreWritten'
  BY <1>2, <1>6 DEF CallsInv, NumbersAreWritten, Written
<1>10. OncePerNumber'
  <2>1. \A j, k \in DOMAIN requests' :
          requests'[j].part = "body" /\ requests'[k].part = "body"
            /\ requests'[j].seq = requests'[k].seq => j = k
    <3>1. \A j, k \in DOMAIN requests' : j \in Int /\ k \in Int /\ (j + 2 = k + 2 => j = k)
      BY <1>2
    <3> QED BY SMTT(20), <1>2, <3>1 DEF CallsInv, OncePerNumber
  <2>2. \A j, k \in DOMAIN executed' : executed'[j] = executed'[k] => j = k
    BY <1>2, <1>4 DEF CallsInv, OncePerNumber, Executed
  <2>3. \A m \in Nat : ~(Requested(m)' /\ Executed(m)')
    BY <1>6 DEF CallsInv, OncePerNumber
  <2> QED BY <2>1, <2>2, <2>3 DEF OncePerNumber
<1>11. AnsweredWasExecuted'
  <2>1. \A d \in Calls : call[d].seq \in Nat
    BY DEF CallsInv, TypeOK
  <2> QED BY <1>2, <1>6, <2>1 DEF CallsInv, AnsweredWasExecuted
<1>12. IdsAreDispensedOnce'
  <2>1. \A j, m \in Nat : Dispensed(m, j)' => Dispensed(m, j) \/ (m = n /\ j = nextId /\ added = 1)
    <3> SUFFICES ASSUME NEW j \in Nat, NEW m \in Nat, Dispensed(m, j)'
                 PROVE  Dispensed(m, j) \/ (m = n /\ j = nextId /\ added = 1)
      OBVIOUS
    <3>1. PICK d \in Calls :
            /\ call[d].pc # "idle" /\ call[d].seq = m /\ call[d].method \in Plugins
            /\ \/ \E k \in DOMAIN replies' : IsBody(replies'[k], m) /\ replies'[k].result = j
               \/ call[d].pc = "ok" /\ call[d].result = j
      BY <1>2 DEF Dispensed, IsBody
    <3>2. CASE call[d].pc = "ok" /\ call[d].result = j
      BY <3>1, <3>2 DEF Dispensed
    <3>3. ASSUME NEW k \in DOMAIN replies', IsBody(replies'[k], m), replies'[k].result = j
          PROVE  Dispensed(m, j) \/ (m = n /\ j = nextId /\ added = 1)
      <4>1. CASE k \in DOMAIN replies /\ replies'[k] = replies[k]
        BY <3>1, <3>3, <4>1 DEF Dispensed
      <4>2. CASE replies'[k] = Length
        BY SMTT(20), <3>3, <4>2 DEF IsBody, Length
      <4>3. CASE replies'[k] = Body(n, i)
        <5>1. m = n /\ j = i
          BY SMTT(20), <3>3, <4>3 DEF IsBody, Body
        <5>2. d = c
          BY <1>2, <3>1, <5>1 DEF CallsInv, NumbersDiffer
        <5> QED BY <1>2, <3>1, <5>1, <5>2
      <4> QED BY <1>5, <4>1, <4>2, <4>3
    <3> QED BY <3>1, <3>2, <3>3
  <2>2. \A j, m \in Nat : Dispensed(m, j) => j < nextId
    BY DEF CallsInv, IdsAreDispensedOnce
  <2> QED BY SMTT(20), <1>2, <1>3, <2>1, <2>2 DEF CallsInv, IdsAreDispensedOnce
<1> QED BY <1>7, <1>8, <1>9, <1>10, <1>11, <1>12 DEF CallsInv

\* What a call that was made does: it writes its body, or moves.
LEMMA CallStep ==
  ASSUME CallsInv, NEW c \in Calls, CallGoesOn(c) \/ CallDropped(c)
  PROVE  WriteBody(c) \/ (TypeOK' /\ \E new : Moves(c, new))
<1>1. call \in [Calls -> [pc : {"idle", "locks", "writes", "writesBody", "reads", "readsBody",
                               "ok", "failed", "undecoded", "dropped"},
                         seq : Nat, method : Methods, result : Nat]]
  BY DEF CallsInv, TypeOK
<1>2. ASSUME NEW pc \in {"writes", "writesBody", "reads", "readsBody",
                         "ok", "failed", "undecoded", "dropped"},
             NEW result \in Nat,
             call' = [call EXCEPT ![c] = [@ EXCEPT !.pc = pc, !.result = result]],
             call[c].pc \in {"locks", "writes", "writesBody", "reads", "readsBody"},
             Written(c) => pc \notin {"writes", "writesBody"},
             pc = "ok" => Executed(call[c].seq),
             pc = "ok" /\ call[c].method \in Plugins => Dispensed(call[c].seq, result),
             lock' \in {lock, c, "free"},
             UNCHANGED <<nextSeq, serverVars>>,
             requests' = requests \/ requests' = Append(requests, Length),
             replies' = replies \/ (replies # <<>> /\ replies' = Tail(replies))
      PROVE  TypeOK' /\ \E new : Moves(c, new)
  <2> DEFINE new == [call[c] EXCEPT !.pc = pc, !.result = result]
  <2>1. /\ new \in [pc : {"idle", "locks", "writes", "writesBody", "reads", "readsBody",
                          "ok", "failed", "undecoded", "dropped"},
                    seq : Nat, method : Methods, result : Nat]
        /\ new.pc = pc /\ new.seq = call[c].seq /\ new.method = call[c].method
        /\ new.result = result
    <3> DEFINE old == call[c]
    <3>1. old \in [pc : {"idle", "locks", "writes", "writesBody", "reads", "readsBody",
                          "ok", "failed", "undecoded", "dropped"},
                    seq : Nat, method : Methods, result : Nat]
      BY <1>1
    <3> HIDE DEF old
    <3>2. new = [old EXCEPT !.pc = pc, !.result = result]
      BY DEF old
    <3> HIDE DEF new
    <3> QED BY <3>1, <3>2 DEF old
  <2>2. call' = [call EXCEPT ![c] = new]
    BY <1>2
  <2> HIDE DEF new
  <2>3. call' \in [Calls -> [pc : {"idle", "locks", "writes", "writesBody", "reads", "readsBody",
                               "ok", "failed", "undecoded", "dropped"},
                         seq : Nat, method : Methods, result : Nat]]
    BY <1>1, <1>2, <2>1, <2>2
  <2>4. TypeOK'
    BY <1>2, <2>3 DEF CallsInv, TypeOK, serverVars
  <2>5. Moves(c, new)
    BY <1>2, <2>1, <2>2 DEF Moves, serverVars
  <2> QED BY <2>4, <2>5
<1> DEFINE To(pc) == call' = [call EXCEPT ![c] = [@ EXCEPT !.pc = pc, !.result = call[c].result]]
<1>3. ASSUME NEW pc, call' = [call EXCEPT ![c].pc = pc]
      PROVE  To(pc)
  BY <1>1, <1>3
<1>4. call[c].result \in Nat
  BY <1>1
<1> HIDE DEF To
<1>5. CASE CallLocks(c)
  BY <1>2, <1>3, <1>4, <1>5 DEF CallLocks, Goes, To, Written
<1>6. CASE WriteLength(c)
  BY <1>2, <1>3, <1>4, <1>6 DEF WriteLength, Goes, To, Written
<1>7. CASE ReadLength(c)
  BY <1>2, <1>3, <1>4, <1>7 DEF ReadLength, Goes, To
<1>8. CASE ReadGarbage(c)
  BY <1>2, <1>3, <1>4, <1>8 DEF ReadGarbage, Fails, To
<1>9. CASE StreamGone(c)
  BY <1>2, <1>3, <1>4, <1>9 DEF StreamGone, Fails, To
<1>10. CASE CallDropped(c)
  BY <1>2, <1>3, <1>4, <1>10 DEF CallDropped, To
<1>11. CASE ReadBody(c)
  <2> DEFINE reply == Head(replies)
  <2>1. /\ call[c].pc = "readsBody" /\ replies # <<>> /\ reply.part = "body"
        /\ replies' = Tail(replies) /\ lock' = "free"
        /\ UNCHANGED <<nextSeq, requests, serverVars>>
    BY <1>11 DEF ReadBody
  <2>2. 1 \in DOMAIN replies /\ reply = replies[1] /\ reply \in Messages
    BY <2>1, TailFacts DEF CallsInv, StreamTypes
  <2>3. \/ \E pc \in {"failed", "undecoded"} : call' = [call EXCEPT ![c].pc = pc]
        \/ /\ call' = [call EXCEPT ![c] = [@ EXCEPT !.pc = "ok", !.result = reply.result]]
           /\ reply.seq = call[c].seq
    BY <1>11 DEF ReadBody, OwnAnswer
  <2>4. CASE \E pc \in {"failed", "undecoded"} : call' = [call EXCEPT ![c].pc = pc]
    <3>1. PICK pc \in {"failed", "undecoded"} : To(pc)
      BY <1>3, <2>4
    <3> QED BY <1>2, <1>4, <2>1, <3>1 DEF To
  <2>5. CASE /\ call' = [call EXCEPT ![c] = [@ EXCEPT !.pc = "ok", !.result = reply.result]]
             /\ reply.seq = call[c].seq
    <3>1. call[c].seq \in Nat /\ reply.result \in Nat
      BY <1>1, <2>2 DEF Messages
    <3>2. IsBody(replies[1], call[c].seq)
      BY <2>1, <2>2, <2>5 DEF IsBody
    <3>3. Executed(call[c].seq)
      BY <2>2, <3>1, <3>2 DEF CallsInv, AnsweredWasExecuted, Replied
    <3>4. call[c].method \in Plugins => Dispensed(call[c].seq, reply.result)
      BY <2>1, <2>2, <3>2 DEF Dispensed
    <3> QED BY <1>2, <2>1, <2>5, <3>1, <3>3, <3>4
  <2> QED BY <2>3, <2>4, <2>5
<1> QED BY <1>5, <1>6, <1>7, <1>8, <1>9, <1>10, <1>11 DEF CallGoesOn

\* What a connection does to its calls keeps their invariant.
LEMMA CallsStepKeeps ==
  ASSUME CallsInv, [NetNext]_netVars
  PROVE  CallsInv'
<1>1. CASE UNCHANGED vars
  <2>1. UNCHANGED <<call, nextSeq, requests, replies, nextId, executed>> /\ TypeOK'
    BY <1>1 DEF vars, CallsInv, TypeOK
  <2>2. StreamTypes' /\ NumbersDiffer' /\ NumbersAreWritten' /\ OncePerNumber'
    BY <2>1 DEF CallsInv, StreamTypes, NumbersDiffer, NumbersAreWritten, OncePerNumber,
                Requested, Executed, Written
  <2>3. AnsweredWasExecuted' /\ IdsAreDispensedOnce'
    BY <2>1 DEF CallsInv, AnsweredWasExecuted, IdsAreDispensedOnce, Dispensed, Replied, Executed
  <2> QED BY <2>1, <2>2, <2>3 DEF CallsInv
<1>2. ASSUME NEW c \in Calls, CallGoesOn(c) \/ CallDropped(c) PROVE CallsInv'
  BY <1>2, CallStep, WriteBodyKeeps, MovingKeeps
<1> QED BY <1>1, <1>2, CallStartsKeeps, ServeKeeps, ServerStopsKeeps
        DEF NetNext, NetDisconnect, Next, netVars

\* The calls and the streams keep both invariants, whatever is dropped, lost or
\* timed out.
THEOREM Invariance == NetSpec => []IInv
<1>1. NetInit => IInv
  BY CallsInitHolds, MuxInitHolds DEF NetInit, IInv
<1>2. IInv /\ [NetNext]_netVars => IInv'
  BY CallsStepKeeps, MuxStepKeeps DEF IInv
<1> QED BY <1>1, <1>2, PTL DEF NetSpec

-----------------------------------------------------------------------------
(* What it says of the streams and of the ids *)

\* A stream ends up with one accept, of the id its dial wrote, after its task
\* has found that accept, whatever registers, times out or is closed meanwhile.
THEOREM StreamsMatched == NetSpec => []StreamsAreMatched
<1>1. IInv => StreamsAreMatched
  <2> SUFFICES ASSUME IInv, NEW d \in Dials, NEW a \in Accepts, accept[a].stream = d
               PROVE  /\ accept[a].id = dial[d].id
                      /\ inbound[d] = [pc |-> "given", to |-> a]
                      /\ \A b \in Accepts : accept[b].stream = d => b = a
    BY DEF StreamsAreMatched
  <2>1. \A b \in Accepts : accept[b].stream = d => inbound[d] = [pc |-> "given", to |-> b]
    BY DEF IInv, MuxInv, StreamsWereGiven
  <2>2. ASSUME NEW b \in Accepts, accept[b].stream = d
        PROVE  inbound[d].to = b
    <3>1. inbound[d] = [pc |-> "given", to |-> b]
      BY <2>1, <2>2
    <3>2. [pc |-> "given", to |-> b].to = b
      OBVIOUS
    <3> QED BY <3>1, <3>2, Zenon
  <2>3. a # None
    BY MuxBrokerAssumption
  <2>4. accept[a].id = dial[d].id
    BY <2>2, <2>3 DEF IInv, MuxInv, TasksAgree
  <2> QED BY <2>1, <2>2, <2>4
<1> QED BY <1>1, Invariance, PTL

\* No two calls are answered the same stream id, whatever calls were dropped
\* between them and whatever answers they left behind.
THEOREM IdsDispensedOnce == NetSpec => []DispensedOnce
<1>1. IInv => DispensedOnce
  <2> SUFFICES ASSUME IInv, NEW c1 \in Calls, NEW c2 \in Calls,
                      call[c1].pc = "ok", call[c1].method \in Plugins,
                      call[c2].pc = "ok", call[c2].method \in Plugins,
                      call[c1].result = call[c2].result
               PROVE  c1 = c2
    BY DEF DispensedOnce
  <2>1. /\ call[c1].seq \in Nat /\ call[c2].seq \in Nat /\ call[c1].result \in Nat
    BY DEF IInv, CallsInv, TypeOK
  <2>2. Dispensed(call[c1].seq, call[c1].result) /\ Dispensed(call[c2].seq, call[c1].result)
    BY DEF Dispensed
  <2>3. call[c1].seq = call[c2].seq
    BY <2>1, <2>2 DEF IInv, CallsInv, IdsAreDispensedOnce
  <2> QED BY <2>3 DEF IInv, CallsInv, NumbersDiffer
<1> QED BY <1>1, Invariance, PTL

-----------------------------------------------------------------------------
(* The calls implement CallReturn. *)

\* How often a call was executed is once or never.
BarExecuted == [c \in Calls |-> IF Executed(call[c].seq) THEN 1 ELSE 0]

\* The count the refinement mapping takes from the server is that.
LEMMA ExecutedOnce == CallsInv => CallBar.executed = BarExecuted
<1> SUFFICES ASSUME CallsInv, NEW c \in Calls
             PROVE  Cardinality({k \in DOMAIN executed : executed[k] = call[c].seq})
                      = IF Executed(call[c].seq) THEN 1 ELSE 0
  BY DEF CallBar, BarExecuted
<1> DEFINE places == {k \in DOMAIN executed : executed[k] = call[c].seq}
<1>1. CASE Executed(call[c].seq)
  <2>1. PICK k \in DOMAIN executed : executed[k] = call[c].seq
    BY <1>1 DEF Executed
  <2>2. places = {k}
    BY <2>1 DEF CallsInv, OncePerNumber
  <2> QED BY <1>1, <2>2, FS_Singleton
<1>2. CASE ~Executed(call[c].seq)
  <2>1. places = {}
    BY <1>2 DEF Executed
  <2> QED BY <1>2, <2>1, FS_EmptySet
<1> QED BY <1>1, <1>2

\* Every step is one of the abstract call's, or none.
LEMMA StepMaps ==
  ASSUME CallsInv, [Next]_vars,
         CallBar.executed = BarExecuted, CallBar.executed' = BarExecuted'
  PROVE  [CallReturned!Next]_(CallReturned!vars)
<1> DEFINE asked == {c \in Calls : call[c].pc # "idle"}
           answered == {c \in Calls : call[c].pc = "ok"}
           over == {c \in Calls : call[c].pc \in {"failed", "undecoded", "dropped"}}
<1>1. /\ CallBar.asked = asked /\ CallBar.answered = answered /\ CallBar.over = over
      /\ CallBar.asked' = asked' /\ CallBar.answered' = answered' /\ CallBar.over' = over'
  BY DEF CallBar
<1>2. \A c \in Calls : call[c].seq \in Nat /\ (Executed(call[c].seq) => Written(c))
  <2>1. \A c \in Calls : call[c].seq \in Nat
    BY DEF CallsInv, TypeOK
  <2> QED BY <2>1 DEF CallsInv, NumbersAreWritten, NumbersDiffer, Written
<1>3. SUFFICES ASSUME ~UNCHANGED <<asked, BarExecuted, answered, over>>
      PROVE  \E c \in Calls :
        \/ /\ c \notin asked \cup over /\ asked' = asked \cup {c}
           /\ UNCHANGED <<BarExecuted, answered, over>>
        \/ /\ c \in asked /\ BarExecuted[c] = 0 /\ BarExecuted' = [BarExecuted EXCEPT ![c] = 1]
           /\ UNCHANGED <<asked, answered, over>>
        \/ /\ BarExecuted[c] = 1 /\ c \notin answered \cup over /\ answered' = answered \cup {c}
           /\ UNCHANGED <<asked, BarExecuted, over>>
        \/ /\ c \notin answered \cup over /\ over' = over \cup {c}
           /\ UNCHANGED <<asked, BarExecuted, answered>>
  BY <1>1 DEF CallReturned!Next, CallReturned!vars, CallReturned!Ask, CallReturned!Execute,
              CallReturned!Answer, CallReturned!GiveUp
<1>4. call \in [Calls -> [pc : {"idle", "locks", "writes", "writesBody", "reads", "readsBody",
                               "ok", "failed", "undecoded", "dropped"},
                         seq : Nat, method : Methods, result : Nat]]
  BY DEF CallsInv, TypeOK
<1>5. ASSUME UNCHANGED <<call, executed>> PROVE FALSE
  BY <1>3, <1>5 DEF BarExecuted, Executed
<1>6. ASSUME NEW c \in Calls, CallStarts(c)
      PROVE  /\ c \notin asked \cup over /\ asked' = asked \cup {c}
             /\ UNCHANGED <<BarExecuted, answered, over>>
  <2>1. PICK m \in Methods :
          call' = [call EXCEPT ![c] = [@ EXCEPT !.pc = "locks", !.seq = nextSeq, !.method = m]]
    BY <1>6 DEF CallStarts
  <2>2. /\ call[c].pc = "idle" /\ UNCHANGED executed
        /\ call'[c].pc = "locks" /\ call'[c].seq = nextSeq
        /\ \A d \in Calls : d # c => call'[d] = call[d]
    BY <1>4, <1>6, <2>1 DEF CallStarts, serverVars
  <2>3. ~Executed(call[c].seq) /\ ~Executed(nextSeq)
    <3>1. nextSeq \in Nat \ {0}
      BY DEF CallsInv, TypeOK
    <3>2. \A d \in Calls : call[d].seq # nextSeq
      BY <1>2, <3>1 DEF CallsInv, NumbersDiffer
    <3> QED BY <1>2, <2>2, <3>1, <3>2 DEF CallsInv, NumbersAreWritten, Written
  <2>4. BarExecuted' = BarExecuted
    BY <2>2, <2>3 DEF BarExecuted, Executed
  <2> QED BY <2>2, <2>4
<1>7. ASSUME NEW c \in Calls, WriteBody(c) PROVE FALSE
  <2>1. /\ call[c].pc = "writesBody" /\ call'[c].pc = "reads" /\ call'[c].seq = call[c].seq
        /\ \A d \in Calls : d # c => call'[d] = call[d]
        /\ UNCHANGED executed
    BY <1>4, <1>7 DEF WriteBody, Goes, serverVars
  <2>2. UNCHANGED BarExecuted
    BY <2>1 DEF BarExecuted, Executed
  <2> QED BY <1>3, <2>1, <2>2
<1>8. ASSUME NEW c \in Calls, NEW new, Moves(c, new)
      PROVE  \/ /\ BarExecuted[c] = 1 /\ c \notin answered \cup over
                /\ answered' = answered \cup {c}
                /\ UNCHANGED <<asked, BarExecuted, over>>
             \/ /\ c \notin answered \cup over /\ over' = over \cup {c}
                /\ UNCHANGED <<asked, BarExecuted, answered>>
  <2>1. /\ call[c].pc \in {"locks", "writes", "writesBody", "reads", "readsBody"}
        /\ call'[c] = new /\ new.pc # "idle" /\ new.seq = call[c].seq
        /\ \A d \in Calls : d # c => call'[d] = call[d]
        /\ new.pc = "ok" => Executed(call[c].seq)
        /\ UNCHANGED executed
    BY <1>4, <1>8 DEF Moves
  <2>2. UNCHANGED <<asked, BarExecuted>>
    BY <2>1 DEF BarExecuted, Executed
  <2>3. new.pc = "ok" => BarExecuted[c] = 1
    BY <2>1 DEF BarExecuted
  <2>4. CASE new.pc = "ok"
    BY <2>1, <2>2, <2>3, <2>4
  <2>5. CASE new.pc \in {"failed", "undecoded", "dropped"}
    BY <2>1, <2>2, <2>5
  <2>6. CASE new.pc \notin {"ok", "failed", "undecoded", "dropped"}
    BY <1>3, <2>1, <2>2, <2>6
  <2> QED BY <2>4, <2>5, <2>6
<1>9. ASSUME Serve
      PROVE  \E c \in Calls :
               /\ c \in asked /\ BarExecuted[c] = 0
               /\ BarExecuted' = [BarExecuted EXCEPT ![c] = 1]
               /\ UNCHANGED <<asked, answered, over>>
  <2>1. PICK c \in Calls : \E n, i, added \in Nat : Serves(c, n, i, added)
    BY <1>9, ServeFacts
  <2>2. PICK n \in Nat : /\ Written(c) /\ call[c].seq = n /\ ~Executed(n)
                         /\ executed' = Append(executed, n) /\ UNCHANGED call
    BY <2>1 DEF Serves
  <2>3. \A m \in Nat : Executed(m)' <=> (Executed(m) \/ m = n)
    <3>1. executed \in Seq(Nat)
      BY DEF CallsInv, StreamTypes
    <3>2. /\ DOMAIN executed' = DOMAIN executed \cup {Len(executed) + 1}
          /\ executed'[Len(executed) + 1] = n
          /\ \A k \in DOMAIN executed : executed'[k] = executed[k]
      BY <2>2, <3>1, AppendFacts
    <3> QED BY <3>1, <3>2 DEF Executed
  <2>4. \A d \in Calls : call[d].seq = n => d = c
    BY <2>2 DEF CallsInv, NumbersDiffer, Written
  <2>5. BarExecuted' = [BarExecuted EXCEPT ![c] = 1]
    BY <1>2, <2>2, <2>3, <2>4 DEF BarExecuted
  <2> QED BY <2>2, <2>5 DEF Written, BarExecuted
<1> QED BY <1>5, <1>6, <1>7, <1>8, <1>9, CallStep DEF Next, ServerStops, vars

\* Every behaviour of a connection's calls is one of abstract calls: none is
\* executed twice, and none is answered but with its own execution's result.
THEOREM Refinement == NetSpec => RefinesCallReturn
<1>1. NetInit => CallReturned!Init
  <2> SUFFICES ASSUME NetInit PROVE CallReturned!Init
    OBVIOUS
  <2>1. CallsInv /\ executed = <<>> /\ \A c \in Calls : call[c].pc = "idle"
    BY CallsInitHolds DEF NetInit, Init
  <2>2. CallBar.executed = [c \in Calls |-> 0]
    BY <2>1, ExecutedOnce DEF BarExecuted, Executed
  <2> QED BY <2>1, <2>2 DEF CallReturned!Init, CallBar
<1>2. IInv /\ IInv' /\ [NetNext]_netVars => [CallReturned!Next]_(CallReturned!vars)
  <2> SUFFICES ASSUME IInv, IInv', [NetNext]_netVars
               PROVE  [CallReturned!Next]_(CallReturned!vars)
    OBVIOUS
  <2>1. CallsInv /\ CallsInv' /\ [Next]_vars
    BY DEF IInv, NetNext, NetDisconnect, netVars, Next
  <2>2. CallBar.executed = BarExecuted
    BY <2>1, ExecutedOnce
  <2>3. CallBar.executed' = BarExecuted'
    <3>1. CallsInv' => (CallBar.executed = BarExecuted)'
      BY ExecutedOnce, PTL
    <3> QED BY <2>1, <3>1
  <2> QED BY <2>1, <2>2, <2>3, StepMaps
<1> QED BY <1>1, <1>2, Invariance, PTL DEF NetSpec, RefinesCallReturn, CallReturned!Spec
===============================================================================
