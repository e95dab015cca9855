-------------------------------- MODULE NetRpc --------------------------------
(***************************************************************************)
(* A net/rpc plugin connection: the calls of the control stream (RpcCalls) *)
(* and the broker's streams (MuxBroker) over one yamux connection.  A      *)
(* plugin is used in three steps: its name is dispensed, which answers     *)
(* with a stream id; the plugin's side accepts that id; the host dials it. *)
(***************************************************************************)
EXTENDS RpcCalls, MuxBroker

netVars == <<vars, muxVars>>

\* The ids the server has handed out, and those a caller can read in an answer.
HandedOut == Ids \cap 1..(nextId - 1)
Received == {i \in Ids : \E c \in Calls :
               call[c].pc = "ok" /\ call[c].method \in Plugins /\ call[c].result = i}

NetInit == Init /\ MuxInit

\* The connection is lost for both.
NetDisconnect == Disconnect /\ IF server = "serves" THEN ServerStops ELSE UNCHANGED vars

StreamStep ==
  \/ \E a \in Accepts : AcceptTimesOut(a) \/ \E i \in HandedOut : Accept(a, i)
  \/ \E d \in Dials : DialGoesOn(d) \/ InboundGoesOn(d) \/ \E i \in Received : DialOpens(d, i)
  \/ Close

NetNext ==
  \/ Next /\ UNCHANGED muxVars
  \/ StreamStep /\ UNCHANGED vars
  \/ NetDisconnect

\* The runtime polls the tasks of the calls and of the streams.
NetFairness ==
  /\ \A c \in Calls : WF_netVars(CallGoesOn(c) /\ UNCHANGED muxVars)
  /\ \A d \in Dials : /\ WF_netVars(DialGoesOn(d) /\ UNCHANGED vars)
                      /\ WF_netVars(InboundGoesOn(d) /\ UNCHANGED vars)

NetSpec == NetInit /\ [][NetNext]_netVars /\ NetFairness

-----------------------------------------------------------------------------
\* What a caller dials for the plugin it has dispensed reaches the accept of that
\* very dispense: the id was handed out once, whatever calls were dropped, timed
\* out or retried meanwhile.
DispensedOnce ==
  \A c1, c2 \in Calls :
    /\ call[c1].pc = "ok" /\ call[c1].method \in Plugins
    /\ call[c2].pc = "ok" /\ call[c2].method \in Plugins
    /\ call[c1].result = call[c2].result
    => c1 = c2
===============================================================================
