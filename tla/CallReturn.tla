------------------------------ MODULE CallReturn ------------------------------
(***************************************************************************)
(* What a remote procedure call promises its caller (abstract).  Each call *)
(* is asked at most once, executed at most once, and answered only with    *)
(* the result of its own execution.  A caller may be refused, or give up,  *)
(* and then does not know whether the call was executed.                   *)
(***************************************************************************)
EXTENDS Naturals

CONSTANT Calls

VARIABLES asked,     \* the calls whose request is on its way or beyond
          executed,  \* how often each call was executed
          answered,  \* the calls whose caller has the result
          over       \* the calls whose caller has an error or has given up

vars == <<asked, executed, answered, over>>

Init == asked = {} /\ executed = [c \in Calls |-> 0] /\ answered = {} /\ over = {}

Ask(c) ==
  /\ c \notin asked \cup over
  /\ asked' = asked \cup {c}
  /\ UNCHANGED <<executed, answered, over>>

Execute(c) ==
  /\ c \in asked /\ executed[c] = 0
  /\ executed' = [executed EXCEPT ![c] = 1]
  /\ UNCHANGED <<asked, answered, over>>

Answer(c) ==
  /\ executed[c] = 1 /\ c \notin answered \cup over
  /\ answered' = answered \cup {c}
  /\ UNCHANGED <<asked, executed, over>>

GiveUp(c) ==
  /\ c \notin answered \cup over
  /\ over' = over \cup {c}
  /\ UNCHANGED <<asked, executed, answered>>

Next == \E c \in Calls : Ask(c) \/ Execute(c) \/ Answer(c) \/ GiveUp(c)

Spec == Init /\ [][Next]_vars
===============================================================================
