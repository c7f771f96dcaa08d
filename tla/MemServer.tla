----------------------------- MODULE MemServer -----------------------------
(***************************************************************************)
(* What the memory controller promises to the rest of the system: every    *)
(* request it takes from the bus is answered, exactly once, in the order   *)
(* in which they were taken.                                               *)
(***************************************************************************)
EXTENDS Sequences

CONSTANTS Requests, None

VARIABLES pending,   \* requests taken and not answered yet
          answer     \* the request whose answer is on the bus, or None

serverVars == <<pending, answer>>

Init == pending = << >> /\ answer = None

Take(r) == pending' = Append(pending, r) /\ UNCHANGED answer

Answer ==
  /\ answer = None
  /\ pending # << >>
  /\ answer' = Head(pending)
  /\ pending' = Tail(pending)

Finish == answer # None /\ answer' = None /\ UNCHANGED pending

Next == (\E r \in Requests : Take(r)) \/ Answer \/ Finish

Spec == Init /\ [][Next]_serverVars
=============================================================================
