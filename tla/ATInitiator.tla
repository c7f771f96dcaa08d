----------------------------- MODULE ATInitiator -----------------------------
(***************************************************************************)
(* What the interconnect calls in an initiator, and what a transaction     *)
(* that arrives does there.  s.init[i] is an initiator: pc of its thread,  *)
(* req (its req_in_progress), cur (the transaction the thread has          *)
(* allocated) and left (the iterations it still has to do).                *)
(***************************************************************************)
EXTENDS TLM

(* Mutant: the event is not notified.                                      *)
EndRequestSilent(s, i) == [s EXCEPT !.init[i].req = Null]

(* req_in_progress = 0 and end_req_event.notify(): the thread goes on if   *)
(* it waits for the event.                                                 *)
EndRequest(s, i) ==
  [s EXCEPT !.init[i].req = Null,
            !.init[i].pc = IF @ = "blocked" THEN "woken" ELSE @]

(* What ends the request phase.                                            *)
EndsRequest(s, i, x, phase) ==
  phase = "END_REQ" \/ (x = s.init[i].req /\ phase = "BEGIN_RESP")

(* Type A: nb_transport_bw leaves everything to the event queue.           *)
BwA(s, i, x, phase) == Accepted(Post(s, i, x, phase), phase)

(* Type B ends the transaction at once.                                    *)
BwB(s, i, x, phase) ==
  IF phase = "END_REQ" THEN BwA(s, i, x, phase)
  ELSE LET r == IF x = s.init[i].req THEN EndRequest(s, i) ELSE s
       IN Completed(Release(CheckTransaction(r, x), x), phase)

InitiatorBw(s, i, x, phase) ==
  IF i \in InitsA THEN BwA(s, i, x, phase) ELSE BwB(s, i, x, phase)
=============================================================================
