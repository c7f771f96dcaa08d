---------------------------- MODULE ATTargetCalls ----------------------------
(***************************************************************************)
(* What the interconnect calls in a target.  s.targ[t] is a target: type,  *)
(* n_trans, response_in_progress, and the transactions its                 *)
(* next_response_pending (next) and end_req_pending (stalled) point to.    *)
(*                                                                         *)
(* The initiators send no byte enables and four bytes, so that the errors  *)
(* the targets answer otherwise do not occur.                              *)
(***************************************************************************)
EXTENDS TLM

(* Types A and C leave everything to the event queue.                      *)
FwA(s, t, x, phase) == Accepted(Post(s, t, x, phase), phase)
FwC(s, t, x, phase) == Accepted(Post(s, t, x, phase), phase)

(* Type B accepts a request at once when its pipeline has room.            *)
FwB(s, t, x, phase) ==
  IF phase = "BEGIN_REQ" /\ s.targ[t].n_trans < 2
  THEN Updated([Post(Acquire(s, x), t, x, "internal_ph") EXCEPT !.targ[t].n_trans = @ + 1],
               "END_REQ")
  ELSE Accepted(Post(s, t, x, phase), phase)

(* Type D executes at once and answers on the return path, unless another  *)
(* response is in progress.                                                *)
BeginReqD(s, t, x, phase) ==
  LET e == Execute(Acquire(s, x), x)
  IN IF s.targ[t].response_in_progress
     THEN Accepted([Require(e, s.targ[t].next = Null, "two pending responses")
                      EXCEPT !.targ[t].next = x], phase)
     ELSE Updated([e EXCEPT !.targ[t].response_in_progress = TRUE], "BEGIN_RESP")

EndRespD(s, t, x, phase) ==
  LET c == Require(s, s.targ[t].response_in_progress, "illegal END_RESP")
      d == [Release(c, x) EXCEPT !.targ[t].response_in_progress = FALSE]
  IN Completed(IF d.targ[t].next = Null THEN d ELSE Notify(d, <<"send_rsp", t>>), phase)

(* Lock_interconnect::nb_transport_fw, in front of the target of type E,   *)
(* when the address is locked.  Whether it is, module Lock says; here the  *)
(* transaction has it, drawn when its address is.                          *)
Locked(s, t, x) == s.targ[t].type = "E" /\ s.trans[x].locked
Refuse(s, x, phase) == Completed(Answer(s, x, "ERROR"), phase)

(* Type E is done at once.                                                 *)
FwE(s, t, x, phase) == Completed(Execute(s, x), phase)

TargetFw(s, t, x, phase) ==
  CASE s.targ[t].type = "A" -> FwA(s, t, x, phase)
    [] s.targ[t].type = "B" -> FwB(s, t, x, phase)
    [] s.targ[t].type = "C" -> FwC(s, t, x, phase)
    [] s.targ[t].type = "D" -> IF phase = "BEGIN_REQ" THEN BeginReqD(s, t, x, phase)
                               ELSE EndRespD(s, t, x, phase)
    [] s.targ[t].type = "E" -> FwE(s, t, x, phase)
=============================================================================
