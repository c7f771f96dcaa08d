--------------------------- MODULE ATInterconnect ---------------------------
(***************************************************************************)
(* AT_interconnect: between a request and its end a target is busy for     *)
(* other requests (s.req[t]), between a response and its end an initiator  *)
(* for other responses (s.rsp[i]); what comes meanwhile waits in req_queue *)
(* and rsp_queue.  The ends notify events, and a process per event serves   *)
(* the queue.  The checkers sit on both sides.                             *)
(***************************************************************************)
EXTENDS ATInitiator, ATTargetCalls, BaseProtocol

(* The calls it makes, through the checkers.  The lock interconnect is in  *)
(* front of the checker.                                                   *)
CallTarget(s, t, x, phase) ==
  IF Locked(s, t, x) THEN Refuse(s, x, phase)
  ELSE FwPost(TargetFw(FwPre(s, t, x, phase), t, x, phase), t, x)

CallInitiator(s, i, x, phase) ==
  BwPost(InitiatorBw(BwPre(s, i, x, phase), i, x, phase), i, x)

(* Mutant: the queue holds no reference.                                   *)
QueueRspUncounted(s, i, x) == [s EXCEPT !.rsp_queue[i] = Append(@, x)]

QueueRsp(s, i, x) == [Acquire(s, x) EXCEPT !.rsp_queue[i] = Append(@, x)]

(* nb_transport_fw, after the target returned.                             *)
AfterTarget(r, i, t, x, is_request) ==
  LET done == [Notify(r.s, <<"end_req", t>>) EXCEPT !.trans[x].dont_propagate_fw = TRUE]
      ended == Notify(Require(r.s, r.s.req[t] # Null, "no request to end"), <<"end_req", t>>)
      busy == r.s.rsp[i] # Null
  IN CASE r.ret = "UPDATED" /\ r.phase = "BEGIN_RESP" ->
            IF busy THEN Accepted(QueueRsp(ended, i, x), r.phase)
                    ELSE Updated([ended EXCEPT !.rsp[i] = x], r.phase)
       [] r.ret = "UPDATED" /\ r.phase = "END_REQ" -> Updated(ended, r.phase)
       [] r.ret = "COMPLETED" /\ is_request ->
            IF busy THEN Accepted(QueueRsp(done, i, x), r.phase)
                    ELSE Completed(done, r.phase)
       [] OTHER -> r

(* Mutant: the request goes to the target while another is in progress.    *)
BeginReqEager(s, i, x) ==
  LET t == s.trans[x].adr
      e == [s EXCEPT !.trans[x].init = i, !.trans[x].target = t,
                     !.trans[x].dont_propagate_fw = FALSE]
  IN AfterTarget(CallTarget([e EXCEPT !.req[t] = x], t, x, "BEGIN_REQ"), i, t, x, TRUE)

BeginReq(s, i, x) ==
  LET t == s.trans[x].adr
      e == [s EXCEPT !.trans[x].init = i, !.trans[x].target = t,
                     !.trans[x].dont_propagate_fw = FALSE]
      phase == "BEGIN_REQ"
  IN IF s.req[t] # Null
     THEN Accepted([Acquire(e, x) EXCEPT !.req_queue[t] = Append(@, x)], phase)
     ELSE AfterTarget(CallTarget([e EXCEPT !.req[t] = x], t, x, phase), i, t, x, TRUE)

EndResp(s, i, x) ==
  LET t == s.trans[x].target
      c == Require(s, s.trans[x].init = i /\ s.rsp[i] # Null, "no response to end")
      e == Notify(c, <<"end_rsp", i>>)
  IN IF s.trans[x].dont_propagate_fw THEN Accepted(e, "END_RESP")
     ELSE AfterTarget(CallTarget(e, t, x, "END_RESP"), i, t, x, FALSE)

InterconnectFw(s, i, x, phase) ==
  IF phase = "BEGIN_REQ" THEN BeginReq(s, i, x) ELSE EndResp(s, i, x)

(* nb_transport_bw.                                                        *)
InterconnectBw(s, t, x, phase) ==
  LET i == s.trans[x].init
      e == IF phase = "END_REQ" \/ (x = s.req[t] /\ phase = "BEGIN_RESP")
           THEN Notify(Require(s, s.req[t] # Null, "no request to end"), <<"end_req", t>>)
           ELSE s
      r == CallInitiator([e EXCEPT !.rsp[i] = IF phase = "BEGIN_RESP" THEN x ELSE @],
                         i, x, phase)
  IN IF phase = "BEGIN_RESP" /\ s.rsp[i] # Null THEN Accepted(QueueRsp(e, i, x), phase)
     ELSE IF r.ret = "COMPLETED" THEN [r EXCEPT !.s = Notify(@, <<"end_rsp", i>>)]
     ELSE r

-----------------------------------------------------------------------------
(* send_bw_to_initiator.  An initiator that completes the transaction      *)
(* sends no END_RESP: the target gets one from here.                       *)
SendBw(s, x, phase) ==
  LET i == s.trans[x].init
      r == CallInitiator(s, i, x, phase)
      e == Notify(Require(r.s, r.s.rsp[i] # Null, "no response to end"), <<"end_rsp", i>>)
      f == CallTarget(e, s.trans[x].target, x, "END_RESP")
  IN IF r.ret = "ACCEPTED" THEN r.s
     ELSE IF s.trans[x].dont_propagate_fw THEN e
     ELSE Require(f.s, f.ret # "UPDATED", "END_RESP answered by UPDATED")

(* The request at the head of the queue goes to the target.  When its      *)
(* response has to wait for another, the code returns before it gives back *)
(* the reference of the queue.                                             *)
ServeReq(s, t) ==
  LET x == Head(s.req_queue[t])
      i == s.trans[x].init
      c == Require(s, s.trans[x].target = t, "wrong target")
      r == CallTarget([c EXCEPT !.req_queue[t] = Tail(@), !.req[t] = x], t, x, "BEGIN_REQ")
      e == Notify(r.s, <<"end_req", t>>)
      d == [e EXCEPT !.trans[x].dont_propagate_fw = r.ret = "COMPLETED"]
      responds == r.ret = "COMPLETED" \/ (r.ret = "UPDATED" /\ r.phase = "BEGIN_RESP")
  IN CASE r.ret = "ACCEPTED" -> Release(r.s, x)
       [] responds /\ r.s.rsp[i] # Null -> QueueRsp(d, i, x)
       [] responds /\ r.s.rsp[i] = Null ->
            Release(SendBw([d EXCEPT !.rsp[i] = x], x, "BEGIN_RESP"), x)
       [] OTHER -> Release(SendBw(d, x, r.phase), x)

EndReqProcess(s, t) ==
  LET c == Require(s, s.req[t] # Null, "no request ended")
  IN IF s.req_queue[t] = << >> THEN [c EXCEPT !.req[t] = Null] ELSE ServeReq(c, t)

ServeRsp(s, i) ==
  LET x == Head(s.rsp_queue[i])
      e == [s EXCEPT !.rsp_queue[i] = Tail(@), !.rsp[i] = x]
  IN Release(SendBw(e, x, "BEGIN_RESP"), x)

(* Mutant: the queue is forgotten when a response ends.                    *)
EndRspProcessIdle(s, i) == [s EXCEPT !.rsp[i] = Null]

EndRspProcess(s, i) ==
  LET c == Require(s, s.rsp[i] # Null, "no response ended")
  IN IF s.rsp_queue[i] = << >> THEN [c EXCEPT !.rsp[i] = Null] ELSE ServeRsp(c, i)
=============================================================================
