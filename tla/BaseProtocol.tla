---------------------------- MODULE BaseProtocol ----------------------------
(***************************************************************************)
(* tlm2_base_protocol_checker: one checker on each hop, between an         *)
(* initiator and the interconnect and between the interconnect and a       *)
(* target, as the locking examples wire them.  The checkers do not take    *)
(* part in the transport, they only report.  s.check[h] is the checker of  *)
(* hop h: ph, the phase of each transaction (m_map), and req and rsp, its   *)
(* m_request_in_progress and m_response_in_progress; s.path[x] is what     *)
(* they share about a transaction (shared_map).                            *)
(*                                                                         *)
(* Left out are the checks of the attributes and the data of a payload, of *)
(* the timing annotations, and those of the calls nobody makes here.  The  *)
(* number of checks is taken not to run out.                               *)
(***************************************************************************)
EXTENDS TLM

Report(s, cond, clause) == Require(s, ~cond, clause)

Unused == "UNINITIALIZED_PHASE"

(* The start of a transaction on a hop (check_initial_state).              *)
CheckInitialState(s, h, x) ==
  LET c == Report(s, s.trans[x].ref > 1 /\ s.path[x].hops = << >>, "6.5 s warning")
      d == Report(c, s.trans[x].status # "INCOMPLETE", "6.16 e")
      e == Report(d, s.path[x].responding, "6.5")
  IN [e EXCEPT !.path[x].hops = Append(@, h)]

(* check_response_path: responses go back the way the requests came.       *)
CheckResponsePath(s, h, x) ==
  LET p == s.path[x].hops
  IN IF p = << >> THEN s
     ELSE [Report(s, p[Len(p)] # h, "7.2.5 m-n")
             EXCEPT !.path[x] = [hops |-> SubSeq(p, 1, Len(p) - 1),
                                 responding |-> Len(p) > 1]]

(* Before a call of nb_transport_fw.                                       *)
FwPre(s, h, x, phase) ==
  LET c == Report(s, s.trans[x].ref = 0, "6.5 s")
      b == CheckInitialState(c, h, x)
      d == Report(b, s.check[h].ph[x] \in {"BEGIN_REQ", "END_REQ", "BEGIN_RESP"}, "7.2.3 i")
      e == Report(d, s.check[h].req # Null, "7.2.4 b")
      f == Report(c, s.check[h].ph[x] # "BEGIN_RESP", "7.2.3 i")
  IN IF phase = "BEGIN_REQ"
     THEN [e EXCEPT !.check[h].req = x, !.check[h].ph[x] = phase]
     ELSE [f EXCEPT !.check[h].rsp = Null, !.check[h].ph[x] = phase]

(* END_REQ or BEGIN_RESP, on the backward path or returned.                *)
ResponseChecks(s, h, x, phase) ==
  LET ph == s.check[h].ph[x]
      c  == Report(s, ph # "BEGIN_REQ", "7.2.3 i")
      d  == Report(s, ph \notin {"BEGIN_REQ", "END_REQ"}, "7.2.3 i")
      e  == Report(d, s.check[h].rsp # Null, "7.2.4 c")
  IN IF phase = "END_REQ"
     THEN [c EXCEPT !.check[h].req = Null, !.check[h].ph[x] = phase]
     ELSE CheckResponsePath([e EXCEPT !.check[h].req = IF @ = x THEN Null ELSE @,
                                      !.check[h].rsp = x,
                                      !.check[h].ph[x] = phase], h, x)

(* After it.  The phase it was called with is a reference in the code, to  *)
(* the one the call leaves.                                                *)
FwPost(r, h, x) ==
  LET c == IF r.phase = "BEGIN_REQ" THEN CheckResponsePath(r.s, h, x) ELSE r.s
  IN CASE r.ret = "UPDATED"   -> [r EXCEPT !.s = ResponseChecks(@, h, x, r.phase)]
       [] r.ret = "COMPLETED" -> [r EXCEPT !.s = [c EXCEPT !.check[h].req = Null,
                                                           !.check[h].ph[x] = Unused]]
       [] OTHER -> r

(* Before and after a call of nb_transport_bw.  No initiator here answers  *)
(* TLM_UPDATED.                                                            *)
BwPre(s, h, x, phase) ==
  ResponseChecks(Report(s, s.trans[x].ref = 0, "6.5 s"), h, x, phase)

BwPost(r, h, x) ==
  IF r.ret = "COMPLETED"
  THEN [r EXCEPT !.s.check[h].rsp = Null, !.s.check[h].ph[x] = Unused]
  ELSE r
=============================================================================
