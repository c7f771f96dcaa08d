--------------------------------- MODULE AT ---------------------------------
(***************************************************************************)
(* The AT part of the locking examples: initiators and targets around      *)
(* AT_interconnect, with a checker on each hop, and Lock_interconnect in    *)
(* front of a target of type E.  A step is one run of a process: a thread   *)
(* of an initiator up to its next wait, a callback of an event queue, or a  *)
(* method of the interconnect or of a target of type D, with every call it  *)
(* makes.                                                                  *)
(*                                                                         *)
(* All delays are random, down to zero, so the model has no time: whatever  *)
(* is pending may come next.  But a process that is notified, and END_REQ  *)
(* of a transaction when its internal_ph has come before it, belong to the  *)
(* evaluation phase that is underway; what is scheduled in a phase comes   *)
(* after it.                                                               *)
(***************************************************************************)
EXTENDS ATInterconnect

CONSTANTS Wirings,      \* the types of the targets the example is built with
          Loads         \* bound: iterations of each initiator, 1000 in the code

ASSUME ATAssumption ==
  /\ Wirings \subseteq [Targets -> {"A", "B", "C", "D", "E"}]
  /\ Loads \subseteq [Inits -> Nat]

VARIABLES
  init,        \* the initiators: [pc, cur, req, left]
  targ,        \* the targets: [type, n_trans, response_in_progress, next, stalled]
  req, rsp,               \* interconnect: req_in_progress, rsp_in_progress
  req_queue, rsp_queue,   \* interconnect: transactions that wait
  trans,       \* [ref, status, adr, locked] and the route extension
               \* [init, target, dont_propagate_fw]
  peq,         \* all payload event queues: a bag of [at, trans, phase]
  overdue,     \* the END_REQ that internal_ph has come before: [entries,
               \* inits], entries a bag like peq, which they have left, and
               \* inits a history: the initiators of type B it happened to
  later,       \* what was scheduled in this phase: [entries, threads]
  runnable,    \* method processes that were notified
  check, path, \* the checkers
  faults       \* what assertions and checkers have reported

vars == <<init, targ, req, rsp, req_queue, rsp_queue, trans, peq, overdue, later,
          runnable, check, path, faults>>

(* The state as the handlers see it; self is the process that runs.        *)
State(self) ==
  [init |-> init, targ |-> targ, req |-> req, rsp |-> rsp,
   req_queue |-> req_queue, rsp_queue |-> rsp_queue, trans |-> trans,
   peq |-> peq, overdue |-> overdue, runnable |-> runnable \ {self}, check |-> check,
   path |-> path, faults |-> faults, self |-> self]

(* Nothing is left that has to run in this evaluation phase.               *)
IsOver(s) ==
  s.runnable = {} /\ s.overdue.entries = EmptyBag /\ \A i \in Inits : s.init[i].pc # "woken"

Nothing == [entries |-> {}, threads |-> {}]

Become(s) ==
  /\ init' = s.init
  /\ targ' = s.targ
  /\ req' = s.req
  /\ rsp' = s.rsp
  /\ req_queue' = s.req_queue
  /\ rsp_queue' = s.rsp_queue
  /\ trans' = s.trans
  /\ peq' = s.peq
  /\ overdue' = s.overdue
  /\ later' = IF IsOver(s) THEN Nothing
              ELSE [entries |-> later.entries \cup (BagToSet(s.peq) \ BagToSet(peq)),
                    threads |-> later.threads \cup {i \in Inits : s.init[i].left < init[i].left}]
  /\ runnable' = s.runnable
  /\ check' = s.check
  /\ path' = s.path
  /\ faults' = s.faults

NoRoute == CHOOSE i \in Inits : TRUE
NoTarget == CHOOSE t \in Targets : TRUE

Init ==
  /\ \E n \in Loads :
       init = [i \in Inits |-> [pc |-> "idle", cur |-> Null, req |-> Null, left |-> n[i]]]
  /\ \E w \in Wirings :
       targ = [t \in Targets |-> [type |-> w[t], n_trans |-> 0, response_in_progress |-> FALSE,
                                  next |-> Null, stalled |-> Null]]
  /\ req = [t \in Targets |-> Null]
  /\ rsp = [i \in Inits |-> Null]
  /\ req_queue = [t \in Targets |-> << >>]
  /\ rsp_queue = [i \in Inits |-> << >>]
  /\ trans = [x \in Trans |-> [ref |-> 0, status |-> "INCOMPLETE", adr |-> NoTarget,
                               locked |-> FALSE, init |-> NoRoute, target |-> NoTarget,
                               dont_propagate_fw |-> FALSE]]
  /\ peq = EmptyBag /\ overdue = [entries |-> EmptyBag, inits |-> {}] /\ later = Nothing
  /\ runnable = {}
  /\ check = [h \in Hops |-> [ph |-> [x \in Trans |-> Unused], req |-> Null, rsp |-> Null]]
  /\ path = [x \in Trans |-> [hops |-> << >>, responding |-> FALSE]]
  /\ faults = {}

-----------------------------------------------------------------------------
(* Evaluation phases.                                                      *)

(* A delay of zero is one of a delta cycle.                                *)
Due(e) == BagIn(e, overdue.entries) \/ e \in BagToSet(peq) \ later.entries
Waiting(i) == i \in later.threads

Entries(at) == {e \in BagToSet(peq (+) overdue.entries) : e.at = at /\ Due(e)}

(* internal_ph is posted to a target with the delay of END_REQ, posted to  *)
(* an initiator, plus a random one, which is often zero.  Then both are due *)
(* at once, in two queues, and the kernel runs them in either order.       *)
Overtaken(e) ==
  {f \in BagToSet(peq) : e.phase = "internal_ph" /\ f.phase = "END_REQ" /\ f.trans = e.trans}

(* An entry is taken from its queue.                                       *)
TakenLate(e) == [State(<<"peq", e.at>>) EXCEPT !.overdue.entries = @ (-) SetToBag({e})]

TakenDue(e) ==
  LET late == [f \in Overtaken(e) |-> peq[f]]
  IN [State(<<"peq", e.at>>) EXCEPT
        !.peq = (@ (-) late) (-) SetToBag({e}),
        !.overdue = [entries |-> @.entries (+) late,
                     inits |-> @.inits \cup {i \in InitsB : \E f \in Overtaken(e) : f.at = i}]]

Taken(e) == IF BagIn(e, overdue.entries) THEN TakenLate(e) ELSE TakenDue(e)

-----------------------------------------------------------------------------
(* The initiators.                                                         *)

CallFromInitiator(s, i, x, phase) ==
  FwPost(InterconnectFw(FwPre(s, i, x, phase), i, x, phase), i, x)

(* thread_process from the call of nb_transport_fw to the wait after it.   *)
Send(s, i, x) ==
  LET e == [s EXCEPT !.init[i] = [pc |-> "idle", cur |-> Null, req |-> x,
                                  left |-> s.init[i].left - 1]]
      r == CallFromInitiator(e, i, x, "BEGIN_REQ")
  IN CASE r.ret = "UPDATED"   -> Post(r.s, i, x, r.phase)
       [] r.ret = "COMPLETED" -> Release(CheckTransaction([r.s EXCEPT !.init[i].req = Null], x), x)
       [] OTHER -> r.s

(* Which free transaction the pool hands out is its business.  It creates  *)
(* one when none is free: the bound Trans is to be large enough for that.  *)
Free == {x \in Trans : trans[x].ref = 0}
Fresh == CHOOSE x \in Free : \A y \in Free : x <= y

(* An iteration starts: it waits if the last request is not over.          *)
Thread(i) ==
  /\ init[i].pc = "idle" /\ init[i].left > 0 /\ ~Waiting(i) /\ Free # {}
  /\ \E t \in Targets : \E l \in (IF targ[t].type = "E" THEN BOOLEAN ELSE {FALSE}) :
       LET s == [State(<<"thread", i>>) EXCEPT
                   !.trans[Fresh].ref = 1, !.trans[Fresh].status = "INCOMPLETE",
                   !.trans[Fresh].adr = t, !.trans[Fresh].locked = l]
       IN Become(IF init[i].req # Null
                 THEN [s EXCEPT !.init[i].pc = "blocked", !.init[i].cur = Fresh]
                 ELSE Send(s, i, Fresh))

Resume(i) ==
  /\ init[i].pc = "woken"
  /\ Become(Send(State(<<"thread", i>>), i, init[i].cur))

(* peq_cb, the same for both types.                                        *)
InitiatorPeq(i) ==
  \E e \in Entries(i) :
    LET x == e.trans
        c == Require(Taken(e), e.phase \in {"END_REQ", "BEGIN_RESP"}, "illegal phase")
        s == IF EndsRequest(c, i, x, e.phase) THEN EndRequest(c, i) ELSE c
    IN Become(IF e.phase = "BEGIN_RESP"
              THEN Release(CallFromInitiator(CheckTransaction(s, x), i, x, "END_RESP").s, x)
              ELSE s)

-----------------------------------------------------------------------------
(* The targets.                                                            *)

CallFromTarget(s, t, x, phase) ==
  BwPost(InterconnectBw(BwPre(s, t, x, phase), t, x, phase), t, x)

SendEndReq(s, t, x) ==
  [Post(CallFromTarget(s, t, x, "END_REQ").s, t, x, "internal_ph")
     EXCEPT !.targ[t].n_trans = @ + 1]

(* The request that waits for room in the pipeline.                        *)
Unstall(s, t) ==
  IF s.targ[t].stalled = Null THEN s
  ELSE [SendEndReq(s, t, s.targ[t].stalled) EXCEPT !.targ[t].stalled = Null]

(* A response is over: the transaction is given back.                      *)
Retire(s, t, x) ==
  [Release(s, x) EXCEPT !.targ[t].n_trans = @ - 1, !.targ[t].response_in_progress = FALSE]

SendResponseA(s, t, x) ==
  LET r == CallFromTarget([s EXCEPT !.targ[t].response_in_progress = TRUE], t, x, "BEGIN_RESP")
  IN IF r.ret = "COMPLETED" THEN Unstall(Retire(r.s, t, x), t) ELSE r.s

(* The same in type B.                                                     *)
SendResponseB(s, t, x) == SendResponseA(s, t, x)

(* In type C, which has no pipeline.                                       *)
SendResponseC(s, t, x) ==
  LET r == CallFromTarget([s EXCEPT !.targ[t].response_in_progress = TRUE], t, x, "BEGIN_RESP")
  IN IF r.ret = "COMPLETED"
     THEN [Release(r.s, x) EXCEPT !.targ[t].response_in_progress = FALSE]
     ELSE r.s

SendResponse(s, t, x) ==
  CASE s.targ[t].type = "A" -> SendResponseA(s, t, x)
    [] s.targ[t].type = "B" -> SendResponseB(s, t, x)
    [] s.targ[t].type = "C" -> SendResponseC(s, t, x)

(* The response that waits for the end of another.                         *)
SendNext(s, t) ==
  IF s.targ[t].next = Null THEN s
  ELSE [SendResponse(s, t, s.targ[t].next) EXCEPT !.targ[t].next = Null]

(* Mutant: a third request is accepted while two are in the pipeline.      *)
PeqBeginReqAEager(s, t, x) ==
  LET a == Acquire(s, x)
  IN IF s.targ[t].n_trans = 3 THEN [a EXCEPT !.targ[t].stalled = x] ELSE SendEndReq(a, t, x)

PeqBeginReqA(s, t, x) ==
  LET a == Acquire(s, x)
  IN IF s.targ[t].n_trans = 2 THEN [a EXCEPT !.targ[t].stalled = x] ELSE SendEndReq(a, t, x)

PeqBeginReqC(s, t, x) == Post(Acquire(s, x), t, x, "internal_ph")

PeqEndRespA(s, t, x) ==
  LET c == Require(s, s.targ[t].response_in_progress, "illegal END_RESP")
  IN Unstall(SendNext(Retire(c, t, x), t), t)

PeqEndRespC(s, t, x) ==
  LET c == Require(s, s.targ[t].response_in_progress, "illegal END_RESP")
  IN SendNext([Release(c, x) EXCEPT !.targ[t].response_in_progress = FALSE], t)

(* Mutant: the response does not wait for the end of another.              *)
PeqInternalEager(s, t, x) == SendResponse(Execute(s, x), t, x)

(* internal_ph: the transaction is executed and answered.                  *)
PeqInternal(s, t, x) ==
  LET e == Execute(s, x)
  IN IF s.targ[t].response_in_progress
     THEN [Require(e, s.targ[t].next = Null, "two pending responses") EXCEPT !.targ[t].next = x]
     ELSE SendResponse(e, t, x)

(* peq_cb of the types A and B, and of type C.                             *)
PeqA(s, t, x, phase) ==
  CASE phase = "BEGIN_REQ"   -> PeqBeginReqA(s, t, x)
    [] phase = "END_RESP"    -> PeqEndRespA(s, t, x)
    [] phase = "internal_ph" -> PeqInternal(s, t, x)

PeqB(s, t, x, phase) == PeqA(s, t, x, phase)

PeqC(s, t, x, phase) ==
  CASE phase = "BEGIN_REQ"   -> PeqBeginReqC(s, t, x)
    [] phase = "END_RESP"    -> PeqEndRespC(s, t, x)
    [] phase = "internal_ph" -> PeqInternal(s, t, x)

TargetPeq(t) ==
  \E e \in Entries(t) :
    Become(CASE targ[t].type = "A" -> PeqA(Taken(e), t, e.trans, e.phase)
             [] targ[t].type = "B" -> PeqB(Taken(e), t, e.trans, e.phase)
             [] targ[t].type = "C" -> PeqC(Taken(e), t, e.trans, e.phase))

(* send_rsp_process of type D.                                             *)
SendRsp(t) ==
  /\ <<"send_rsp", t>> \in runnable
  /\ LET x == targ[t].next
         s == [State(<<"send_rsp", t>>) EXCEPT !.targ[t].next = Null,
                                               !.targ[t].response_in_progress = TRUE]
         r == CallFromTarget(s, t, x, "BEGIN_RESP")
     IN Become(IF r.ret = "COMPLETED"
               THEN [Release(r.s, x) EXCEPT !.targ[t].response_in_progress = FALSE]
               ELSE r.s)

-----------------------------------------------------------------------------
(* The processes of the interconnect.                                      *)

EndReq(t) ==
  /\ <<"end_req", t>> \in runnable
  /\ Become(EndReqProcess(State(<<"end_req", t>>), t))

EndRsp(i) ==
  /\ <<"end_rsp", i>> \in runnable
  /\ Become(EndRspProcess(State(<<"end_rsp", i>>), i))

Next ==
  \/ \E i \in Inits : Thread(i) \/ Resume(i) \/ InitiatorPeq(i) \/ EndRsp(i)
  \/ \E t \in Targets : TargetPeq(t) \/ SendRsp(t) \/ EndReq(t)

Spec == Init /\ [][Next]_vars

(* What is scheduled: a thread whose wait is over, an entry of an event    *)
(* queue that is due, a process that was notified.                         *)
CanRun ==
  \/ \E i \in Inits : \/ init[i].pc = "idle" /\ init[i].left > 0 /\ ~Waiting(i) /\ Free # {}
                      \/ init[i].pc = "woken"
  \/ \E e \in BagToSet(peq (+) overdue.entries) : Due(e)
  \/ runnable # {}

(* The kernel goes on as long as something is scheduled: weak fairness of  *)
(* Next, whose ENABLED is CanRun.                                          *)
FairSpec == Spec /\ ([]<>~CanRun \/ []<><<Next>>_vars)

-----------------------------------------------------------------------------
Pointer == Trans \cup {Null}

TypeOK ==
  /\ init \in [Inits -> [pc : {"idle", "blocked", "woken"}, cur : Pointer,
                         req : Pointer, left : Nat]]
  /\ \A t \in Targets :
       /\ targ[t].type \in {"A", "B", "C", "D", "E"}
       /\ targ[t].n_trans \in 0..2
       /\ targ[t].response_in_progress \in BOOLEAN
       /\ {targ[t].next, targ[t].stalled} \subseteq Pointer
  /\ req \in [Targets -> Pointer] /\ rsp \in [Inits -> Pointer]
  /\ req_queue \in [Targets -> Seq(Trans)] /\ rsp_queue \in [Inits -> Seq(Trans)]
  /\ \A x \in Trans : trans[x].ref \in Nat
  /\ IsABag(peq) /\ IsABag(overdue.entries) /\ overdue.inits \subseteq InitsB

(* No assertion of a component fails, no component meets a phase it calls  *)
(* illegal or a third transaction in flight, every transaction is answered *)
(* once before its initiator ends it, and the checkers report nothing      *)
(* (at_interconnect.h:146-286, at_typea_target.h:90-142,                   *)
(* tlm2_base_protocol_checker.h:358-613), unless an END_REQ has come too   *)
(* late to an initiator of type B: then a second request in progress may   *)
(* be reported, and nothing else.                                          *)
Silent == faults \subseteq (IF overdue.inits = {} THEN {} ELSE {"7.2.4 b"})

(* The exclusion rules of the base protocol: on each hop one request at    *)
(* most is not accepted yet, and one response not taken yet.  The checkers *)
(* are no witness of it: one that sees TLM_COMPLETED forgets the request   *)
(* in progress, whichever it was (tlm2_base_protocol_checker.h:446).  The  *)
(* rule for requests fails on the hop of an initiator of type B an END_REQ *)
(* has come too late for, and on no other.                                 *)
Exclusion ==
  \A h \in Hops, x, y \in Trans :
    /\ check[h].ph[x] = check[h].ph[y]
    /\ \/ check[h].ph[x] = "BEGIN_REQ" /\ h \notin overdue.inits
       \/ check[h].ph[x] = "BEGIN_RESP"
    => x = y

(* "Initiator must honor BEGIN_REQ/END_REQ exclusion rule"                 *)
(* (at_typeb_initiator.h:77), on the hop of whichever initiator.           *)
RuleHonored ==
  \A i \in Inits, x, y \in Trans :
    check[i].ph[x] = "BEGIN_REQ" /\ check[i].ph[y] = "BEGIN_REQ" => x = y

(* A transaction somebody still has to do with is not back in the pool:    *)
(* one that waits in a queue of the interconnect or in an event queue, is  *)
(* held up in a target, or is the request of an initiator.  An END_REQ that *)
(* is too late may find it there; its callback does not look at it         *)
(* (at_typeb_initiator.h:150).                                             *)
HeldAlive ==
  \A x \in Trans : trans[x].ref = 0 =>
    /\ \A e \in BagToSet(peq) : e.trans # x
    /\ \A t \in Targets : x \notin {targ[t].next, targ[t].stalled}
                           /\ \A k \in 1..Len(req_queue[t]) : req_queue[t][k] # x
    /\ \A i \in Inits : x \notin {init[i].cur, init[i].req}
                         /\ \A k \in 1..Len(rsp_queue[i]) : rsp_queue[i][k] # x

(* Nothing waits in a queue of the interconnect while no transaction is in *)
(* progress there: what comes then goes on at once, and the end of the one *)
(* in progress takes the next (at_interconnect.h:283, 384).                *)
QueuesWatched ==
  /\ \A t \in Targets : req_queue[t] # << >> => req[t] # Null
  /\ \A i \in Inits : rsp_queue[i] # << >> => rsp[i] # Null

(* Everything is done.                                                     *)
Quiet ==
  /\ \A i \in Inits : init[i] = [pc |-> "idle", cur |-> Null, req |-> Null, left |-> 0]
  /\ req = [t \in Targets |-> Null] /\ rsp = [i \in Inits |-> Null]
  /\ peq = EmptyBag /\ overdue.entries = EmptyBag /\ runnable = {}

(* The interconnect has noted down a request or response as in progress    *)
(* that is over, and nothing is going to take the next from the queue.  So *)
(* it is when a target or initiator that answers in the call answered the  *)
(* process of the interconnect, which then notified the event it is itself *)
(* sensitive to (at_interconnect.h:326, 350, 436).                         *)
LeftBehind ==
  \/ \E t \in Targets : /\ targ[t].type \in {"B", "D", "E"}
                        /\ req[t] # Null /\ check[t].ph[req[t]] # "BEGIN_REQ"
                        /\ <<"end_req", t>> \notin runnable
  \/ \E i \in InitsB : /\ rsp[i] # Null /\ check[i].ph[rsp[i]] # "BEGIN_RESP"
                       /\ <<"end_rsp", i>> \notin runnable

(* Every transaction gets through: no initiator, target, queue or event    *)
(* waits for an end that has been or that never comes, unless the          *)
(* interconnect has forgotten a queue for good (at_interconnect.h:294:     *)
(* "Requests are serviced in a first-come-first-served order").            *)
AllServed == <>Quiet \/ <>[]LeftBehind
=============================================================================
