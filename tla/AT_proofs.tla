------------------------------ MODULE AT_proofs ------------------------------
(***************************************************************************)
(* Theorems of AT, for any initiators, targets, types of them, number of   *)
(* iterations and size of the pool, and for both ways a process notifies   *)
(* itself: types, the queues of the interconnect that are looked at, and   *)
(* the transactions that are not given back too early.                     *)
(*                                                                         *)
(* The handlers of AT are operators on a state record, and so is the       *)
(* invariant: Sound(s, p, h, L) of a state s.  It holds in whichever order *)
(* internal_ph and END_REQ of a transaction are taken.  p says where each  *)
(* transaction is, h is one the running process holds a reference of, and  *)
(* L the pointers of a target that it has yet to clear.  There is one lemma *)
(* for each handler: from a sound state it goes to a sound state, with     *)
(* its transaction at the place that the status it returns stands for.     *)
(***************************************************************************)
EXTENDS AT, WellFoundedInduction, TLAPS

(* Where a transaction is.  In the hands of the process that runs, and of  *)
(* nobody else:                                                            *)
InHand ==
  {"none",      \* in the pool, or nothing is known of it
   "new",       \* of an initiator that is about to send it
   "sent",      \* on its way to a target
   "accepted",  \* of a target, which ends the request
   "served",    \* of a target, which responds
   "answered"}  \* of a target, the initiator is through with it

(* Otherwise it is where one component finds it: as the transaction of a   *)
(* thread that waits, in a queue of the interconnect, in an event queue,   *)
(* or at a pointer of a target.                                            *)
Places ==
  InHand \cup {"cur", "req_queue", "begin_req", "stalled", "internal", "next",
               "rsp_queue", "begin_resp", "end_resp"}

(* Who holds a reference: the initiator, the target, unless it completed   *)
(* the transaction at once, and the queue.                                 *)
ByInitiator ==
  {"cur", "new", "sent", "req_queue", "begin_req", "stalled", "accepted", "internal",
   "next", "served", "rsp_queue", "begin_resp"}
ByTarget ==
  {"stalled", "accepted", "internal", "next", "served", "rsp_queue", "begin_resp",
   "answered", "end_resp"}
ByQueue == {"req_queue", "rsp_queue"}

(* The transactions n_trans counts, and those with a route.                *)
InPipe == ByTarget \ {"stalled", "accepted"}
Routed == Places \ {"none", "cur", "new"}

One(b) == IF b THEN 1 ELSE 0
Need(place, done) ==
  One(place \in ByInitiator)
    + (One(place = "end_resp" \/ (place \in ByTarget /\ ~done)) + One(place \in ByQueue))

-----------------------------------------------------------------------------
Types == {"A", "B", "C", "D", "E"}
Phases == {"BEGIN_REQ", "END_REQ", "BEGIN_RESP", "END_RESP", "internal_ph"}

InitT == [pc : {"idle", "blocked", "woken"}, cur : Pointer, req : Pointer, left : Nat]
TargT == [type : Types, n_trans : 0..2, response_in_progress : BOOLEAN,
          next : Pointer, stalled : Pointer]
TransT == [ref : Int, status : {"INCOMPLETE", "OK", "ERROR"}, adr : Targets,
           locked : BOOLEAN, init : Inits, target : Targets, dont_propagate_fw : BOOLEAN]
Entry == [at : Hops, trans : Trans, phase : Phases]

Fields == {"init", "targ", "req", "rsp", "req_queue", "rsp_queue", "trans", "peq",
           "overdue", "runnable", "check", "path", "faults", "self"}

(* A record with the fields of a state.                                    *)
IsState(s) == s = [f \in Fields |-> s[f]]

OverdueTyped(o) ==
  /\ o = [entries |-> o.entries, inits |-> o.inits]
  /\ IsABag(o.entries) /\ o.inits \subseteq InitsB
  /\ \A e \in DOMAIN o.entries : e \in Entry /\ e.at \in Inits /\ e.phase = "END_REQ"

Typed(s) ==
  /\ IsState(s)
  /\ s.init \in [Inits -> InitT]
  /\ s.targ \in [Targets -> TargT]
  /\ s.req \in [Targets -> Pointer]
  /\ s.rsp \in [Inits -> Pointer]
  /\ s.req_queue \in [Targets -> Seq(Trans)]
  /\ s.rsp_queue \in [Inits -> Seq(Trans)]
  /\ s.trans \in [Trans -> TransT]
  /\ IsABag(s.peq) /\ DOMAIN s.peq \subseteq Entry
  /\ OverdueTyped(s.overdue)

(* QueuesWatched of a state.                                               *)
Watched(s) ==
  /\ \A t \in Targets : s.req_queue[t] # << >> => s.req[t] # Null
  /\ \A i \in Inits : s.rsp_queue[i] # << >> => s.rsp[i] # Null

(* The transactions of the initiators, and their requests in progress.     *)
Initiating(s, p) ==
  /\ \A i \in Inits : s.init[i].cur # Null => p[s.init[i].cur] = "cur"
  /\ \A i \in Inits : s.init[i].pc # "idle" => s.init[i].cur # Null /\ s.init[i].left > 0
  /\ \A i \in Inits : s.init[i].req # Null =>
       LET x == s.init[i].req
       IN p[x] \in ByInitiator \ {"cur"} /\ (p[x] # "new" => s.trans[x].init = i)
  /\ \A i, j \in Inits : s.init[i].cur = s.init[j].cur => i = j \/ s.init[i].cur = Null
  /\ \A i, j \in Inits : s.init[i].req = s.init[j].req => i = j \/ s.init[i].req = Null

(* The queues of the interconnect.                                         *)
Queued(s, p) ==
  /\ \A t \in Targets : \A k \in 1..Len(s.req_queue[t]) :
       LET x == s.req_queue[t][k]
       IN /\ p[x] = "req_queue" /\ s.trans[x].target = t
          /\ \A m \in 1..Len(s.req_queue[t]) : s.req_queue[t][m] = x => m = k
  /\ \A i \in Inits : \A k \in 1..Len(s.rsp_queue[i]) :
       LET x == s.rsp_queue[i][k]
       IN /\ p[x] = "rsp_queue" /\ s.trans[x].init = i
          /\ \A m \in 1..Len(s.rsp_queue[i]) : s.rsp_queue[i][m] = x => m = k

(* The pointers of the targets, but those that are about to be cleared.    *)
Pointed(s, p, L) ==
  /\ \A t \in Targets : s.targ[t].next # Null /\ <<"next", t>> \notin L =>
       p[s.targ[t].next] = "next" /\ s.trans[s.targ[t].next].target = t
  /\ \A t \in Targets : s.targ[t].stalled # Null /\ <<"stalled", t>> \notin L =>
       p[s.targ[t].stalled] = "stalled" /\ s.trans[s.targ[t].stalled].target = t

(* The event queues.                                                       *)
PlaceOf == [phase \in Phases \ {"END_REQ"} |->
              CASE phase = "BEGIN_REQ" -> "begin_req"
                [] phase = "internal_ph" -> "internal"
                [] phase = "BEGIN_RESP" -> "begin_resp"
                [] phase = "END_RESP" -> "end_resp"]

Posted(s, p) ==
  \A e \in DOMAIN s.peq :
    /\ e.phase = "END_REQ" => e.at \in Inits /\ p[e.trans] \in {"accepted", "internal"}
    /\ e.phase # "END_REQ" => s.peq[e] = 1 /\ p[e.trans] = PlaceOf[e.phase]
    /\ e.phase = "BEGIN_RESP" => e.at \in Inits /\ s.trans[e.trans].init = e.at
    /\ e.phase \in {"BEGIN_REQ", "internal_ph", "END_RESP"} =>
         /\ e.at \in Targets /\ s.trans[e.trans].target = e.at
         /\ s.targ[e.at].type \in {"A", "B", "C"}

(* n_trans counts the transactions in the pipeline of a target.            *)
Pipe(s, p, t) == {x \in Trans : p[x] \in InPipe /\ s.trans[x].target = t}

Counts(n, S) ==
  /\ n = 0 => S = {}
  /\ n = 1 => \E x \in S : S = {x}
  /\ n = 2 => \E x, y \in S : x # y /\ S = {x, y}

Counted(s, p) ==
  \A t \in Targets : s.targ[t].type \in {"A", "B"} => Counts(s.targ[t].n_trans, Pipe(s, p, t))

(* Nobody gives back what another one still holds.                         *)
Referenced(s, p, h) ==
  \A x \in Trans :
    s.trans[x].ref >= Need(p[x], s.trans[x].dont_propagate_fw) + One(x = h)

(* Only a target of type E completes a transaction at once.                *)
AtOnce(s, p) ==
  \A x \in Trans : p[x] \in Routed /\ s.trans[x].dont_propagate_fw =>
                     s.targ[s.trans[x].target].type = "E"

(* A process of a target is notified only when a response waits.           *)
Awake(s) ==
  \A t \in Targets : <<"send_rsp", t>> \in s.runnable =>
                       s.targ[t].type = "D" /\ s.targ[t].next # Null

Sound(s, p, h, L) ==
  /\ Typed(s) /\ p \in [Trans -> Places]
  /\ Watched(s)
  /\ Initiating(s, p)
  /\ Queued(s, p)
  /\ Pointed(s, p, L)
  /\ Posted(s, p)
  /\ Counted(s, p)
  /\ Referenced(s, p, h)
  /\ AtOnce(s, p)
  /\ Awake(s)

(* The inductive invariant.                                                *)
Kernel == <<"kernel">>
ATInv == \E p \in [Trans -> Places] : Sound(State(Kernel), p, Null, {})

-----------------------------------------------------------------------------
(* State records.  One field is replaced, the others stay.                 *)
Same(r, s, changed) == IsState(r) /\ \A f \in Fields \ changed : r[f] = s[f]

LEMMA Set ==
  ASSUME NEW s, IsState(s), NEW v
  PROVE  /\ Same([s EXCEPT !.init = v], s, {"init"}) /\ [s EXCEPT !.init = v].init = v
         /\ Same([s EXCEPT !.targ = v], s, {"targ"}) /\ [s EXCEPT !.targ = v].targ = v
         /\ Same([s EXCEPT !.req = v], s, {"req"}) /\ [s EXCEPT !.req = v].req = v
         /\ Same([s EXCEPT !.rsp = v], s, {"rsp"}) /\ [s EXCEPT !.rsp = v].rsp = v
         /\ Same([s EXCEPT !.req_queue = v], s, {"req_queue"})
         /\ [s EXCEPT !.req_queue = v].req_queue = v
         /\ Same([s EXCEPT !.rsp_queue = v], s, {"rsp_queue"})
         /\ [s EXCEPT !.rsp_queue = v].rsp_queue = v
<1>1. /\ Same([s EXCEPT !.init = v], s, {"init"}) /\ [s EXCEPT !.init = v].init = v
      /\ Same([s EXCEPT !.targ = v], s, {"targ"}) /\ [s EXCEPT !.targ = v].targ = v
  BY DEF Same, IsState, Fields
<1>2. /\ Same([s EXCEPT !.req = v], s, {"req"}) /\ [s EXCEPT !.req = v].req = v
      /\ Same([s EXCEPT !.rsp = v], s, {"rsp"}) /\ [s EXCEPT !.rsp = v].rsp = v
  BY DEF Same, IsState, Fields
<1>3. /\ Same([s EXCEPT !.req_queue = v], s, {"req_queue"})
      /\ [s EXCEPT !.req_queue = v].req_queue = v
      /\ Same([s EXCEPT !.rsp_queue = v], s, {"rsp_queue"})
      /\ [s EXCEPT !.rsp_queue = v].rsp_queue = v
  BY DEF Same, IsState, Fields
<1> QED BY <1>1, <1>2, <1>3

LEMMA SetToo ==
  ASSUME NEW s, IsState(s), NEW v
  PROVE  /\ Same([s EXCEPT !.trans = v], s, {"trans"}) /\ [s EXCEPT !.trans = v].trans = v
         /\ Same([s EXCEPT !.peq = v], s, {"peq"}) /\ [s EXCEPT !.peq = v].peq = v
         /\ Same([s EXCEPT !.overdue = v], s, {"overdue"})
         /\ [s EXCEPT !.overdue = v].overdue = v
         /\ Same([s EXCEPT !.runnable = v], s, {"runnable"})
         /\ [s EXCEPT !.runnable = v].runnable = v
         /\ Same([s EXCEPT !.check = v], s, {"check"})
         /\ Same([s EXCEPT !.path = v], s, {"path"})
         /\ Same([s EXCEPT !.faults = v], s, {"faults"})
<1>1. /\ Same([s EXCEPT !.trans = v], s, {"trans"}) /\ [s EXCEPT !.trans = v].trans = v
      /\ Same([s EXCEPT !.peq = v], s, {"peq"}) /\ [s EXCEPT !.peq = v].peq = v
  BY DEF Same, IsState, Fields
<1>2. /\ Same([s EXCEPT !.runnable = v], s, {"runnable"})
      /\ [s EXCEPT !.runnable = v].runnable = v
  BY DEF Same, IsState, Fields
<1>4. /\ Same([s EXCEPT !.overdue = v], s, {"overdue"})
      /\ [s EXCEPT !.overdue = v].overdue = v
  BY DEF Same, IsState, Fields
<1>3. /\ Same([s EXCEPT !.check = v], s, {"check"})
      /\ Same([s EXCEPT !.path = v], s, {"path"})
      /\ Same([s EXCEPT !.faults = v], s, {"faults"})
  BY DEF Same, IsState, Fields
<1> QED BY <1>1, <1>2, <1>3, <1>4

LEMMA SameTwice ==
  ASSUME NEW s, NEW r, NEW q, NEW S, Same(r, s, S), Same(q, r, S)
  PROVE  Same(q, s, S)
BY DEF Same

LEMMA SameState ==
  ASSUME NEW s, NEW r, NEW S, Same(r, s, S)
  PROVE  IsState(r)
BY DEF Same

LEMMA SameMore ==
  ASSUME NEW s, NEW r, NEW S, NEW T, Same(r, s, S), S \subseteq T
  PROVE  Same(r, s, T)
BY DEF Same

(* The checkers report, and change nothing else.                           *)
Seen == {"check", "path", "faults"}

LEMMA Reported ==
  ASSUME NEW s, IsState(s), NEW cond, NEW what
  PROVE  /\ Same(Require(s, cond, what), s, {"faults"}) /\ Same(Require(s, cond, what), s, Seen)
         /\ Same(Report(s, cond, what), s, Seen)
<1>1. \A v : Same([s EXCEPT !.faults = v], s, {"faults"})
  BY SetToo
<1>2. Same(s, s, {"faults"})
  BY DEF Same
<1>3. \A c : Same(Require(s, c, what), s, {"faults"})
  BY <1>1, <1>2 DEF Require
<1>4. \A c : Same(Require(s, c, what), s, Seen)
  BY <1>3, SameMore DEF Seen
<1> QED BY <1>3, <1>4 DEF Report

LEMMA Observed ==
  ASSUME NEW s, IsState(s), NEW v
  PROVE  /\ Same(s, s, Seen)
         /\ Same([s EXCEPT !.check = v], s, Seen) /\ Same([s EXCEPT !.path = v], s, Seen)
<1>1. Same(s, s, Seen)
  BY DEF Same
<1> QED BY <1>1, SetToo, SameMore DEF Seen

LEMMA InitialStateObserved ==
  ASSUME NEW s, IsState(s), NEW h, NEW x
  PROVE  Same(CheckInitialState(s, h, x), s, Seen)
<1> DEFINE c == Report(s, s.trans[x].ref > 1 /\ s.path[x].hops = << >>, "6.5 s warning")
           d == Report(c, s.trans[x].status # "INCOMPLETE", "6.16 e")
           e == Report(d, s.path[x].responding, "6.5")
<1>4. CheckInitialState(s, h, x) = [e EXCEPT !.path[x].hops = Append(@, h)]
  BY DEF CheckInitialState
<1>1. Same(c, s, Seen)
  BY Reported
<1> HIDE DEF c
<1>2. Same(d, c, Seen)
  BY <1>1, SameState, Reported
<1> HIDE DEF d
<1>3. Same(e, d, Seen)
  BY <1>2, SameState, Reported
<1> HIDE DEF e
<1>5. Same([e EXCEPT !.path[x].hops = Append(@, h)], e, Seen)
  BY <1>3, Observed DEF Same
<1> QED BY <1>1, <1>2, <1>3, <1>4, <1>5, SameTwice

LEMMA ResponsePathObserved ==
  ASSUME NEW s, IsState(s), NEW h, NEW x
  PROVE  Same(CheckResponsePath(s, h, x), s, Seen)
<1> DEFINE p == s.path[x].hops
           c == Report(s, p[Len(p)] # h, "7.2.5 m-n")
           v == [hops |-> SubSeq(p, 1, Len(p) - 1), responding |-> Len(p) > 1]
<1>1. Same(c, s, Seen)
  BY Reported
<1>2. CheckResponsePath(s, h, x) = IF p = << >> THEN s ELSE [c EXCEPT !.path[x] = v]
  BY DEF CheckResponsePath
<1> HIDE DEF c, v, p
<1>3. Same([c EXCEPT !.path[x] = v], c, Seen)
  BY <1>1, Observed DEF Same
<1> QED BY <1>1, <1>2, <1>3, Observed, SameTwice

LEMMA FwPreObserved ==
  ASSUME NEW s, IsState(s), NEW h, NEW x, NEW phase
  PROVE  Same(FwPre(s, h, x, phase), s, Seen)
<1> DEFINE c == Report(s, s.trans[x].ref = 0, "6.5 s")
           b == CheckInitialState(c, h, x)
           d == Report(b, s.check[h].ph[x] \in {"BEGIN_REQ", "END_REQ", "BEGIN_RESP"}, "7.2.3 i")
           e == Report(d, s.check[h].req # Null, "7.2.4 b")
           f == Report(c, s.check[h].ph[x] # "BEGIN_RESP", "7.2.3 i")
           e1 == [e EXCEPT !.check[h].req = x]
           f1 == [f EXCEPT !.check[h].rsp = Null]
<1>6. FwPre(s, h, x, phase) =
        IF phase = "BEGIN_REQ" THEN [e1 EXCEPT !.check[h].ph[x] = phase]
        ELSE [f1 EXCEPT !.check[h].ph[x] = phase]
  BY DEF FwPre
<1>1. Same(c, s, Seen)
  BY Reported
<1> HIDE DEF c
<1>2. Same(b, c, Seen)
  BY <1>1, SameState, InitialStateObserved
<1>5. Same(f, c, Seen)
  BY <1>1, SameState, Reported
<1> HIDE DEF b, f
<1>3. Same(d, b, Seen)
  BY <1>2, SameState, Reported
<1> HIDE DEF d
<1>4. Same(e, d, Seen)
  BY <1>3, SameState, Reported
<1> HIDE DEF e
<1>7. Same(e1, e, Seen) /\ Same(f1, f, Seen)
  BY <1>4, <1>5, SameState, Observed
<1> HIDE DEF e1, f1
<1>8. /\ Same([e1 EXCEPT !.check[h].ph[x] = phase], e1, Seen)
      /\ Same([f1 EXCEPT !.check[h].ph[x] = phase], f1, Seen)
  BY <1>7, SameState, Observed
<1>9. Same(e, s, Seen) /\ Same(f, s, Seen)
  BY <1>1, <1>2, <1>3, <1>4, <1>5, SameTwice
<1> QED BY <1>6, <1>7, <1>8, <1>9, SameTwice

LEMMA ResponseObserved ==
  ASSUME NEW s, IsState(s), NEW h, NEW x, NEW phase
  PROVE  Same(ResponseChecks(s, h, x, phase), s, Seen)
<1> DEFINE ph == s.check[h].ph[x]
           c == Report(s, ph # "BEGIN_REQ", "7.2.3 i")
           d == Report(s, ph \notin {"BEGIN_REQ", "END_REQ"}, "7.2.3 i")
           e == Report(d, s.check[h].rsp # Null, "7.2.4 c")
           c1 == [c EXCEPT !.check[h].req = Null]
           v == IF e.check[h].req = x THEN Null ELSE e.check[h].req
           e1 == [e EXCEPT !.check[h].req = v]
           e2 == [e1 EXCEPT !.check[h].rsp = x]
           e3 == [e2 EXCEPT !.check[h].ph[x] = phase]
<1>3. ResponseChecks(s, h, x, phase) =
        IF phase = "END_REQ" THEN [c1 EXCEPT !.check[h].ph[x] = phase]
        ELSE CheckResponsePath(e3, h, x)
  BY DEF ResponseChecks
<1>1. Same(c, s, Seen) /\ Same(d, s, Seen)
  BY Reported
<1> HIDE DEF c, d
<1>2. Same(e, d, Seen)
  BY <1>1, SameState, Reported
<1> HIDE DEF e, v
<1>4. Same(c1, c, Seen) /\ Same(e1, e, Seen)
  BY <1>1, <1>2, SameState, Observed
<1> HIDE DEF c1, e1
<1>5. Same([c1 EXCEPT !.check[h].ph[x] = phase], c1, Seen) /\ Same(e2, e1, Seen)
  BY <1>4, SameState, Observed
<1> HIDE DEF e2
<1>6. Same(e3, e2, Seen)
  BY <1>5, SameState, Observed
<1> HIDE DEF e3
<1>7. Same(CheckResponsePath(e3, h, x), e3, Seen)
  BY <1>6, SameState, ResponsePathObserved
<1> QED BY <1>1, <1>2, <1>3, <1>4, <1>5, <1>6, <1>7, SameTwice

(* What a call returns.                                                    *)
IsResult(r) == r = Result(r.s, r.ret, r.phase) /\ IsState(r.s)

LEMMA Returned ==
  ASSUME NEW s, IsState(s), NEW phase, NEW r, IsResult(r), NEW v
  PROVE  /\ IsResult(Accepted(s, phase)) /\ Accepted(s, phase).s = s
         /\ Accepted(s, phase).ret = "ACCEPTED" /\ Accepted(s, phase).phase = phase
         /\ IsResult(Updated(s, phase)) /\ Updated(s, phase).s = s
         /\ Updated(s, phase).ret = "UPDATED" /\ Updated(s, phase).phase = phase
         /\ IsResult(Completed(s, phase)) /\ Completed(s, phase).s = s
         /\ Completed(s, phase).ret = "COMPLETED" /\ Completed(s, phase).phase = phase
         /\ [r EXCEPT !.s = v].s = v /\ [r EXCEPT !.s = v].ret = r.ret
         /\ [r EXCEPT !.s = v].phase = r.phase
         /\ IsState(v) => IsResult([r EXCEPT !.s = v])
BY DEF IsResult, Result, Accepted, Updated, Completed

LEMMA FwPostObserved ==
  ASSUME NEW r, IsResult(r), NEW h, NEW x
  PROVE  LET q == FwPost(r, h, x)
         IN IsResult(q) /\ Same(q.s, r.s, Seen) /\ q.ret = r.ret /\ q.phase = r.phase
<1> DEFINE c == IF r.phase = "BEGIN_REQ" THEN CheckResponsePath(r.s, h, x) ELSE r.s
           c1 == [c EXCEPT !.check[h].req = Null]
           c2 == [c1 EXCEPT !.check[h].ph[x] = Unused]
           u == ResponseChecks(r.s, h, x, r.phase)
<1>0. IsState(r.s)
  BY DEF IsResult
<1>1. Same(c, r.s, Seen)
  BY <1>0, ResponsePathObserved, Observed
<1>2. Same(u, r.s, Seen)
  BY <1>0, ResponseObserved
<1>3. FwPost(r, h, x) = CASE r.ret = "UPDATED"   -> [r EXCEPT !.s = u]
                          [] r.ret = "COMPLETED" -> [r EXCEPT !.s = c2]
                          [] OTHER -> r
  BY DEF FwPost
<1> HIDE DEF c, u
<1>4. Same(c1, c, Seen)
  BY <1>1, Observed DEF Same
<1> HIDE DEF c1
<1>5. Same(c2, c1, Seen)
  BY <1>4, Observed DEF Same
<1> HIDE DEF c2
<1>6. Same(c2, r.s, Seen) /\ Same(r.s, r.s, Seen)
  BY <1>0, <1>1, <1>4, <1>5, SameTwice, Observed
<1>7. CASE r.ret = "UPDATED"
  <2>1. FwPost(r, h, x) = [r EXCEPT !.s = u]
    BY <1>3, <1>7
  <2> QED BY <1>0, <1>2, <2>1, SameState, Returned
<1>8. CASE r.ret = "COMPLETED"
  <2>1. FwPost(r, h, x) = [r EXCEPT !.s = c2]
    BY <1>3, <1>8
  <2> QED BY <1>0, <1>6, <2>1, SameState, Returned
<1>9. CASE r.ret # "UPDATED" /\ r.ret # "COMPLETED"
  BY <1>3, <1>6, <1>9
<1> QED BY <1>7, <1>8, <1>9

LEMMA BwObserved ==
  ASSUME NEW s, IsState(s), NEW r, IsResult(r), NEW h, NEW x, NEW phase
  PROVE  /\ Same(BwPre(s, h, x, phase), s, Seen)
         /\ LET q == BwPost(r, h, x)
            IN IsResult(q) /\ Same(q.s, r.s, Seen) /\ q.ret = r.ret /\ q.phase = r.phase
<1>1. Same(BwPre(s, h, x, phase), s, Seen)
  <2> DEFINE c == Report(s, s.trans[x].ref = 0, "6.5 s")
  <2>1. Same(c, s, Seen)
    BY Reported
  <2> HIDE DEF c
  <2>2. Same(ResponseChecks(c, h, x, phase), c, Seen)
    BY <2>1, ResponseObserved DEF Same
  <2> QED BY <2>1, <2>2, SameTwice DEF BwPre, c
<1>2. LET q == BwPost(r, h, x)
      IN IsResult(q) /\ Same(q.s, r.s, Seen) /\ q.ret = r.ret /\ q.phase = r.phase
  <2> DEFINE a == [r.s EXCEPT !.check[h].rsp = Null]
             b == [a EXCEPT !.check[h].ph[x] = Unused]
  <2>0. IsState(r.s)
    BY DEF IsResult
  <2>1. BwPost(r, h, x) = IF r.ret = "COMPLETED" THEN [r EXCEPT !.s = b] ELSE r
      <3> DEFINE q == [r EXCEPT !.s.check[h].rsp = Null]
    <3>1. q = [r EXCEPT !.s = a]
      OBVIOUS
    <3>2. r = [f \in {"s", "ret", "phase"} |-> r[f]]
      BY DEF IsResult, Result
    <3>3. q.s = a
      BY <3>1, <3>2
    <3>4. [q EXCEPT !.s.check[h].ph[x] = Unused] = [q EXCEPT !.s = b]
      BY <3>3
    <3> HIDE DEF a, b
    <3>5. [q EXCEPT !.s = b] = [r EXCEPT !.s = b]
      BY <3>1, <3>2
    <3> QED BY <3>4, <3>5 DEF BwPost
  <2>2. Same(a, r.s, Seen)
    BY <2>0, Observed
  <2> HIDE DEF a
  <2>3. Same(b, a, Seen)
    BY <2>2, Observed DEF Same
  <2> HIDE DEF b
  <2>4. Same(b, r.s, Seen) /\ Same(r.s, r.s, Seen)
    BY <2>0, <2>2, <2>3, SameTwice, Observed
  <2> QED BY <2>1, <2>4, Returned DEF Same
<1> QED BY <1>1, <1>2

-----------------------------------------------------------------------------
(* A transaction in hand is found nowhere, and what becomes of it is       *)
(* nothing to the others.                                                  *)
Others(r, s, q, p, x) ==
  \A y \in Trans : y # x => q[y] = p[y] /\ r.trans[y] = s.trans[y]

LEMMA KeepInitiating ==
  ASSUME NEW s, NEW p, NEW r, NEW q, NEW x, Typed(s), Initiating(s, p), Others(r, s, q, p, x),
         r.init = s.init, p[x] # "cur",
         \A i \in Inits : s.init[i].req = x =>
           q[x] \in ByInitiator \ {"cur"} /\ (q[x] # "new" => r.trans[x].init = i)
  PROVE  Initiating(r, q)
<1>1. \A i \in Inits : s.init[i].cur \in Trans \cup {Null} /\ s.init[i].req \in Trans \cup {Null}
  BY DEF Typed, InitT, Pointer
<1>2. \A i \in Inits : s.init[i].cur # Null => q[s.init[i].cur] = "cur"
  BY <1>1 DEF Initiating, Others
<1>3. ASSUME NEW i \in Inits, s.init[i].req # Null
      PROVE  LET y == s.init[i].req
             IN q[y] \in ByInitiator \ {"cur"} /\ (q[y] # "new" => r.trans[y].init = i)
  BY <1>1, <1>3 DEF Initiating, Others
<1> QED BY <1>2, <1>3 DEF Initiating

LEMMA KeepQueued ==
  ASSUME NEW s, NEW p, NEW r, NEW q, NEW x, Typed(s), Queued(s, p), Others(r, s, q, p, x),
         r.req_queue = s.req_queue, r.rsp_queue = s.rsp_queue, p[x] \notin ByQueue
  PROVE  Queued(r, q)
<1>1. ASSUME NEW t \in Targets, NEW k \in 1..Len(s.req_queue[t])
      PROVE  s.req_queue[t][k] \in Trans
  BY <1>1 DEF Typed
<1>2. ASSUME NEW i \in Inits, NEW k \in 1..Len(s.rsp_queue[i])
      PROVE  s.rsp_queue[i][k] \in Trans
  BY <1>2 DEF Typed
<1> QED BY <1>1, <1>2 DEF Queued, Others, ByQueue

LEMMA KeepPointed ==
  ASSUME NEW s, NEW p, NEW r, NEW q, NEW x, NEW L, Typed(s), Pointed(s, p, L),
         Others(r, s, q, p, x), p[x] \notin {"next", "stalled"},
         \A t \in Targets : /\ r.targ[t].next = s.targ[t].next
                            /\ r.targ[t].stalled = s.targ[t].stalled
  PROVE  Pointed(r, q, L)
<1>1. \A t \in Targets : s.targ[t].next \in Trans \cup {Null} /\ s.targ[t].stalled \in Trans \cup {Null}
  BY DEF Typed, TargT, Pointer
<1> QED BY <1>1 DEF Pointed, Others

LEMMA KeepPosted ==
  ASSUME NEW s, NEW p, NEW r, NEW q, NEW x, Typed(s), Posted(s, p), Others(r, s, q, p, x),
         r.peq = s.peq, \A t \in Targets : r.targ[t].type = s.targ[t].type,
         p[x] \notin {"begin_req", "internal", "begin_resp", "end_resp"},
         p[x] = "accepted" => q[x] \in {"accepted", "internal"}
  PROVE  Posted(r, q)
<1>1. \A e \in DOMAIN s.peq : e.trans \in Trans /\ e.phase \in Phases
  BY DEF Typed, Entry
<1>2. \A e \in DOMAIN s.peq : e.trans = x => e.phase = "END_REQ" /\ p[x] = "accepted"
  BY <1>1 DEF Posted, PlaceOf, Phases
<1> QED BY <1>1, <1>2 DEF Posted, Others

(* The pipelines stay as they are if x stays inside or outside.            *)
LEMMA KeepCounted ==
  ASSUME NEW s, NEW p, NEW r, NEW q, NEW x, Counted(s, p), Others(r, s, q, p, x),
         \A t \in Targets : r.targ[t].type = s.targ[t].type /\ r.targ[t].n_trans = s.targ[t].n_trans,
         x \in Trans,
         \A t \in Targets : s.targ[t].type \in {"A", "B"} =>
           (p[x] \in InPipe /\ s.trans[x].target = t <=> q[x] \in InPipe /\ r.trans[x].target = t)
  PROVE  Counted(r, q)
<1>1. ASSUME NEW t \in Targets, s.targ[t].type \in {"A", "B"}
      PROVE  Pipe(r, q, t) = Pipe(s, p, t)
  BY <1>1 DEF Pipe, Others
<1> QED BY <1>1 DEF Counted

LEMMA KeepReferenced ==
  ASSUME NEW s, NEW p, NEW r, NEW q, NEW x, NEW h, NEW g, Referenced(s, p, h), Others(r, s, q, p, x),
         \A y \in Trans : y = g => y = h \/ y = x,
         x \in Trans => r.trans[x].ref >= Need(q[x], r.trans[x].dont_propagate_fw) + One(x = g),
         \A y \in Trans : s.trans[y].ref \in Int
  PROVE  Referenced(r, q, g)
<1> SUFFICES ASSUME NEW y \in Trans, y # x
             PROVE  r.trans[y].ref >= Need(q[y], r.trans[y].dont_propagate_fw) + One(y = g)
  BY DEF Referenced
<1>1. s.trans[y].ref >= Need(p[y], s.trans[y].dont_propagate_fw) + One(y = h)
  BY DEF Referenced
<1>2. Need(p[y], s.trans[y].dont_propagate_fw) \in Int
  BY DEF Need, One
<1>3. One(y = h) \in {0, 1} /\ One(y = g) \in {0, 1} /\ One(y = g) <= One(y = h)
  BY DEF One
<1>4. q[y] = p[y] /\ r.trans[y] = s.trans[y]
  BY DEF Others
<1> QED BY <1>1, <1>2, <1>3, <1>4

LEMMA KeepAtOnce ==
  ASSUME NEW s, NEW p, NEW r, NEW q, NEW x, Typed(s), AtOnce(s, p), Others(r, s, q, p, x),
         \A t \in Targets : r.targ[t].type = s.targ[t].type,
         x \in Trans => (q[x] \in Routed /\ r.trans[x].dont_propagate_fw =>
                           r.targ[r.trans[x].target].type = "E")
  PROVE  AtOnce(r, q)
<1>1. \A y \in Trans : s.trans[y].target \in Targets
  BY DEF Typed, TransT
<1> QED BY <1>1 DEF AtOnce, Others

(* What the invariant is about.                                            *)
Core == {"init", "targ", "req", "rsp", "req_queue", "rsp_queue", "trans", "peq", "overdue",
         "runnable"}

Unchanged(r, s, fields) == \A f \in fields : r[f] = s[f]

LEMMA SameCore ==
  ASSUME NEW s, NEW r, NEW S, Same(r, s, S)
  PROVE  Unchanged(r, s, Core \ S)
BY DEF Same, Unchanged, Core, Fields

(* r is s but for the transaction x.                                       *)
OnlyTrans(r, s, x) ==
  /\ IsState(r) /\ Unchanged(r, s, Core \ {"trans"}) /\ r.trans \in [Trans -> TransT]
  /\ \A y \in Trans : y # x => r.trans[y] = s.trans[y]

(* A transaction in hand changes: its record, its place, or both.          *)
MayBecome(s, p, h, x, k, u, g) ==
  /\ p[x] \in InHand /\ k \in InHand /\ (p[x] = "accepted" => k = "accepted")
  /\ \A y \in Trans : y = g => y = h \/ y = x
  /\ u.ref >= Need(k, u.dont_propagate_fw) + One(x = g)
  /\ k \in Routed /\ u.dont_propagate_fw => s.targ[u.target].type = "E"
  /\ \A i \in Inits : s.init[i].req = x =>
       k \in ByInitiator \ {"cur"} /\ (k # "new" => u.init = i)
  /\ \A t \in Targets : s.targ[t].type \in {"A", "B"} =>
       (p[x] \in InPipe /\ s.trans[x].target = t <=> k \in InPipe /\ u.target = t)

LEMMA InHandStep ==
  ASSUME NEW s, NEW p, NEW h, NEW L, Sound(s, p, h, L),
         NEW x \in Trans, NEW k, NEW g, NEW r, OnlyTrans(r, s, x),
         MayBecome(s, p, h, x, k, r.trans[x], g)
  PROVE  Sound(r, [p EXCEPT ![x] = k], g, L)
<1> USE DEF MayBecome
<1> DEFINE q == [p EXCEPT ![x] = k]
<1>0. /\ IsState(r) /\ Unchanged(r, s, Core \ {"trans"}) /\ r.trans \in [Trans -> TransT]
      /\ \A y \in Trans : y # x => r.trans[y] = s.trans[y]
  BY DEF OnlyTrans
<1>1. /\ r.init = s.init /\ r.targ = s.targ /\ r.req = s.req /\ r.rsp = s.rsp
      /\ r.req_queue = s.req_queue /\ r.rsp_queue = s.rsp_queue /\ r.peq = s.peq /\ r.overdue = s.overdue
      /\ r.runnable = s.runnable
  BY <1>0 DEF Unchanged, Core
<1>2. /\ Typed(s) /\ p \in [Trans -> Places] /\ Watched(s) /\ Initiating(s, p) /\ Queued(s, p)
      /\ Pointed(s, p, L) /\ Posted(s, p) /\ Counted(s, p) /\ Referenced(s, p, h)
      /\ AtOnce(s, p) /\ Awake(s)
  BY DEF Sound
<1>3. q \in [Trans -> Places] /\ q[x] = k /\ Others(r, s, q, p, x)
  BY <1>0, <1>2 DEF Others, Places
<1> HIDE DEF q
<1>4. Typed(r)
  BY <1>0, <1>1, <1>2 DEF Typed
<1>5. Watched(r) /\ Awake(r)
  BY <1>1, <1>2 DEF Watched, Awake
<1>6. Initiating(r, q)
  BY <1>1, <1>2, <1>3, KeepInitiating DEF InHand
<1>7. Queued(r, q) /\ Pointed(r, q, L)
  BY <1>1, <1>2, <1>3, KeepQueued, KeepPointed DEF InHand, ByQueue
<1>8. Posted(r, q)
  BY <1>1, <1>2, <1>3, KeepPosted DEF InHand
<1>9. Counted(r, q)
  BY <1>1, <1>2, <1>3, KeepCounted
<1>10. Referenced(r, q, g)
  <2>1. \A y \in Trans : s.trans[y].ref \in Int
    BY <1>2 DEF Typed, TransT
  <2> QED BY <1>2, <1>3, <2>1, KeepReferenced
<1>11. AtOnce(r, q)
  BY <1>1, <1>2, <1>3, KeepAtOnce
<1> QED BY <1>3, <1>4, <1>5, <1>6, <1>7, <1>8, <1>9, <1>10, <1>11 DEF Sound, q

SameRoute(u, v) ==
  u.init = v.init /\ u.target = v.target /\ u.dont_propagate_fw = v.dont_propagate_fw

SameRoutes(r, s) == \A y \in Trans : SameRoute(r.trans[y], s.trans[y])

(* The references to a transaction and its status change, and the process  *)
(* that runs takes one or gives one back; its place does not matter.       *)
LEMMA Recount ==
  ASSUME NEW s, NEW p, NEW h, NEW L, Sound(s, p, h, L), NEW x \in Trans,
         NEW r, OnlyTrans(r, s, x), SameRoute(r.trans[x], s.trans[x]),
         NEW g, \A y \in Trans : y = g => y = h \/ y = x,
         r.trans[x].ref >= Need(p[x], s.trans[x].dont_propagate_fw) + One(x = g)
  PROVE  Sound(r, p, g, L)
<1>0. /\ IsState(r) /\ Unchanged(r, s, Core \ {"trans"}) /\ r.trans \in [Trans -> TransT]
      /\ \A y \in Trans : y # x => r.trans[y] = s.trans[y]
  BY DEF OnlyTrans
<1>1. /\ r.init = s.init /\ r.targ = s.targ /\ r.req = s.req /\ r.rsp = s.rsp
      /\ r.req_queue = s.req_queue /\ r.rsp_queue = s.rsp_queue /\ r.peq = s.peq /\ r.overdue = s.overdue
      /\ r.runnable = s.runnable
  BY <1>0 DEF Unchanged, Core
<1>2. /\ Typed(s) /\ p \in [Trans -> Places] /\ Watched(s) /\ Initiating(s, p) /\ Queued(s, p)
      /\ Pointed(s, p, L) /\ Posted(s, p) /\ Counted(s, p) /\ Referenced(s, p, h)
      /\ AtOnce(s, p) /\ Awake(s)
  BY DEF Sound
<1>3. \A y \in Trans : /\ r.trans[y].init = s.trans[y].init /\ r.trans[y].target = s.trans[y].target
                     /\ r.trans[y].dont_propagate_fw = s.trans[y].dont_propagate_fw
  BY <1>0 DEF SameRoute
<1>4. Typed(r)
  BY <1>0, <1>1, <1>2 DEF Typed
<1>5. Watched(r) /\ Awake(r)
  BY <1>1, <1>2 DEF Watched, Awake
<1>6. Initiating(r, p)
  <2>1. \A i \in Inits : s.init[i].req # Null => s.init[i].req \in Trans
    BY <1>2 DEF Typed, InitT, Pointer
  <2> QED BY <1>1, <1>2, <1>3, <2>1 DEF Initiating
<1>7. Queued(r, p)
  <2>1. ASSUME NEW t \in Targets, NEW k \in 1..Len(s.req_queue[t]) PROVE s.req_queue[t][k] \in Trans
    BY <1>2, <2>1 DEF Typed
  <2>2. ASSUME NEW i \in Inits, NEW k \in 1..Len(s.rsp_queue[i]) PROVE s.rsp_queue[i][k] \in Trans
    BY <1>2, <2>2 DEF Typed
  <2> QED BY SMTT(30), <1>1, <1>2, <1>3, <2>1, <2>2 DEF Queued
<1>8. Pointed(r, p, L)
  <2>1. \A t \in Targets : /\ s.targ[t].next # Null => s.targ[t].next \in Trans
                           /\ s.targ[t].stalled # Null => s.targ[t].stalled \in Trans
    BY <1>2 DEF Typed, TargT, Pointer
  <2> QED BY <1>1, <1>2, <1>3, <2>1 DEF Pointed
<1>9. Posted(r, p)
  <2>1. \A e \in DOMAIN s.peq : e.trans \in Trans
    BY <1>2 DEF Typed, Entry
  <2> QED BY <1>1, <1>2, <1>3, <2>1 DEF Posted
<1>10. Counted(r, p)
  <2>1. \A t \in Targets : Pipe(r, p, t) = Pipe(s, p, t)
    BY <1>3 DEF Pipe
  <2> QED BY <1>1, <1>2, <2>1 DEF Counted
<1>11. Referenced(r, p, g)
  <2>1. \A y \in Trans : s.trans[y].ref \in Int
    BY <1>2 DEF Typed, TransT
  <2>2. Others(r, s, p, p, x)
    BY <1>0 DEF Others
  <2>3. r.trans[x].ref >= Need(p[x], r.trans[x].dont_propagate_fw) + One(x = g)
    BY <1>3
  <2> QED BY <1>2, <2>1, <2>2, <2>3, KeepReferenced
<1>12. AtOnce(r, p)
  BY <1>1, <1>2, <1>3 DEF AtOnce
<1> QED BY <1>2, <1>4, <1>5, <1>6, <1>7, <1>8, <1>9, <1>10, <1>11, <1>12 DEF Sound

LEMMA SoundParts ==
  ASSUME NEW s, NEW p, NEW h, NEW L, Sound(s, p, h, L)
  PROVE  /\ Typed(s) /\ IsState(s) /\ p \in [Trans -> Places] /\ Watched(s) /\ Initiating(s, p)
         /\ Queued(s, p) /\ Pointed(s, p, L) /\ Posted(s, p) /\ Counted(s, p)
         /\ Referenced(s, p, h) /\ AtOnce(s, p) /\ Awake(s)
BY DEF Sound, Typed

(* The checkers, the assertions and the notification of the processes of   *)
(* the interconnect.                                                       *)
LEMMA Notified ==
  ASSUME NEW s, NEW p, NEW h, NEW L, Sound(s, p, h, L), NEW r, IsState(r),
         Unchanged(r, s, Core \ {"runnable"}),
         \A t \in Targets : <<"send_rsp", t>> \in r.runnable =>
           <<"send_rsp", t>> \in s.runnable \/ (s.targ[t].type = "D" /\ s.targ[t].next # Null)
  PROVE  Sound(r, p, h, L)
<1>1. /\ r.init = s.init /\ r.targ = s.targ /\ r.req = s.req /\ r.rsp = s.rsp
      /\ r.req_queue = s.req_queue /\ r.rsp_queue = s.rsp_queue /\ r.peq = s.peq /\ r.overdue = s.overdue
      /\ r.trans = s.trans
  BY DEF Unchanged, Core
<1>2. Typed(r)
  BY <1>1, SoundParts DEF Typed
<1>3. Watched(r)
  BY <1>1, SoundParts DEF Watched
<1>4. Awake(r)
  BY <1>1, SoundParts DEF Awake
<1>5. Initiating(r, p) /\ Queued(r, p)
  BY <1>1, SoundParts DEF Initiating, Queued
<1>6. Pointed(r, p, L) /\ Posted(r, p)
  BY <1>1, SoundParts DEF Pointed, Posted
<1>7. Counted(r, p)
  BY <1>1, SoundParts DEF Counted, Pipe
<1>8. Referenced(r, p, h) /\ AtOnce(r, p)
  BY <1>1, SoundParts DEF Referenced, AtOnce
<1> QED BY <1>2, <1>3, <1>4, <1>5, <1>6, <1>7, <1>8, SoundParts DEF Sound

LEMMA ObservedSound ==
  ASSUME NEW s, NEW p, NEW h, NEW L, Sound(s, p, h, L), NEW r, Same(r, s, Seen)
  PROVE  Sound(r, p, h, L) /\ Unchanged(r, s, Core)
<1>1. Unchanged(r, s, Core)
  BY DEF Same, Seen, Core, Unchanged, Fields
<1>2. Unchanged(r, s, Core \ {"runnable"}) /\ r.runnable = s.runnable
  BY <1>1 DEF Unchanged, Core
<1> QED BY <1>1, <1>2, SameState, Notified

LEMMA NotifySound ==
  ASSUME NEW s, NEW p, NEW h, NEW L, Sound(s, p, h, L), NEW name \in {"end_req", "end_rsp"}, NEW y
  PROVE  LET r == Notify(s, <<name, y>>)
         IN Sound(r, p, h, L) /\ Unchanged(r, s, Core \ {"runnable"})
<1> DEFINE r == Notify(s, <<name, y>>)
           v == s.runnable \cup {<<name, y>>}
<1>1. IsState(s)
  BY SoundParts
<1>2. r = s \/ r = [s EXCEPT !.runnable = v]
  BY DEF Notify
<1>3. IsState(r) /\ Unchanged(r, s, Core \ {"runnable"}) /\ (r.runnable = s.runnable \/ r.runnable = v)
  <2>1. CASE r = s
    BY <1>1, <2>1 DEF Unchanged
  <2>2. CASE r = [s EXCEPT !.runnable = v]
    <3> HIDE DEF r, v
    <3>1. Same(r, s, {"runnable"}) /\ r.runnable = v
      BY <1>1, <2>2, SetToo
    <3> QED BY <3>1, SameCore, SameState
  <2> QED BY <1>2, <2>1, <2>2
<1> HIDE DEF r
<1>4. \A t \in Targets : <<"send_rsp", t>> \in r.runnable => <<"send_rsp", t>> \in s.runnable
  BY <1>3
<1>5. Sound(r, p, h, L)
  BY <1>3, <1>4, Notified
<1> QED BY <1>3, <1>5 DEF r

-----------------------------------------------------------------------------
(* References and answers.                                                 *)
LEMMA TransField ==
  ASSUME NEW s, NEW p, NEW h, NEW L, Sound(s, p, h, L), NEW x \in Trans
  PROVE  /\ s.trans \in [Trans -> TransT] /\ s.trans[x] \in TransT
         /\ s.trans[x].ref \in Int /\ s.trans[x].adr \in Targets /\ s.trans[x].init \in Inits
         /\ s.trans[x].status \in {"INCOMPLETE", "OK", "ERROR"}
         /\ s.trans[x].target \in Targets /\ s.trans[x].dont_propagate_fw \in BOOLEAN
         /\ s.trans[x].ref >= Need(p[x], s.trans[x].dont_propagate_fw) + One(x = h)
         /\ Need(p[x], s.trans[x].dont_propagate_fw) \in Nat /\ One(x = h) \in Nat
<1>1. s.trans \in [Trans -> TransT] /\ s.trans[x] \in TransT
  BY SoundParts DEF Typed
<1>2. Need(p[x], s.trans[x].dont_propagate_fw) \in Nat /\ One(x = h) \in Nat
  BY DEF Need, One
<1>3. s.trans[x].ref >= Need(p[x], s.trans[x].dont_propagate_fw) + One(x = h)
  BY SoundParts DEF Referenced
<1> QED BY <1>1, <1>2, <1>3 DEF TransT

Replaced(v, w, x, u) ==
  v \in [Trans -> TransT] /\ v[x] = u /\ \A y \in Trans : y # x => v[y] = w[y]

LEMMA Replacing ==
  ASSUME NEW w \in [Trans -> TransT], NEW x \in Trans, NEW u \in TransT
  PROVE  Replaced([w EXCEPT ![x] = u], w, x, u)
BY DEF Replaced

LEMMA Update ==
  ASSUME NEW s, NEW p, NEW h, NEW L, Sound(s, p, h, L), NEW x \in Trans, NEW u \in TransT,
         NEW r, Same(r, s, {"trans", "faults"}), Replaced(r.trans, s.trans, x, u)
  PROVE  OnlyTrans(r, s, x) /\ r.trans[x] = u /\ (SameRoute(u, s.trans[x]) => SameRoutes(r, s))
<1>2. Unchanged(r, s, Core \ {"trans"}) /\ IsState(r)
  BY DEF Same, Unchanged, Core, Fields
<1>3. /\ r.trans \in [Trans -> TransT] /\ r.trans[x] = u
      /\ \A y \in Trans : y # x => r.trans[y] = s.trans[y]
  BY DEF Replaced
<1>4. SameRoute(u, s.trans[x]) => SameRoutes(r, s)
  BY <1>3 DEF SameRoutes, SameRoute
<1> QED BY <1>2, <1>3, <1>4 DEF OnlyTrans

LEMMA AcquireSound ==
  ASSUME NEW s, NEW p, NEW h, NEW L, Sound(s, p, h, L), NEW x \in Trans
  PROVE  LET r == Acquire(s, x)
         IN /\ Sound(r, p, h, L) /\ (h = Null => Sound(r, p, x, L))
            /\ OnlyTrans(r, s, x) /\ SameRoutes(r, s) /\ r.trans[x].ref = s.trans[x].ref + 1
<1> DEFINE r == Acquire(s, x)
           u == [s.trans[x] EXCEPT !.ref = s.trans[x].ref + 1]
           v == [s.trans EXCEPT ![x] = u]
<1>1. /\ s.trans[x] \in TransT /\ s.trans[x].ref \in Int
      /\ s.trans[x].ref >= Need(p[x], s.trans[x].dont_propagate_fw) + One(x = h)
      /\ Need(p[x], s.trans[x].dont_propagate_fw) \in Nat /\ One(x = h) \in Nat
  BY TransField
<1>2. r = [s EXCEPT !.trans = v]
  BY DEF Acquire
<1>3. u \in TransT /\ SameRoute(u, s.trans[x]) /\ u.ref = s.trans[x].ref + 1
  BY <1>1 DEF TransT, SameRoute
<1> HIDE DEF r, u
<1>4. Same(r, s, {"trans"}) /\ r.trans = v
  BY <1>2, SoundParts, SetToo
<1>5. Same(r, s, {"trans", "faults"})
  BY <1>4, SameMore
<1>d. Replaced(v, s.trans, x, u)
  BY <1>3, TransField, Replacing
<1> HIDE DEF v
<1>6. OnlyTrans(r, s, x) /\ SameRoutes(r, s) /\ r.trans[x] = u
  BY <1>3, <1>4, <1>5, <1>d, Update
<1>7. Sound(r, p, h, L)
  <2>1. u.ref >= Need(p[x], s.trans[x].dont_propagate_fw) + One(x = h)
    BY <1>1, <1>3
  <2> QED BY <1>3, <1>6, <2>1, Recount
<1>8. ASSUME h = Null PROVE Sound(r, p, x, L)
  <2>1. x # Null /\ One(x = h) = 0 /\ One(x = x) = 1
    BY <1>8, TLMAssumption DEF Null, One
  <2>2. u.ref >= Need(p[x], s.trans[x].dont_propagate_fw) + One(x = x)
    BY <1>1, <1>3, <2>1
  <2> QED BY <1>3, <1>6, <2>2, Recount
<1> QED BY <1>3, <1>6, <1>7, <1>8 DEF r

LEMMA Released ==
  ASSUME NEW s, NEW p, NEW h, NEW L, Sound(s, p, h, L), NEW x \in Trans
  PROVE  LET r == Release(s, x)
         IN /\ OnlyTrans(r, s, x) /\ SameRoutes(r, s) /\ SameRoute(r.trans[x], s.trans[x])
            /\ r.trans[x].ref = s.trans[x].ref - 1
<1> DEFINE r == Release(s, x)
           c == Require(s, s.trans[x].ref > 0, "released too often")
           u == [s.trans[x] EXCEPT !.ref = s.trans[x].ref - 1]
           v == [s.trans EXCEPT ![x] = u]
<1>1. s.trans[x] \in TransT /\ s.trans[x].ref \in Int
  BY TransField
<1>2. Same(c, s, {"faults"})
  BY SoundParts, Reported
<1>a. r = [c EXCEPT !.trans[x].ref = @ - 1]
  BY DEF Release
<1> HIDE DEF r, c
<1>b. c.trans = s.trans
  BY <1>2 DEF Same, Fields
<1>c. r = [c EXCEPT !.trans = v]
  BY <1>a, <1>b
<1>3. u \in TransT /\ SameRoute(u, s.trans[x]) /\ u.ref = s.trans[x].ref - 1
  BY <1>1 DEF TransT, SameRoute
<1> HIDE DEF u
<1>4. Same(r, c, {"trans"}) /\ r.trans = v
  BY <1>2, <1>c, SameState, SetToo
<1>5. Same(r, s, {"trans", "faults"})
  BY <1>2, <1>4 DEF Same
<1>d. Replaced(v, s.trans, x, u)
  BY <1>3, TransField, Replacing
<1> HIDE DEF v
<1>6. OnlyTrans(r, s, x) /\ SameRoutes(r, s) /\ r.trans[x] = u
  BY <1>3, <1>4, <1>5, <1>d, Update
<1> QED BY <1>3, <1>6 DEF r

(* The process that runs gives back what it held.                          *)
LEMMA ReleaseHeld ==
  ASSUME NEW s, NEW p, NEW L, NEW x \in Trans, Sound(s, p, x, L)
  PROVE  Sound(Release(s, x), p, Null, L)
<1> DEFINE r == Release(s, x)
<1>1. /\ s.trans[x].ref \in Int
      /\ s.trans[x].ref >= Need(p[x], s.trans[x].dont_propagate_fw) + One(x = x)
      /\ Need(p[x], s.trans[x].dont_propagate_fw) \in Nat
  BY TransField
<1>2. /\ OnlyTrans(r, s, x) /\ SameRoute(r.trans[x], s.trans[x])
      /\ r.trans[x].ref = s.trans[x].ref - 1
  BY Released
<1> HIDE DEF r
<1>3. r.trans[x].ref >= Need(p[x], s.trans[x].dont_propagate_fw) + One(x = Null)
  <2>1. One(x = x) = 1 /\ One(x = Null) = 0
    BY TLMAssumption DEF One, Null
  <2> QED BY <1>1, <1>2, <2>1
<1>4. \A y \in Trans : y = Null => y = x
  BY TLMAssumption DEF Null
<1>5. Sound(r, p, Null, L)
  BY <1>2, <1>3, <1>4, Recount
<1> QED BY <1>5 DEF r

(* One component gives back the transaction it has in hand.                *)
LEMMA ReleaseInHand ==
  ASSUME NEW s, NEW p, NEW h, NEW L, Sound(s, p, h, L), NEW x \in Trans,
         p[x] \in InHand \ {"accepted", "new"}, NEW k \in InHand,
         Need(k, s.trans[x].dont_propagate_fw) + 1 <= Need(p[x], s.trans[x].dont_propagate_fw),
         k \in Routed => p[x] \in Routed,
         \A i \in Inits : s.init[i].req = x => k \in ByInitiator \ {"cur", "new"},
         s.targ[s.trans[x].target].type \in {"A", "B"} => (p[x] \in InPipe <=> k \in InPipe)
  PROVE  Sound(Release(s, x), [p EXCEPT ![x] = k], h, L)
<1> DEFINE r == Release(s, x)
           u == r.trans[x]
<1>1. /\ s.trans[x].ref \in Int /\ s.trans[x].target \in Targets
      /\ s.trans[x].ref >= Need(p[x], s.trans[x].dont_propagate_fw) + One(x = h)
      /\ Need(p[x], s.trans[x].dont_propagate_fw) \in Nat /\ One(x = h) \in Nat
  BY TransField
<1>2. /\ OnlyTrans(r, s, x) /\ SameRoute(u, s.trans[x]) /\ u.ref = s.trans[x].ref - 1
  BY Released
<1> HIDE DEF r
<1>b. /\ u.init = s.trans[x].init /\ u.target = s.trans[x].target
      /\ u.dont_propagate_fw = s.trans[x].dont_propagate_fw
  BY <1>2 DEF SameRoute
<1> HIDE DEF u
<1>3. u.ref >= Need(k, u.dont_propagate_fw) + One(x = h)
  <2>1. Need(k, s.trans[x].dont_propagate_fw) \in Nat
    BY DEF Need, One
  <2> QED BY <1>1, <1>2, <1>b, <2>1
<1>4. k \in Routed /\ u.dont_propagate_fw => s.targ[u.target].type = "E"
  BY <1>b, SoundParts DEF AtOnce
<1>5. \A i \in Inits : s.init[i].req = x => k \in ByInitiator \ {"cur"} /\ (k # "new" => u.init = i)
  <2>1. x # Null
    BY TLMAssumption DEF Null
  <2> QED BY <1>b, <2>1, SoundParts DEF Initiating
<1>6. \A t \in Targets : s.targ[t].type \in {"A", "B"} =>
        (p[x] \in InPipe /\ s.trans[x].target = t <=> k \in InPipe /\ u.target = t)
  BY <1>b
<1>7. MayBecome(s, p, h, x, k, u, h)
  BY <1>3, <1>4, <1>5, <1>6 DEF MayBecome
<1>8. Sound(r, [p EXCEPT ![x] = k], h, L)
  BY <1>2, <1>7, InHandStep DEF u
<1> QED BY <1>8 DEF r

LEMMA AnswerSound ==
  ASSUME NEW s, NEW p, NEW h, NEW L, Sound(s, p, h, L), NEW x \in Trans, NEW w \in {"OK", "ERROR"}
  PROVE  LET r == Answer(s, x, w)
         IN /\ Sound(r, p, h, L) /\ OnlyTrans(r, s, x) /\ SameRoutes(r, s)
            /\ r.trans[x].ref = s.trans[x].ref
<1> DEFINE r == Answer(s, x, w)
           c == Require(s, s.trans[x].ref > 0 /\ s.trans[x].status = "INCOMPLETE",
                        "answered twice or after its end")
           u == [s.trans[x] EXCEPT !.status = w]
           v == [s.trans EXCEPT ![x] = u]
<1>1. /\ s.trans[x] \in TransT /\ s.trans[x].ref \in Int
      /\ s.trans[x].ref >= Need(p[x], s.trans[x].dont_propagate_fw) + One(x = h)
  BY TransField
<1>2. Same(c, s, {"faults"})
  BY SoundParts, Reported
<1>a. r = [c EXCEPT !.trans[x].status = w]
  BY DEF Answer
<1> HIDE DEF r, c
<1>b. c.trans = s.trans
  BY <1>2 DEF Same, Fields
<1>c. r = [c EXCEPT !.trans = v]
  BY <1>a, <1>b
<1>3. u \in TransT /\ SameRoute(u, s.trans[x]) /\ u.ref = s.trans[x].ref
  BY <1>1 DEF TransT, SameRoute
<1> HIDE DEF u
<1>4. Same(r, c, {"trans"}) /\ r.trans = v
  BY <1>2, <1>c, SameState, SetToo
<1>5. Same(r, s, {"trans", "faults"})
  BY <1>2, <1>4 DEF Same
<1>d. Replaced(v, s.trans, x, u)
  BY <1>3, TransField, Replacing
<1> HIDE DEF v
<1>6. OnlyTrans(r, s, x) /\ SameRoutes(r, s) /\ r.trans[x] = u
  BY <1>3, <1>4, <1>5, <1>d, Update
<1>7. Sound(r, p, h, L)
  <2>1. u.ref >= Need(p[x], s.trans[x].dont_propagate_fw) + One(x = h)
    BY <1>1, <1>3
  <2> QED BY <1>3, <1>6, <2>1, Recount
<1> QED BY <1>3, <1>6, <1>7 DEF r

-----------------------------------------------------------------------------
(* A sound state; one where x is at one of the places K; what a call       *)
(* leaves as it is, but for the fields F.                                  *)
Fine(s, h, L) == \E p \in [Trans -> Places] : Sound(s, p, h, L)
At(s, x, K, h, L) == \E p \in [Trans -> Places] : Sound(s, p, h, L) /\ p[x] \in K
Keeps(r, s, F) == Unchanged(r, s, Core \ F) /\ SameRoutes(r, s)

LEMMA Placed ==
  ASSUME NEW s, NEW p, NEW h, NEW L, Sound(s, p, h, L), NEW x, NEW K, p[x] \in K
  PROVE  At(s, x, K, h, L) /\ Fine(s, h, L)
<1>1. p \in [Trans -> Places]
  BY SoundParts
<1> QED BY <1>1 DEF At, Fine

LEMMA AtFine ==
  ASSUME NEW s, NEW x, NEW K, NEW h, NEW L, At(s, x, K, h, L)
  PROVE  Fine(s, h, L) /\ \A M : K \subseteq M => At(s, x, M, h, L)
BY DEF At, Fine

LEMMA FineParts ==
  ASSUME NEW s, NEW h, NEW L, Fine(s, h, L)
  PROVE  Typed(s) /\ IsState(s) /\ Watched(s) /\ Awake(s)
<1>1. PICK p : Sound(s, p, h, L)
  BY DEF Fine
<1> QED BY <1>1, SoundParts

LEMMA AtParts ==
  ASSUME NEW s, NEW x, NEW K, NEW h, NEW L, At(s, x, K, h, L)
  PROVE  Typed(s) /\ IsState(s) /\ Watched(s) /\ Awake(s)
BY AtFine, FineParts

LEMMA FineTrans ==
  ASSUME NEW s, NEW h, NEW L, Fine(s, h, L), NEW x \in Trans
  PROVE  /\ s.trans[x].adr \in Targets /\ s.trans[x].init \in Inits
         /\ s.trans[x].target \in Targets /\ s.trans[x].dont_propagate_fw \in BOOLEAN
<1>1. PICK p : Sound(s, p, h, L)
  BY DEF Fine
<1> QED BY <1>1, TransField

LEMMA AtTrans ==
  ASSUME NEW s, NEW K, NEW h, NEW L, NEW x \in Trans, At(s, x, K, h, L)
  PROVE  /\ s.trans[x].adr \in Targets /\ s.trans[x].init \in Inits
         /\ s.trans[x].target \in Targets /\ s.trans[x].dont_propagate_fw \in BOOLEAN
BY AtFine, FineTrans

LEMMA KeepsMore ==
  ASSUME NEW s, NEW r, NEW q, NEW F, NEW G, NEW H, Keeps(r, s, F), Keeps(q, r, G),
         F \subseteq H, G \subseteq H
  PROVE  Keeps(q, s, H)
BY DEF Keeps, Unchanged, SameRoutes, SameRoute

LEMMA KeepsItself ==
  ASSUME NEW s, NEW F
  PROVE  Keeps(s, s, F)
BY DEF Keeps, Unchanged, SameRoutes, SameRoute

LEMMA SameKeeps ==
  ASSUME NEW s, NEW r, NEW F, Same(r, s, F), "trans" \notin F
  PROVE  IsState(r) /\ Keeps(r, s, F)
<1>1. r.trans = s.trans
  BY DEF Same, Fields
<1>2. SameRoutes(r, s)
  BY <1>1 DEF SameRoutes, SameRoute
<1> QED BY <1>2, SameCore, SameState DEF Keeps

(* What stays when x goes from one place to another.                       *)
Moved(q, p, x, k) ==
  q \in [Trans -> Places] /\ q[x] = k /\ \A y \in Trans : y # x => q[y] = p[y]

LEMMA Moving ==
  ASSUME NEW p \in [Trans -> Places], NEW x \in Trans, NEW k \in Places
  PROVE  Moved([p EXCEPT ![x] = k], p, x, k)
BY DEF Moved

SameTypes(r, s) == \A t \in Targets : r.targ[t].type = s.targ[t].type

LEMMA Kept ==
  ASSUME NEW s, NEW p, NEW h, NEW L, Sound(s, p, h, L), NEW x \in Trans, NEW k, NEW q,
         Moved(q, p, x, k), NEW r, SameTypes(r, s),
         \A y \in Trans : y # x => r.trans[y] = s.trans[y]
  PROVE  /\ r.init = s.init /\ p[x] # "cur"
            /\ (\A i \in Inits : s.init[i].req = x =>
                  k \in ByInitiator \ {"cur"} /\ (k # "new" => r.trans[x].init = i))
            => Initiating(r, q)
         /\ r.req_queue = s.req_queue /\ r.rsp_queue = s.rsp_queue /\ p[x] \notin ByQueue
            => Queued(r, q)
         /\ p[x] \notin {"next", "stalled"}
            /\ (\A t \in Targets : /\ r.targ[t].next = s.targ[t].next
                                   /\ r.targ[t].stalled = s.targ[t].stalled)
            => Pointed(r, q, L)
         /\ r.peq = s.peq /\ p[x] \notin {"begin_req", "internal", "begin_resp", "end_resp"}
            /\ (p[x] = "accepted" => k \in {"accepted", "internal"})
            => Posted(r, q)
         /\ (\A t \in Targets : r.targ[t].n_trans = s.targ[t].n_trans)
            /\ (\A t \in Targets : s.targ[t].type \in {"A", "B"} =>
                 (p[x] \in InPipe /\ s.trans[x].target = t <=> k \in InPipe /\ r.trans[x].target = t))
            => Counted(r, q)
         /\ (k \in Routed /\ r.trans[x].dont_propagate_fw => r.targ[r.trans[x].target].type = "E")
            => AtOnce(r, q)
<1>1. /\ Typed(s) /\ Initiating(s, p) /\ Queued(s, p) /\ Pointed(s, p, L) /\ Posted(s, p)
      /\ Counted(s, p) /\ AtOnce(s, p)
  BY SoundParts
<1>2. Others(r, s, q, p, x) /\ q[x] = k
  BY DEF Others, Moved
<1>t. \A t \in Targets : r.targ[t].type = s.targ[t].type
  BY DEF SameTypes
<1>3. ASSUME r.init = s.init, p[x] # "cur",
             \A i \in Inits : s.init[i].req = x =>
               k \in ByInitiator \ {"cur"} /\ (k # "new" => r.trans[x].init = i)
      PROVE  Initiating(r, q)
  BY <1>1, <1>2, <1>3, KeepInitiating
<1>4. ASSUME r.req_queue = s.req_queue, r.rsp_queue = s.rsp_queue, p[x] \notin ByQueue
      PROVE  Queued(r, q)
  BY <1>1, <1>2, <1>4, KeepQueued
<1>5. ASSUME p[x] \notin {"next", "stalled"},
             \A t \in Targets : /\ r.targ[t].next = s.targ[t].next
                                /\ r.targ[t].stalled = s.targ[t].stalled
      PROVE  Pointed(r, q, L)
  BY <1>1, <1>2, <1>5, KeepPointed
<1>6. ASSUME r.peq = s.peq, p[x] \notin {"begin_req", "internal", "begin_resp", "end_resp"},
             p[x] = "accepted" => k \in {"accepted", "internal"}
      PROVE  Posted(r, q)
  BY <1>1, <1>2, <1>6, <1>t, KeepPosted
<1>7. ASSUME \A t \in Targets : r.targ[t].n_trans = s.targ[t].n_trans,
             \A t \in Targets : s.targ[t].type \in {"A", "B"} =>
               (p[x] \in InPipe /\ s.trans[x].target = t <=> k \in InPipe /\ r.trans[x].target = t)
      PROVE  Counted(r, q)
  BY <1>1, <1>2, <1>7, <1>t, KeepCounted
<1>8. ASSUME k \in Routed /\ r.trans[x].dont_propagate_fw => r.targ[r.trans[x].target].type = "E"
      PROVE  AtOnce(r, q)
  BY <1>1, <1>2, <1>8, <1>t, KeepAtOnce
<1> QED BY <1>3, <1>4, <1>5, <1>6, <1>7, <1>8

LEMMA KeptReferenced ==
  ASSUME NEW s, NEW p, NEW h, NEW L, Sound(s, p, h, L), NEW x \in Trans, NEW k, NEW q,
         Moved(q, p, x, k), NEW r, \A y \in Trans : y # x => r.trans[y] = s.trans[y],
         NEW g, \A y \in Trans : y = g => y = h \/ y = x,
         r.trans[x].ref >= Need(k, r.trans[x].dont_propagate_fw) + One(x = g)
  PROVE  Referenced(r, q, g)
<1>1. \A y \in Trans : s.trans[y].ref \in Int
  BY TransField
<1>2. Others(r, s, q, p, x) /\ q[x] = k
  BY DEF Others, Moved
<1> QED BY <1>1, <1>2, SoundParts, KeepReferenced

(* The references when nobody takes one or gives one back.                 *)
LEMMA SameReferenced ==
  ASSUME NEW s, NEW p, NEW h, NEW L, Sound(s, p, h, L), NEW x \in Trans, NEW k, NEW q,
         Moved(q, p, x, k), NEW r, r.trans = s.trans,
         NEW g, \A y \in Trans : y = g => y = h \/ y = x,
         Need(k, s.trans[x].dont_propagate_fw) + One(x = g)
           <= Need(p[x], s.trans[x].dont_propagate_fw) + One(x = h)
  PROVE  Referenced(r, q, g)
<1>1. /\ s.trans[x].ref \in Int
      /\ s.trans[x].ref >= Need(p[x], s.trans[x].dont_propagate_fw) + One(x = h)
      /\ Need(p[x], s.trans[x].dont_propagate_fw) + One(x = h) \in Int
  BY TransField
<1>2. Need(k, s.trans[x].dont_propagate_fw) + One(x = g) \in Int
  BY DEF Need, One
<1>3. r.trans[x].ref >= Need(k, r.trans[x].dont_propagate_fw) + One(x = g)
  BY <1>1, <1>2
<1> QED BY <1>3, KeptReferenced

-----------------------------------------------------------------------------
(* Event queues: an entry comes and goes.                                  *)
More(C, B, e) ==
  /\ IsABag(C) /\ DOMAIN C = DOMAIN B \cup {e}
  /\ e \notin DOMAIN B => C[e] = 1
  /\ \A f \in DOMAIN B : f # e => C[f] = B[f]

LEMMA BagMore ==
  ASSUME NEW B, IsABag(B), NEW e
  PROVE  More(B (+) SetToBag({e}), B, e)
BY DEF More, IsABag, (+), SetToBag

Less(C, B, e) ==
  /\ IsABag(C) /\ DOMAIN C \subseteq DOMAIN B
  /\ B[e] = 1 => e \notin DOMAIN C
  /\ \A f \in DOMAIN C : f # e => C[f] = B[f]

LEMMA BagLess ==
  ASSUME NEW B, IsABag(B), NEW e \in DOMAIN B
  PROVE  Less(B (-) SetToBag({e}), B, e)
BY DEF Less, IsABag, (-), SetToBag

(* One goes, and with it all those of S.                                   *)
LEMMA BagLessAll ==
  ASSUME NEW B, IsABag(B), NEW S, S \subseteq DOMAIN B, NEW e \in DOMAIN B, e \notin S
  PROVE  LET C == (B (-) [f \in S |-> B[f]]) (-) SetToBag({e})
         IN Less(C, B, e) /\ \A f \in DOMAIN C : f \notin S
<1> DEFINE D == B (-) [f \in S |-> B[f]]
<1>1. IsABag(D) /\ DOMAIN D = DOMAIN B \ S /\ \A f \in DOMAIN D : D[f] = B[f]
  BY DEF IsABag, (-)
<1> HIDE DEF D
<1>2. Less(D (-) SetToBag({e}), D, e)
  BY <1>1, BagLess
<1> QED BY <1>1, <1>2 DEF Less, D

(* C is B with all those of S that are in A.                               *)
Joins(C, B, A, S) ==
  /\ IsABag(C) /\ DOMAIN C = DOMAIN B \cup S
  /\ \A f \in DOMAIN B : f \notin S => C[f] = B[f]
  /\ \A f \in S : f \notin DOMAIN B => C[f] = A[f]

LEMMA BagJoins ==
  ASSUME NEW A, IsABag(A), NEW B, IsABag(B), NEW S, S \subseteq DOMAIN A
  PROVE  Joins(B (+) [f \in S |-> A[f]], B, A, S)
<1> DEFINE D == [f \in S |-> A[f]]
<1>1. IsABag(D) /\ DOMAIN D = S /\ \A f \in S : D[f] = A[f]
  BY DEF IsABag
<1> HIDE DEF D
<1>2. IsABag(B (+) D) /\ DOMAIN (B (+) D) = DOMAIN B \cup S
  BY <1>1 DEF IsABag, (+)
<1>3. \A f \in DOMAIN B : f \notin S => (B (+) D)[f] = B[f]
  BY <1>1 DEF IsABag, (+)
<1>4. \A f \in S : f \notin DOMAIN B => (B (+) D)[f] = A[f]
  BY <1>1 DEF IsABag, (+)
<1>5. Joins(B (+) D, B, A, S)
  BY <1>2, <1>3, <1>4 DEF Joins
<1> QED BY <1>5 DEF D

(* A transaction in hand may be posted where it is looked for.             *)
MayPost(s, p, x, at, phase) ==
  /\ \/ phase = "BEGIN_REQ" /\ p[x] = "sent" /\ s.trans[x].target = at
     \/ phase = "internal_ph" /\ p[x] = "accepted" /\ s.trans[x].target = at
     \/ phase = "BEGIN_RESP" /\ p[x] = "served" /\ s.trans[x].init = at
     \/ phase = "END_RESP" /\ p[x] = "answered" /\ s.trans[x].target = at
        /\ ~s.trans[x].dont_propagate_fw
  /\ phase # "BEGIN_RESP" => s.targ[at].type \in {"A", "B", "C"}

LEMMA PostedToo ==
  ASSUME NEW s, NEW p, NEW h, NEW L, Sound(s, p, h, L), NEW x \in Trans, NEW at, NEW phase,
         MayPost(s, p, x, at, phase), NEW q, Moved(q, p, x, PlaceOf[phase]),
         NEW r, r.peq = Post(s, at, x, phase).peq, r.trans = s.trans, SameTypes(r, s)
  PROVE  Posted(r, q) /\ IsABag(r.peq) /\ DOMAIN r.peq \subseteq Entry
<1> DEFINE e == [at |-> at, trans |-> x, phase |-> phase]
<1>0. /\ IsState(s) /\ IsABag(s.peq) /\ DOMAIN s.peq \subseteq Entry /\ Posted(s, p)
  BY SoundParts DEF Typed
<1>1. r.peq = s.peq (+) SetToBag({e})
  BY <1>0 DEF Post, IsState, Fields
<1>2. e \in Entry /\ (at \in Inits \/ at \in Targets) /\ phase \in Phases \ {"END_REQ"}
  <2>1. s.trans[x].init \in Inits /\ s.trans[x].target \in Targets
    BY TransField
  <2> QED BY <2>1 DEF MayPost, Entry, Hops, Phases
<1>e. e.at = at /\ e.trans = x /\ e.phase = phase
  OBVIOUS
<1>3. e \notin DOMAIN s.peq
  <2>1. p[x] # PlaceOf[phase]
    BY DEF MayPost, PlaceOf, Phases
  <2> QED BY <1>0, <1>2, <1>e, <2>1 DEF Posted
<1> HIDE DEF e
<1>4. /\ IsABag(r.peq) /\ DOMAIN r.peq = DOMAIN s.peq \cup {e} /\ r.peq[e] = 1
      /\ \A f \in DOMAIN s.peq : r.peq[f] = s.peq[f]
  <2>1. More(r.peq, s.peq, e)
    BY <1>0, <1>1, BagMore
  <2> QED BY <1>3, <2>1 DEF More
<1>5. \A f \in DOMAIN s.peq : f.trans = x => f.phase = "END_REQ" /\ p[x] = "accepted"
  <2>1. p[x] \notin {"begin_req", "internal", "begin_resp", "end_resp"}
    BY DEF MayPost
  <2>2. \A f \in DOMAIN s.peq : f.phase \in Phases
    BY <1>0 DEF Entry
  <2> QED BY <1>0, <2>1, <2>2 DEF Posted, PlaceOf, Phases
<1>6. \A f \in DOMAIN s.peq : f.trans \in Trans /\ f.phase \in Phases
  BY <1>0 DEF Entry
<1>7. ASSUME NEW f \in DOMAIN s.peq
      PROVE  /\ f.phase = "END_REQ" => f.at \in Inits /\ q[f.trans] \in {"accepted", "internal"}
             /\ f.phase # "END_REQ" => r.peq[f] = 1 /\ q[f.trans] = PlaceOf[f.phase]
             /\ f.phase = "BEGIN_RESP" => f.at \in Inits /\ r.trans[f.trans].init = f.at
             /\ f.phase \in {"BEGIN_REQ", "internal_ph", "END_RESP"} =>
                  /\ f.at \in Targets /\ r.trans[f.trans].target = f.at
                  /\ r.targ[f.at].type \in {"A", "B", "C"}
  <2>1. f.trans = x => q[x] = "internal"
    BY <1>5 DEF MayPost, Moved, PlaceOf, Phases
  <2>2. f.trans # x => q[f.trans] = p[f.trans]
    BY <1>6 DEF Moved
  <2> QED BY <1>0, <1>4, <1>5, <1>6, <2>1, <2>2 DEF Posted, SameTypes
<1>8. /\ q[e.trans] = PlaceOf[e.phase] /\ e.phase # "END_REQ"
      /\ e.phase = "BEGIN_RESP" => e.at \in Inits /\ r.trans[e.trans].init = e.at
      /\ e.phase \in {"BEGIN_REQ", "internal_ph", "END_RESP"} =>
           /\ e.at \in Targets /\ r.trans[e.trans].target = e.at
           /\ r.targ[e.at].type \in {"A", "B", "C"}
  <2>1. s.trans[x].init \in Inits /\ s.trans[x].target \in Targets
    BY TransField
  <2> QED BY <1>2, <1>e, <2>1 DEF MayPost, Moved, SameTypes
<1>9. Posted(r, q)
  BY <1>4, <1>7, <1>8 DEF Posted
<1> QED BY <1>0, <1>2, <1>4, <1>9 DEF e


LEMMA PostSame ==
  ASSUME NEW s, IsState(s), NEW at, NEW x, NEW phase
  PROVE  LET r == Post(s, at, x, phase)
         IN Same(r, s, {"peq"}) /\ r.trans = s.trans /\ r.targ = s.targ /\ r.self = s.self
<1> DEFINE r == Post(s, at, x, phase)
           v == s.peq (+) SetToBag({[at |-> at, trans |-> x, phase |-> phase]})
<1>1. r = [s EXCEPT !.peq = v]
  BY DEF Post
<1> HIDE DEF r, v
<1>2. Same(r, s, {"peq"})
  BY <1>1, SetToo
<1> QED BY <1>2 DEF r, Same, Fields

LEMMA PostSound ==
  ASSUME NEW s, NEW p, NEW h, NEW L, Sound(s, p, h, L), NEW x \in Trans, NEW at, NEW phase,
         MayPost(s, p, x, at, phase), phase = "internal_ph" => s.targ[at].type = "C"
  PROVE  LET r == Post(s, at, x, phase)
         IN Sound(r, [p EXCEPT ![x] = PlaceOf[phase]], h, L) /\ Keeps(r, s, {"peq"})
<1> DEFINE r == Post(s, at, x, phase)
           k == PlaceOf[phase]
           q == [p EXCEPT ![x] = k]
<1>0. Same(r, s, {"peq"}) /\ r.trans = s.trans /\ r.targ = s.targ
  BY SoundParts, PostSame
<1>a. <<p[x], k>> \in {<<"sent", "begin_req">>, <<"accepted", "internal">>,
                       <<"served", "begin_resp">>, <<"answered", "end_resp">>}
  BY DEF MayPost, PlaceOf, Phases
<1>b. k = "end_resp" => ~s.trans[x].dont_propagate_fw
  BY DEF MayPost, PlaceOf, Phases
<1>c. k = "internal" => s.targ[s.trans[x].target].type = "C"
  BY DEF MayPost, PlaceOf, Phases
<1>1. Moved(q, p, x, k)
  <2>1. p \in [Trans -> Places] /\ k \in Places
    BY <1>a, SoundParts DEF Places
  <2> HIDE DEF k
  <2> QED BY <2>1, Moving
<1>2. SameTypes(r, s) /\ \A y \in Trans : y # x => r.trans[y] = s.trans[y]
  BY <1>0 DEF SameTypes
<1>p. Posted(r, q) /\ IsABag(r.peq) /\ DOMAIN r.peq \subseteq Entry
  <2> HIDE DEF q
  <2>1. r.peq = Post(s, at, x, phase).peq
    OBVIOUS
  <2> HIDE DEF r
  <2> QED BY <1>0, <1>1, <1>2, <2>1, PostedToo DEF k
<1>k. Keeps(r, s, {"peq"})
  BY <1>0, SameKeeps
<1> HIDE DEF r, k, q
<1>3. /\ r.init = s.init /\ r.req_queue = s.req_queue /\ r.rsp_queue = s.rsp_queue /\ r.req = s.req
      /\ r.rsp = s.rsp /\ r.runnable = s.runnable /\ r.overdue = s.overdue /\ IsState(r)
  BY <1>0 DEF Same, Fields
<1>4. Typed(r) /\ Watched(r) /\ Awake(r)
  BY <1>0, <1>3, <1>p, SoundParts DEF Typed, Watched, Awake
<1>5. Initiating(r, q)
  <2>1. x # Null
    BY TLMAssumption DEF Null
  <2>2. \A i \in Inits : s.init[i].req = x =>
          p[x] \in ByInitiator \ {"cur"} /\ (p[x] # "new" => s.trans[x].init = i)
    BY <2>1, SoundParts DEF Initiating
  <2>3. \A i \in Inits : s.init[i].req = x => k \in ByInitiator \ {"cur"} /\ r.trans[x].init = i
    BY <1>0, <1>a, <2>2 DEF ByInitiator
  <2> QED BY <1>a, <1>1, <1>2, <1>3, <2>3, Kept
<1>6. Queued(r, q) /\ Pointed(r, q, L)
  BY <1>0, <1>a, <1>1, <1>2, <1>3, Kept DEF ByQueue
<1>7. Counted(r, q)
  <2>1. \A t \in Targets : s.targ[t].type \in {"A", "B"} =>
          (p[x] \in InPipe /\ s.trans[x].target = t <=> k \in InPipe /\ r.trans[x].target = t)
    BY <1>0, <1>a, <1>c DEF InPipe, ByTarget
  <2> QED BY <1>0, <1>1, <1>2, <2>1, Kept
<1>8. Referenced(r, q, h)
  <2>1. Need(k, s.trans[x].dont_propagate_fw) + One(x = h)
          <= Need(p[x], s.trans[x].dont_propagate_fw) + One(x = h)
    BY <1>a, <1>b DEF Need, One, ByInitiator, ByTarget, ByQueue
  <2> QED BY <1>0, <1>1, <2>1, SameReferenced
<1>9. AtOnce(r, q)
  <2>1. k \in Routed /\ r.trans[x].dont_propagate_fw => r.targ[r.trans[x].target].type = "E"
    BY <1>0, <1>a, SoundParts DEF AtOnce, Routed, Places, InHand
  <2> QED BY <1>1, <1>2, <2>1, Kept
<1>10. Sound(r, q, h, L)
  BY <1>1, <1>4, <1>5, <1>6, <1>7, <1>8, <1>9, <1>p DEF Sound, Moved
<1> QED BY <1>10, <1>k DEF r, k, q

(* END_REQ is posted for a transaction that stays where it is.             *)
LEMMA PostEndReq ==
  ASSUME NEW s, NEW p, NEW h, NEW L, Sound(s, p, h, L), NEW x \in Trans, NEW i \in Inits,
         p[x] \in {"accepted", "internal"}
  PROVE  LET r == Post(s, i, x, "END_REQ")
         IN Sound(r, p, h, L) /\ Keeps(r, s, {"peq"})
<1> DEFINE r == Post(s, i, x, "END_REQ")
           e == [at |-> i, trans |-> x, phase |-> "END_REQ"]
<1>0. Same(r, s, {"peq"}) /\ r.trans = s.trans /\ r.targ = s.targ
  BY SoundParts, PostSame
<1>1. r.peq = s.peq (+) SetToBag({e})
  BY SoundParts DEF Post, IsState, Fields
<1>k. Keeps(r, s, {"peq"})
  BY <1>0, SameKeeps
<1>e. e \in Entry /\ e.at = i /\ e.trans = x /\ e.phase = "END_REQ"
  BY DEF Entry, Hops, Phases
<1>f. IsABag(s.peq) /\ DOMAIN s.peq \subseteq Entry /\ Posted(s, p)
  BY SoundParts DEF Typed
<1> HIDE DEF r, e
<1>2. /\ IsABag(r.peq) /\ DOMAIN r.peq = DOMAIN s.peq \cup {e}
      /\ \A f \in DOMAIN s.peq : f # e => r.peq[f] = s.peq[f]
  <2>1. More(r.peq, s.peq, e)
    BY <1>1, <1>f, BagMore
  <2> QED BY <2>1 DEF More
<1>3. Posted(r, p)
  BY <1>0, <1>2, <1>e, <1>f DEF Posted
<1>4. /\ r.init = s.init /\ r.req_queue = s.req_queue /\ r.rsp_queue = s.rsp_queue /\ r.req = s.req
      /\ r.rsp = s.rsp /\ r.runnable = s.runnable /\ r.overdue = s.overdue /\ IsState(r)
  BY <1>0 DEF Same, Fields
<1>5. Typed(r) /\ Watched(r) /\ Awake(r)
  BY <1>0, <1>2, <1>4, <1>e, <1>f, SoundParts DEF Typed, Watched, Awake
<1>6. Initiating(r, p) /\ Queued(r, p) /\ Pointed(r, p, L)
  BY SMTT(30), <1>0, <1>4, SoundParts DEF Initiating, Queued, Pointed
<1>7. Counted(r, p) /\ Referenced(r, p, h) /\ AtOnce(r, p)
  <2>1. \A t \in Targets : Pipe(r, p, t) = Pipe(s, p, t)
    BY <1>0 DEF Pipe
  <2>2. Counted(r, p)
    BY <1>0, <2>1, SoundParts DEF Counted
  <2>3. Referenced(r, p, h) /\ AtOnce(r, p)
    BY <1>0, SoundParts DEF Referenced, AtOnce
  <2> QED BY <2>2, <2>3
<1>8. Sound(r, p, h, L)
  BY <1>3, <1>5, <1>6, <1>7, SoundParts DEF Sound
<1> QED BY <1>8, <1>k DEF r


-----------------------------------------------------------------------------
(* The fields of a target.                                                 *)
Becomes(r, s, t, n, b, y, z) ==
  /\ Same(r, s, {"targ"}) /\ r.targ \in [Targets -> TargT] /\ SameTypes(r, s)
  /\ \A u \in Targets : u # t => r.targ[u] = s.targ[u]
  /\ r.targ[t].n_trans = n /\ r.targ[t].response_in_progress = b
  /\ r.targ[t].next = y /\ r.targ[t].stalled = z

LEMMA Retarget ==
  ASSUME NEW s, IsState(s), s.targ \in [Targets -> TargT], NEW t \in Targets,
         NEW w \in TargT, w.type = s.targ[t].type
  PROVE  Becomes([s EXCEPT !.targ = [s.targ EXCEPT ![t] = w]], s, t,
                 w.n_trans, w.response_in_progress, w.next, w.stalled)
<1> DEFINE v == [s.targ EXCEPT ![t] = w]
           r == [s EXCEPT !.targ = v]
<1>1. v \in [Targets -> TargT] /\ v[t] = w /\ \A u \in Targets : u # t => v[u] = s.targ[u]
  OBVIOUS
<1> HIDE DEF v
<1>2. Same(r, s, {"targ"}) /\ r.targ = v
  BY Set
<1> HIDE DEF r
<1>3. Becomes(r, s, t, w.n_trans, w.response_in_progress, w.next, w.stalled)
  BY <1>1, <1>2 DEF Becomes, SameTypes
<1> QED BY <1>3 DEF r, v

LEMMA SetCount ==
  ASSUME NEW s, IsState(s), s.targ \in [Targets -> TargT], NEW t \in Targets, NEW n \in 0..2
  PROVE  Becomes([s EXCEPT !.targ[t].n_trans = n], s, t,
                 n, s.targ[t].response_in_progress, s.targ[t].next, s.targ[t].stalled)
<1> DEFINE w == [s.targ[t] EXCEPT !.n_trans = n]
<1>1. [s EXCEPT !.targ[t].n_trans = n] = [s EXCEPT !.targ = [s.targ EXCEPT ![t] = w]]
  OBVIOUS
<1>2. /\ w \in TargT /\ w.type = s.targ[t].type /\ w.n_trans = n
      /\ w.response_in_progress = s.targ[t].response_in_progress
      /\ w.next = s.targ[t].next /\ w.stalled = s.targ[t].stalled
  BY DEF TargT
<1> HIDE DEF w
<1>3. Becomes([s EXCEPT !.targ = [s.targ EXCEPT ![t] = w]], s, t,
              w.n_trans, w.response_in_progress, w.next, w.stalled)
  BY <1>2, Retarget
<1> QED BY <1>1, <1>2, <1>3

LEMMA SetResponding ==
  ASSUME NEW s, IsState(s), s.targ \in [Targets -> TargT], NEW t \in Targets, NEW b \in BOOLEAN
  PROVE  Becomes([s EXCEPT !.targ[t].response_in_progress = b], s, t,
                 s.targ[t].n_trans, b, s.targ[t].next, s.targ[t].stalled)
<1> DEFINE w == [s.targ[t] EXCEPT !.response_in_progress = b]
<1>1. [s EXCEPT !.targ[t].response_in_progress = b] = [s EXCEPT !.targ = [s.targ EXCEPT ![t] = w]]
  OBVIOUS
<1>2. /\ w \in TargT /\ w.type = s.targ[t].type /\ w.n_trans = s.targ[t].n_trans
      /\ w.response_in_progress = b
      /\ w.next = s.targ[t].next /\ w.stalled = s.targ[t].stalled
  BY DEF TargT
<1> HIDE DEF w
<1>3. Becomes([s EXCEPT !.targ = [s.targ EXCEPT ![t] = w]], s, t,
              w.n_trans, w.response_in_progress, w.next, w.stalled)
  BY <1>2, Retarget
<1> QED BY <1>1, <1>2, <1>3

LEMMA SetNext ==
  ASSUME NEW s, IsState(s), s.targ \in [Targets -> TargT], NEW t \in Targets, NEW y \in Pointer
  PROVE  Becomes([s EXCEPT !.targ[t].next = y], s, t,
                 s.targ[t].n_trans, s.targ[t].response_in_progress, y, s.targ[t].stalled)
<1> DEFINE w == [s.targ[t] EXCEPT !.next = y]
<1>1. [s EXCEPT !.targ[t].next = y] = [s EXCEPT !.targ = [s.targ EXCEPT ![t] = w]]
  OBVIOUS
<1>2. /\ w \in TargT /\ w.type = s.targ[t].type /\ w.n_trans = s.targ[t].n_trans
      /\ w.response_in_progress = s.targ[t].response_in_progress
      /\ w.next = y /\ w.stalled = s.targ[t].stalled
  BY DEF TargT
<1> HIDE DEF w
<1>3. Becomes([s EXCEPT !.targ = [s.targ EXCEPT ![t] = w]], s, t,
              w.n_trans, w.response_in_progress, w.next, w.stalled)
  BY <1>2, Retarget
<1> QED BY <1>1, <1>2, <1>3

LEMMA SetStalled ==
  ASSUME NEW s, IsState(s), s.targ \in [Targets -> TargT], NEW t \in Targets, NEW y \in Pointer
  PROVE  Becomes([s EXCEPT !.targ[t].stalled = y], s, t,
                 s.targ[t].n_trans, s.targ[t].response_in_progress, s.targ[t].next, y)
<1> DEFINE w == [s.targ[t] EXCEPT !.stalled = y]
<1>1. [s EXCEPT !.targ[t].stalled = y] = [s EXCEPT !.targ = [s.targ EXCEPT ![t] = w]]
  OBVIOUS
<1>2. /\ w \in TargT /\ w.type = s.targ[t].type /\ w.n_trans = s.targ[t].n_trans
      /\ w.response_in_progress = s.targ[t].response_in_progress
      /\ w.next = s.targ[t].next /\ w.stalled = y
  BY DEF TargT
<1> HIDE DEF w
<1>3. Becomes([s EXCEPT !.targ = [s.targ EXCEPT ![t] = w]], s, t,
              w.n_trans, w.response_in_progress, w.next, w.stalled)
  BY <1>2, Retarget
<1> QED BY <1>1, <1>2, <1>3

LEMMA BecomesKeeps ==
  ASSUME NEW s, NEW r, NEW t, NEW n, NEW b, NEW y, NEW z, Becomes(r, s, t, n, b, y, z)
  PROVE  /\ IsState(r) /\ Keeps(r, s, {"targ"}) /\ SameTypes(r, s)
         /\ r.init = s.init /\ r.req = s.req /\ r.rsp = s.rsp /\ r.req_queue = s.req_queue
         /\ r.rsp_queue = s.rsp_queue /\ r.trans = s.trans /\ r.peq = s.peq /\ r.overdue = s.overdue /\ r.runnable = s.runnable
<1>1. Same(r, s, {"targ"}) /\ SameTypes(r, s)
  BY DEF Becomes
<1>2. IsState(r) /\ Keeps(r, s, {"targ"})
  BY <1>1, SameKeeps
<1> QED BY <1>1, <1>2 DEF Same, Fields

LEMMA OneMore ==
  ASSUME NEW n \in 0..2, NEW S, NEW x, Counts(n, S)
  PROVE  /\ n <= 1 /\ x \notin S => n + 1 \in 0..2 /\ Counts(n + 1, S \cup {x})
         /\ x \in S => n - 1 \in 0..2 /\ Counts(n - 1, S \ {x})
<1>1. n = 0 \/ n = 1 \/ n = 2
  OBVIOUS
<1>2. CASE n = 0
  BY <1>2 DEF Counts
<1>3. CASE n = 1
  <2>1. PICK a \in S : S = {a}
    BY <1>3 DEF Counts
  <2>2. n + 1 = 2 /\ n - 1 = 0
    BY <1>3
  <2>3. x \notin S => x # a /\ S \cup {x} = {a, x}
    BY <2>1
  <2>4. x \in S => S \ {x} = {}
    BY <2>1
  <2> QED BY <2>2, <2>3, <2>4 DEF Counts
<1>4. CASE n = 2
  <2>1. PICK a, b \in S : a # b /\ S = {a, b}
    BY <1>4 DEF Counts
  <2>2. n - 1 = 1
    BY <1>4
  <2>3. x \in S => S \ {x} = {a} \/ S \ {x} = {b}
    BY <2>1
  <2> QED BY <1>4, <2>2, <2>3 DEF Counts
<1> QED BY <1>1, <1>2, <1>3, <1>4


-----------------------------------------------------------------------------
(* The pipeline of a target.                                               *)
LEMMA EnterSound ==
  ASSUME NEW s, NEW p, NEW h, NEW L, Sound(s, p, h, L), NEW x \in Trans, NEW t \in Targets,
         s.trans[x].target = t, p[x] = "accepted", s.targ[t].type \in {"A", "B"},
         s.targ[t].n_trans <= 1
  PROVE  LET r == [Post(s, t, x, "internal_ph") EXCEPT !.targ[t].n_trans = @ + 1]
         IN /\ Sound(r, [p EXCEPT ![x] = "internal"], h, L)
            /\ Keeps(r, s, {"peq", "targ"}) /\ SameTypes(r, s)
<1> DEFINE e == Post(s, t, x, "internal_ph")
           n == e.targ[t].n_trans + 1
           r == [e EXCEPT !.targ[t].n_trans = n]
           q == [p EXCEPT ![x] = "internal"]
<1>r. r = [e EXCEPT !.targ[t].n_trans = @ + 1]
  OBVIOUS
<1>0. Same(e, s, {"peq"}) /\ e.trans = s.trans /\ e.targ = s.targ /\ IsState(e)
  BY SoundParts, PostSame, SameState
<1>1. s.targ \in [Targets -> TargT] /\ s.targ[t].n_trans \in 0..2
  BY SoundParts DEF Typed, TargT
<1>2. n = s.targ[t].n_trans + 1 /\ n \in 0..2
  BY <1>0, <1>1
<1> HIDE DEF n
<1>3. Becomes(r, e, t, n, s.targ[t].response_in_progress, s.targ[t].next, s.targ[t].stalled)
  <2> HIDE DEF e
  <2> QED BY <1>0, <1>1, <1>2, SetCount
<1>4. Moved(q, p, x, "internal")
  BY SoundParts, Moving DEF Places
<1>5. /\ r.init = s.init /\ r.req = s.req /\ r.rsp = s.rsp /\ r.req_queue = s.req_queue
      /\ r.rsp_queue = s.rsp_queue /\ r.trans = s.trans /\ r.runnable = s.runnable
      /\ SameTypes(r, s) /\ IsState(r) /\ r.peq = e.peq /\ r.overdue = s.overdue
      /\ r.targ \in [Targets -> TargT]
  <2> HIDE DEF r, e
  <2>1. /\ e.init = s.init /\ e.req = s.req /\ e.rsp = s.rsp /\ e.req_queue = s.req_queue
        /\ e.rsp_queue = s.rsp_queue /\ e.runnable = s.runnable /\ e.overdue = s.overdue
    BY <1>0 DEF Same, Fields
  <2>2. SameTypes(r, e) => SameTypes(r, s)
    BY <1>0 DEF SameTypes
  <2>3. /\ r.init = e.init /\ r.req = e.req /\ r.rsp = e.rsp /\ r.req_queue = e.req_queue
        /\ r.rsp_queue = e.rsp_queue /\ r.trans = e.trans /\ r.runnable = e.runnable
        /\ SameTypes(r, e) /\ IsState(r) /\ r.peq = e.peq /\ r.overdue = e.overdue
    BY <1>3, BecomesKeeps
  <2>4. r.targ \in [Targets -> TargT]
    BY <1>3 DEF Becomes
  <2> QED BY <1>0, <2>1, <2>2, <2>3, <2>4
<1>6. Posted(r, q) /\ IsABag(r.peq) /\ DOMAIN r.peq \subseteq Entry
  <2>1. MayPost(s, p, x, t, "internal_ph") /\ PlaceOf["internal_ph"] = "internal"
    BY DEF MayPost, PlaceOf, Phases
  <2> HIDE DEF r, q
  <2> QED BY <1>4, <1>5, <2>1, PostedToo DEF e
<1>7. Keeps(r, s, {"peq", "targ"})
  <2> HIDE DEF r, e
  <2>1. Keeps(e, s, {"peq"}) /\ Keeps(r, e, {"targ"})
    BY <1>0, <1>3, SameKeeps, BecomesKeeps
  <2> QED BY <2>1, KeepsMore
<1> HIDE DEF r, q, e
<1>t. /\ r.targ[t].n_trans = s.targ[t].n_trans + 1
      /\ \A u \in Targets : u # t => r.targ[u] = s.targ[u]
      /\ \A u \in Targets : r.targ[u].next = s.targ[u].next /\ r.targ[u].stalled = s.targ[u].stalled
      /\ \A u \in Targets : r.targ[u].type = s.targ[u].type
  BY <1>0, <1>2, <1>3, <1>5 DEF Becomes, SameTypes
<1>8. Typed(r) /\ Watched(r) /\ Awake(r)
  <2>1. Typed(s) /\ Watched(s) /\ Awake(s)
    BY SoundParts
  <2>2. Typed(r)
    BY <1>5, <1>6, <2>1 DEF Typed
  <2>3. Watched(r) /\ Awake(r)
    BY <1>5, <1>t, <2>1 DEF Watched, Awake
  <2> QED BY <2>2, <2>3
<1>9. Initiating(r, q)
  <2>1. x # Null
    BY TLMAssumption DEF Null
  <2>2. \A i \in Inits : s.init[i].req = x => "internal" \in ByInitiator \ {"cur"} /\ r.trans[x].init = i
    BY <1>5, <2>1, SoundParts DEF Initiating, ByInitiator
  <2> QED BY <1>4, <1>5, <2>2, Kept
<1>10. Queued(r, q) /\ Pointed(r, q, L)
  BY <1>4, <1>5, <1>t, Kept DEF ByQueue
<1>11. Counted(r, q)
  <2> SUFFICES ASSUME NEW u \in Targets, s.targ[u].type \in {"A", "B"}
               PROVE  Counts(r.targ[u].n_trans, Pipe(r, q, u))
    BY <1>t DEF Counted
  <2>1. Counts(s.targ[u].n_trans, Pipe(s, p, u))
    BY SoundParts DEF Counted
  <2>2. CASE u = t
    <3>1. x \notin Pipe(s, p, t) /\ Pipe(r, q, t) = Pipe(s, p, t) \cup {x}
      BY <1>4, <1>5 DEF Pipe, Moved, InPipe, ByTarget
    <3> QED BY <1>1, <1>t, <2>1, <2>2, <3>1, OneMore
  <2>3. CASE u # t
    <3>1. Pipe(r, q, u) = Pipe(s, p, u)
      BY <1>4, <1>5, <2>3 DEF Pipe, Moved
    <3> QED BY <1>t, <2>1, <2>3, <3>1
  <2> QED BY <2>2, <2>3
<1>12. Referenced(r, q, h)
  <2>1. Need("internal", s.trans[x].dont_propagate_fw) + One(x = h)
          <= Need(p[x], s.trans[x].dont_propagate_fw) + One(x = h)
    BY DEF Need, One, ByInitiator, ByTarget, ByQueue
  <2> QED BY <1>4, <1>5, <2>1, SameReferenced
<1>13. AtOnce(r, q)
  <2>1. r.trans[x].dont_propagate_fw => r.targ[r.trans[x].target].type = "E"
    BY <1>5, SoundParts DEF AtOnce, Routed, Places, InHand, SameTypes
  <2> QED BY <1>4, <1>5, <2>1, Kept
<1>14. Sound(r, q, h, L)
  BY <1>4, <1>6, <1>8, <1>9, <1>10, <1>11, <1>12, <1>13 DEF Sound, Moved
<1> QED BY <1>r, <1>5, <1>7, <1>14 DEF q, r, e

LEMMA RetireSound ==
  ASSUME NEW s, NEW p, NEW h, NEW L, Sound(s, p, h, L), NEW x \in Trans, NEW t \in Targets,
         s.trans[x].target = t, p[x] = "answered", s.targ[t].type \in {"A", "B"}
  PROVE  LET r == Retire(s, t, x)
         IN /\ Sound(r, [p EXCEPT ![x] = "none"], h, L)
            /\ Keeps(r, s, {"trans", "targ"}) /\ SameTypes(r, s)
            /\ r.targ[t].n_trans <= 1
<1> DEFINE d == Release(s, x)
           n == d.targ[t].n_trans - 1
           m == [d EXCEPT !.targ[t].n_trans = n]
           r == [m EXCEPT !.targ[t].response_in_progress = FALSE]
           q == [p EXCEPT ![x] = "none"]
<1>r. Retire(s, t, x) = r
  BY DEF Retire
<1>0. /\ OnlyTrans(d, s, x) /\ SameRoutes(d, s) /\ d.trans[x].ref = s.trans[x].ref - 1
  BY Released
<1> HIDE DEF d
<1>d. /\ d.init = s.init /\ d.req = s.req /\ d.rsp = s.rsp /\ d.req_queue = s.req_queue
      /\ d.rsp_queue = s.rsp_queue /\ d.runnable = s.runnable /\ d.peq = s.peq /\ d.overdue = s.overdue /\ d.targ = s.targ
      /\ d.trans \in [Trans -> TransT] /\ IsState(d)
      /\ \A y \in Trans : y # x => d.trans[y] = s.trans[y]
      /\ Keeps(d, s, {"trans"})
  BY <1>0 DEF OnlyTrans, Unchanged, Core, Keeps
<1>1. s.targ \in [Targets -> TargT] /\ s.targ[t].n_trans \in 0..2
  BY SoundParts DEF Typed, TargT
<1>x. x \in Pipe(s, p, t) /\ Counts(s.targ[t].n_trans, Pipe(s, p, t))
  BY SoundParts DEF Pipe, Counted, InPipe, ByTarget
<1>2. n = s.targ[t].n_trans - 1 /\ n \in 0..2 /\ n <= 1 /\ Counts(n, Pipe(s, p, t) \ {x})
  <2>1. n = s.targ[t].n_trans - 1
    BY <1>d
  <2> HIDE DEF n
  <2>2. LET a == s.targ[t].n_trans
            S == Pipe(s, p, t)
        IN a - 1 \in 0..2 /\ Counts(a - 1, S \ {x})
    BY <1>1, <1>x, OneMore
  <2> QED BY <1>1, <2>1, <2>2
<1> HIDE DEF n
<1>3. Becomes(m, d, t, n, s.targ[t].response_in_progress, s.targ[t].next, s.targ[t].stalled)
  BY <1>1, <1>2, <1>d, SetCount
<1> HIDE DEF m
<1>m. IsState(m) /\ m.targ \in [Targets -> TargT]
  BY <1>3, BecomesKeeps DEF Becomes
<1>4. Becomes(r, m, t, m.targ[t].n_trans, FALSE, m.targ[t].next, m.targ[t].stalled)
  BY <1>m, SetResponding
<1> HIDE DEF r
<1>5. Moved(q, p, x, "none")
  BY SoundParts, Moving DEF Places, InHand
<1>6. /\ r.init = s.init /\ r.req = s.req /\ r.rsp = s.rsp /\ r.req_queue = s.req_queue
      /\ r.rsp_queue = s.rsp_queue /\ r.trans = d.trans /\ r.runnable = s.runnable
      /\ IsState(r) /\ r.peq = s.peq /\ r.overdue = s.overdue /\ r.targ \in [Targets -> TargT]
  <2>1. /\ m.init = d.init /\ m.req = d.req /\ m.rsp = d.rsp /\ m.req_queue = d.req_queue
        /\ m.rsp_queue = d.rsp_queue /\ m.trans = d.trans /\ m.runnable = d.runnable
        /\ m.peq = d.peq /\ m.overdue = d.overdue
    BY <1>3, BecomesKeeps
  <2>2. /\ r.init = m.init /\ r.req = m.req /\ r.rsp = m.rsp /\ r.req_queue = m.req_queue
        /\ r.rsp_queue = m.rsp_queue /\ r.trans = m.trans /\ r.runnable = m.runnable
        /\ IsState(r) /\ r.peq = m.peq /\ r.overdue = m.overdue
    BY <1>4, BecomesKeeps
  <2>3. r.targ \in [Targets -> TargT]
    BY <1>4 DEF Becomes
  <2> QED BY <1>d, <2>1, <2>2, <2>3
<1>t. /\ r.targ[t].n_trans = n
      /\ \A u \in Targets : u # t => r.targ[u] = s.targ[u]
      /\ \A u \in Targets : r.targ[u].next = s.targ[u].next /\ r.targ[u].stalled = s.targ[u].stalled
      /\ \A u \in Targets : r.targ[u].type = s.targ[u].type
  BY <1>d, <1>3, <1>4 DEF Becomes, SameTypes
<1>s. SameTypes(r, s)
  BY <1>t DEF SameTypes
<1>7. Keeps(r, s, {"trans", "targ"})
  <2>1. Keeps(m, d, {"targ"}) /\ Keeps(r, m, {"targ"})
    BY <1>3, <1>4, BecomesKeeps
  <2>2. Keeps(r, d, {"targ"})
    BY <2>1, KeepsMore
  <2> QED BY <1>d, <2>2, KeepsMore
<1> HIDE DEF q
<1>8. Typed(r) /\ Watched(r) /\ Awake(r)
  <2>1. Typed(s) /\ Watched(s) /\ Awake(s)
    BY SoundParts
  <2>2. Typed(r)
    BY <1>6, <1>d, <2>1 DEF Typed
  <2>3. Watched(r) /\ Awake(r)
    BY <1>6, <1>t, <2>1 DEF Watched, Awake
  <2> QED BY <2>2, <2>3
<1>n. x # Null
  BY TLMAssumption DEF Null
<1>o. \A y \in Trans : y # x => r.trans[y] = s.trans[y]
  BY <1>d, <1>6
<1>9. Initiating(r, q)
  <2>1. \A i \in Inits : s.init[i].req # x
    BY <1>n, SoundParts DEF Initiating, ByInitiator
  <2> QED BY <1>5, <1>6, <1>s, <1>o, <2>1, Kept
<1>10. Queued(r, q) /\ Pointed(r, q, L) /\ Posted(r, q)
  BY <1>5, <1>6, <1>s, <1>o, <1>t, Kept DEF ByQueue
<1>11. Counted(r, q)
  <2> SUFFICES ASSUME NEW u \in Targets, s.targ[u].type \in {"A", "B"}
               PROVE  Counts(r.targ[u].n_trans, Pipe(r, q, u))
    BY <1>t DEF Counted
  <2>1. Counts(s.targ[u].n_trans, Pipe(s, p, u))
    BY SoundParts DEF Counted
  <2>a. \A y \in Trans : r.trans[y].target = s.trans[y].target
    BY <1>0, <1>6 DEF SameRoutes, SameRoute
  <2>2. CASE u = t
    <3>1. Pipe(r, q, t) = Pipe(s, p, t) \ {x}
      BY <1>5, <2>a DEF Pipe, Moved, InPipe, ByTarget
    <3> QED BY <1>2, <1>t, <2>2, <3>1
  <2>3. CASE u # t
    <3>1. Pipe(r, q, u) = Pipe(s, p, u)
      BY <1>5, <2>3, <2>a DEF Pipe, Moved
    <3> QED BY <1>t, <2>1, <2>3, <3>1
  <2> QED BY <2>2, <2>3
<1>12. Referenced(r, q, h)
  <2>1. ~s.trans[x].dont_propagate_fw
    BY SoundParts DEF AtOnce, Routed, Places, InHand
  <2>2. /\ s.trans[x].ref \in Int /\ s.trans[x].ref >= Need(p[x], s.trans[x].dont_propagate_fw) + One(x = h)
        /\ One(x = h) \in Nat
    BY TransField
  <2>3. Need(p[x], s.trans[x].dont_propagate_fw) = 1 /\ \A b : Need("none", b) = 0
    BY <2>1 DEF Need, One, ByInitiator, ByTarget, ByQueue
  <2>4. r.trans[x].ref >= Need("none", r.trans[x].dont_propagate_fw) + One(x = h)
    BY <1>0, <1>6, <2>2, <2>3
  <2> QED BY <1>5, <1>o, <2>4, KeptReferenced
<1>13. AtOnce(r, q)
  BY <1>5, <1>s, <1>o, Kept DEF Routed
<1>14. Sound(r, q, h, L)
  BY <1>5, <1>8, <1>9, <1>10, <1>11, <1>12, <1>13 DEF Sound, Moved
<1>15. r.targ[t].n_trans <= 1
  BY <1>2, <1>t
<1> QED BY <1>r, <1>s, <1>7, <1>14, <1>15 DEF q


-----------------------------------------------------------------------------
(* The pointers of a target.                                               *)
LEMMA TargetKept ==
  ASSUME NEW s, NEW p, NEW h, NEW L, Sound(s, p, h, L), NEW t \in Targets, NEW b, NEW y, NEW z,
         NEW r, Becomes(r, s, t, s.targ[t].n_trans, b, y, z)
  PROVE  /\ IsState(r) /\ Typed(r) /\ Watched(r) /\ Initiating(r, p) /\ Queued(r, p)
         /\ Posted(r, p) /\ Counted(r, p) /\ Referenced(r, p, h) /\ AtOnce(r, p)
<1>1. /\ IsState(r) /\ r.init = s.init /\ r.req = s.req /\ r.rsp = s.rsp
      /\ r.req_queue = s.req_queue /\ r.rsp_queue = s.rsp_queue /\ r.trans = s.trans
      /\ r.peq = s.peq /\ r.overdue = s.overdue /\ r.runnable = s.runnable
  BY BecomesKeeps
<1>2. /\ r.targ \in [Targets -> TargT]
      /\ \A u \in Targets : /\ r.targ[u].type = s.targ[u].type
                            /\ r.targ[u].n_trans = s.targ[u].n_trans
  BY DEF Becomes, SameTypes
<1>3. Typed(s)
  BY SoundParts
<1>4. Typed(r)
  BY <1>1, <1>2, <1>3 DEF Typed
<1>5. Watched(r) /\ Initiating(r, p) /\ Queued(r, p)
  BY <1>1, SoundParts DEF Watched, Initiating, Queued
<1>6. Posted(r, p)
  BY <1>1, <1>2, SoundParts DEF Posted
<1>7. Counted(r, p)
  <2>1. \A u \in Targets : Pipe(r, p, u) = Pipe(s, p, u)
    BY <1>1 DEF Pipe
  <2> QED BY <1>2, <2>1, SoundParts DEF Counted
<1>8. Referenced(r, p, h) /\ AtOnce(r, p)
  <2>1. \A x \in Trans : s.trans[x].target \in Targets
    BY <1>3 DEF Typed, TransT
  <2> QED BY <1>1, <1>2, <2>1, SoundParts DEF Referenced, AtOnce
<1> QED BY <1>1, <1>2, <1>4, <1>5, <1>6, <1>7, <1>8

LEMMA RespondSound ==
  ASSUME NEW s, NEW p, NEW h, NEW L, Sound(s, p, h, L), NEW t \in Targets, NEW b \in BOOLEAN
  PROVE  LET r == [s EXCEPT !.targ[t].response_in_progress = b]
         IN /\ Sound(r, p, h, L) /\ Keeps(r, s, {"targ"}) /\ SameTypes(r, s)
            /\ r.targ[t].n_trans = s.targ[t].n_trans /\ r.targ[t].next = s.targ[t].next
            /\ r.targ[t].stalled = s.targ[t].stalled /\ r.runnable = s.runnable
<1> DEFINE r == [s EXCEPT !.targ[t].response_in_progress = b]
<1>1. Becomes(r, s, t, s.targ[t].n_trans, b, s.targ[t].next, s.targ[t].stalled)
  BY SoundParts, SetResponding DEF Typed
<1> HIDE DEF r
<1>2. /\ IsState(r) /\ Typed(r) /\ Watched(r) /\ Initiating(r, p) /\ Queued(r, p)
      /\ Posted(r, p) /\ Counted(r, p) /\ Referenced(r, p, h) /\ AtOnce(r, p)
  BY <1>1, TargetKept
<1>t. \A u \in Targets : r.targ[u].type = s.targ[u].type
  BY <1>1 DEF Becomes, SameTypes
<1>3. /\ r.trans = s.trans /\ r.runnable = s.runnable /\ Keeps(r, s, {"targ"}) /\ SameTypes(r, s)
  BY <1>1, BecomesKeeps
<1>4. /\ \A u \in Targets : r.targ[u].next = s.targ[u].next /\ r.targ[u].stalled = s.targ[u].stalled
      /\ r.targ[t].n_trans = s.targ[t].n_trans
  BY <1>1 DEF Becomes
<1>5. Pointed(r, p, L) /\ Awake(r)
  BY <1>t, <1>3, <1>4, SoundParts DEF Pointed, Awake
<1>6. Sound(r, p, h, L)
  BY <1>2, <1>5, SoundParts DEF Sound
<1> QED BY <1>3, <1>4, <1>6 DEF r

LEMMA ClearNext ==
  ASSUME NEW s, NEW p, NEW h, NEW M, Sound(s, p, h, M), NEW t \in Targets,
         <<"send_rsp", t>> \notin s.runnable
  PROVE  LET r == [s EXCEPT !.targ[t].next = Null]
         IN /\ Sound(r, p, h, M \ {<<"next", t>>}) /\ Keeps(r, s, {"targ"}) /\ SameTypes(r, s)
            /\ r.targ[t].n_trans = s.targ[t].n_trans /\ r.targ[t].stalled = s.targ[t].stalled
            /\ r.runnable = s.runnable
<1> DEFINE r == [s EXCEPT !.targ[t].next = Null]
           L == M \ {<<"next", t>>}
<1>1. Becomes(r, s, t, s.targ[t].n_trans, s.targ[t].response_in_progress, Null, s.targ[t].stalled)
  BY SoundParts, SetNext DEF Typed, Pointer
<1> HIDE DEF r
<1>2. /\ IsState(r) /\ Typed(r) /\ Watched(r) /\ Initiating(r, p) /\ Queued(r, p)
      /\ Posted(r, p) /\ Counted(r, p) /\ Referenced(r, p, h) /\ AtOnce(r, p)
  BY <1>1, TargetKept
<1>t. \A u \in Targets : r.targ[u].type = s.targ[u].type
  BY <1>1 DEF Becomes, SameTypes
<1>3. /\ r.trans = s.trans /\ r.runnable = s.runnable /\ Keeps(r, s, {"targ"}) /\ SameTypes(r, s)
  BY <1>1, BecomesKeeps
<1>4. /\ \A u \in Targets : u # t => r.targ[u] = s.targ[u]
      /\ r.targ[t].next = Null /\ r.targ[t].stalled = s.targ[t].stalled
      /\ r.targ[t].n_trans = s.targ[t].n_trans
  BY <1>1 DEF Becomes
<1>5. Pointed(r, p, L)
  <2>1. Pointed(s, p, M)
    BY SoundParts
  <2>2. ASSUME NEW u \in Targets, r.targ[u].next # Null, <<"next", u>> \notin L
        PROVE  p[r.targ[u].next] = "next" /\ r.trans[r.targ[u].next].target = u
    <3>1. u # t /\ <<"next", u>> \notin M
      BY <1>4, <2>2
    <3> QED BY <1>3, <1>4, <2>1, <2>2, <3>1 DEF Pointed
  <2>3. ASSUME NEW u \in Targets, r.targ[u].stalled # Null, <<"stalled", u>> \notin L
        PROVE  p[r.targ[u].stalled] = "stalled" /\ r.trans[r.targ[u].stalled].target = u
    <3>1. <<"stalled", u>> \notin M /\ r.targ[u].stalled = s.targ[u].stalled
      BY <1>4, <2>3
    <3> QED BY <1>3, <2>1, <2>3, <3>1 DEF Pointed
  <2> QED BY <2>2, <2>3 DEF Pointed
<1>6. Awake(r)
  BY <1>3, <1>4, SoundParts DEF Awake
<1>7. Sound(r, p, h, L)
  BY <1>2, <1>5, <1>6, SoundParts DEF Sound
<1> QED BY <1>3, <1>4, <1>7 DEF r

LEMMA ClearStalled ==
  ASSUME NEW s, NEW p, NEW h, NEW M, Sound(s, p, h, M), NEW t \in Targets
  PROVE  LET r == [s EXCEPT !.targ[t].stalled = Null]
         IN /\ Sound(r, p, h, M \ {<<"stalled", t>>}) /\ Keeps(r, s, {"targ"}) /\ SameTypes(r, s)
            /\ r.targ[t].stalled = Null
<1> DEFINE r == [s EXCEPT !.targ[t].stalled = Null]
           L == M \ {<<"stalled", t>>}
<1>1. Becomes(r, s, t, s.targ[t].n_trans, s.targ[t].response_in_progress, s.targ[t].next, Null)
  BY SoundParts, SetStalled DEF Typed, Pointer
<1> HIDE DEF r
<1>2. /\ IsState(r) /\ Typed(r) /\ Watched(r) /\ Initiating(r, p) /\ Queued(r, p)
      /\ Posted(r, p) /\ Counted(r, p) /\ Referenced(r, p, h) /\ AtOnce(r, p)
  BY <1>1, TargetKept
<1>t. \A u \in Targets : r.targ[u].type = s.targ[u].type
  BY <1>1 DEF Becomes, SameTypes
<1>3. /\ r.trans = s.trans /\ r.runnable = s.runnable /\ Keeps(r, s, {"targ"}) /\ SameTypes(r, s)
  BY <1>1, BecomesKeeps
<1>4. /\ \A u \in Targets : u # t => r.targ[u] = s.targ[u]
      /\ r.targ[t].stalled = Null /\ r.targ[t].next = s.targ[t].next
  BY <1>1 DEF Becomes
<1>5. Pointed(r, p, L)
  <2>1. Pointed(s, p, M)
    BY SoundParts
  <2>2. ASSUME NEW u \in Targets, r.targ[u].stalled # Null, <<"stalled", u>> \notin L
        PROVE  p[r.targ[u].stalled] = "stalled" /\ r.trans[r.targ[u].stalled].target = u
    <3>1. u # t /\ <<"stalled", u>> \notin M
      BY <1>4, <2>2
    <3> QED BY <1>3, <1>4, <2>1, <2>2, <3>1 DEF Pointed
  <2>3. ASSUME NEW u \in Targets, r.targ[u].next # Null, <<"next", u>> \notin L
        PROVE  p[r.targ[u].next] = "next" /\ r.trans[r.targ[u].next].target = u
    <3>1. <<"next", u>> \notin M /\ r.targ[u].next = s.targ[u].next
      BY <1>4, <2>3
    <3> QED BY <1>3, <2>1, <2>3, <3>1 DEF Pointed
  <2> QED BY <2>2, <2>3 DEF Pointed
<1>6. Awake(r)
  BY <1>t, <1>3, <1>4, SoundParts DEF Awake
<1>7. Sound(r, p, h, L)
  BY <1>2, <1>5, <1>6, SoundParts DEF Sound
<1> QED BY <1>3, <1>4, <1>7 DEF r

(* The response that waits is taken, and the pointer to it is cleared      *)
(* later.                                                                  *)
LEMMA TakeNext ==
  ASSUME NEW s, NEW p, NEW h, NEW L, Sound(s, p, h, L), NEW t \in Targets,
         s.targ[t].next # Null, <<"next", t>> \notin L
  PROVE  LET y == s.targ[t].next
         IN /\ y \in Trans /\ s.trans[y].target = t
            /\ Sound(s, [p EXCEPT ![y] = "served"], h, L \cup {<<"next", t>>})
<1> DEFINE y == s.targ[t].next
           q == [p EXCEPT ![y] = "served"]
           M == L \cup {<<"next", t>>}
<1>1. y \in Trans /\ p[y] = "next" /\ s.trans[y].target = t
  BY SoundParts DEF Pointed, Typed, TargT, Pointer
<1> HIDE DEF y
<1>2. Moved(q, p, y, "served") /\ SameTypes(s, s)
  BY <1>1, SoundParts, Moving DEF Places, InHand, SameTypes
<1> HIDE DEF q
<1>3. Initiating(s, q)
  <2>1. y # Null
    BY <1>1, TLMAssumption DEF Null
  <2>2. \A i \in Inits : s.init[i].req = y => "served" \in ByInitiator \ {"cur"} /\ s.trans[y].init = i
    BY <1>1, <2>1, SoundParts DEF Initiating, ByInitiator
  <2> QED BY <1>1, <1>2, <2>2, Kept
<1>4. Queued(s, q) /\ Posted(s, q)
  BY <1>1, <1>2, Kept DEF ByQueue
<1>5. Pointed(s, q, M)
  <2>1. Pointed(s, p, L) /\ Typed(s)
    BY SoundParts
  <2>2. \A u \in Targets : s.targ[u].next \in Pointer /\ s.targ[u].stalled \in Pointer
    BY <2>1 DEF Typed, TargT
  <2>3. ASSUME NEW u \in Targets, s.targ[u].next # Null, <<"next", u>> \notin M
        PROVE  q[s.targ[u].next] = "next" /\ s.trans[s.targ[u].next].target = u
    <3>1. u # t /\ <<"next", u>> \notin L
      BY <2>3
    <3>2. p[s.targ[u].next] = "next" /\ s.trans[s.targ[u].next].target = u
      BY <2>1, <2>3, <3>1 DEF Pointed
    <3> QED BY <1>1, <1>2, <2>2, <2>3, <3>1, <3>2 DEF Moved, Pointer
  <2>4. ASSUME NEW u \in Targets, s.targ[u].stalled # Null, <<"stalled", u>> \notin M
        PROVE  q[s.targ[u].stalled] = "stalled" /\ s.trans[s.targ[u].stalled].target = u
    <3>1. p[s.targ[u].stalled] = "stalled" /\ s.trans[s.targ[u].stalled].target = u
      BY <2>1, <2>4 DEF Pointed
    <3> QED BY <1>1, <1>2, <2>2, <2>4, <3>1 DEF Moved, Pointer
  <2> QED BY <2>3, <2>4 DEF Pointed
<1>6. Counted(s, q) /\ AtOnce(s, q)
  <2>1. "next" \in InPipe /\ "served" \in InPipe /\ "next" \in Routed
    BY DEF InPipe, ByTarget, Routed, Places
  <2> QED BY <1>1, <1>2, <2>1, Kept, SoundParts DEF AtOnce
<1>7. Referenced(s, q, h)
  <2>1. Need("served", s.trans[y].dont_propagate_fw) + One(y = h)
          <= Need(p[y], s.trans[y].dont_propagate_fw) + One(y = h)
    BY <1>1 DEF Need, One, ByInitiator, ByTarget, ByQueue
  <2> QED BY <1>1, <1>2, <2>1, SameReferenced
<1>8. Sound(s, q, h, M)
  BY <1>2, <1>3, <1>4, <1>5, <1>6, <1>7, SoundParts DEF Sound, Moved
<1> QED BY <1>1, <1>8 DEF q, y

(* The same for the request that waits for room in the pipeline.           *)
LEMMA TakeStalled ==
  ASSUME NEW s, NEW p, NEW h, NEW L, Sound(s, p, h, L), NEW t \in Targets,
         s.targ[t].stalled # Null, <<"stalled", t>> \notin L
  PROVE  LET y == s.targ[t].stalled
         IN /\ y \in Trans /\ s.trans[y].target = t
            /\ Sound(s, [p EXCEPT ![y] = "accepted"], h, L \cup {<<"stalled", t>>})
<1> DEFINE y == s.targ[t].stalled
           q == [p EXCEPT ![y] = "accepted"]
           M == L \cup {<<"stalled", t>>}
<1>1. y \in Trans /\ p[y] = "stalled" /\ s.trans[y].target = t
  BY SoundParts DEF Pointed, Typed, TargT, Pointer
<1> HIDE DEF y
<1>2. Moved(q, p, y, "accepted") /\ SameTypes(s, s)
  BY <1>1, SoundParts, Moving DEF Places, InHand, SameTypes
<1> HIDE DEF q
<1>3. Initiating(s, q)
  <2>1. y # Null
    BY <1>1, TLMAssumption DEF Null
  <2>2. \A i \in Inits : s.init[i].req = y => "accepted" \in ByInitiator \ {"cur"} /\ s.trans[y].init = i
    BY <1>1, <2>1, SoundParts DEF Initiating, ByInitiator
  <2> QED BY <1>1, <1>2, <2>2, Kept
<1>4. Queued(s, q) /\ Posted(s, q)
  BY <1>1, <1>2, Kept DEF ByQueue
<1>5. Pointed(s, q, M)
  <2>1. Pointed(s, p, L) /\ Typed(s)
    BY SoundParts
  <2>2. \A u \in Targets : s.targ[u].next \in Pointer /\ s.targ[u].stalled \in Pointer
    BY <2>1 DEF Typed, TargT
  <2>3. ASSUME NEW u \in Targets, s.targ[u].stalled # Null, <<"stalled", u>> \notin M
        PROVE  q[s.targ[u].stalled] = "stalled" /\ s.trans[s.targ[u].stalled].target = u
    <3>1. u # t /\ <<"stalled", u>> \notin L
      BY <2>3
    <3>2. p[s.targ[u].stalled] = "stalled" /\ s.trans[s.targ[u].stalled].target = u
      BY <2>1, <2>3, <3>1 DEF Pointed
    <3> QED BY <1>1, <1>2, <2>2, <2>3, <3>1, <3>2 DEF Moved, Pointer
  <2>4. ASSUME NEW u \in Targets, s.targ[u].next # Null, <<"next", u>> \notin M
        PROVE  q[s.targ[u].next] = "next" /\ s.trans[s.targ[u].next].target = u
    <3>1. p[s.targ[u].next] = "next" /\ s.trans[s.targ[u].next].target = u
      BY <2>1, <2>4 DEF Pointed
    <3> QED BY <1>1, <1>2, <2>2, <2>4, <3>1 DEF Moved, Pointer
  <2> QED BY <2>3, <2>4 DEF Pointed
<1>6. Counted(s, q) /\ AtOnce(s, q)
  <2>1. "stalled" \notin InPipe /\ "accepted" \notin InPipe /\ "stalled" \in Routed
    BY DEF InPipe, ByTarget, Routed, Places
  <2> QED BY <1>1, <1>2, <2>1, Kept, SoundParts DEF AtOnce
<1>7. Referenced(s, q, h)
  <2>1. Need("accepted", s.trans[y].dont_propagate_fw) + One(y = h)
          <= Need(p[y], s.trans[y].dont_propagate_fw) + One(y = h)
    BY <1>1 DEF Need, One, ByInitiator, ByTarget, ByQueue
  <2> QED BY <1>1, <1>2, <2>1, SameReferenced
<1>8. Sound(s, q, h, M)
  BY <1>2, <1>3, <1>4, <1>5, <1>6, <1>7, SoundParts DEF Sound, Moved
<1> QED BY <1>1, <1>8 DEF q, y


(* The response has to wait.                                               *)
LEMMA SetNextSound ==
  ASSUME NEW s, NEW p, NEW h, NEW L, Sound(s, p, h, L), NEW x \in Trans, NEW t \in Targets,
         s.trans[x].target = t, p[x] = "served"
  PROVE  LET r == [s EXCEPT !.targ[t].next = x]
         IN /\ Sound(r, [p EXCEPT ![x] = "next"], h, L) /\ Keeps(r, s, {"targ"})
            /\ SameTypes(r, s)
<1> DEFINE r == [s EXCEPT !.targ[t].next = x]
           q == [p EXCEPT ![x] = "next"]
<1>1. Becomes(r, s, t, s.targ[t].n_trans, s.targ[t].response_in_progress, x, s.targ[t].stalled)
  BY SoundParts, SetNext DEF Typed, Pointer
<1> HIDE DEF r
<1>2. IsState(r) /\ Typed(r) /\ Watched(r)
  BY <1>1, TargetKept
<1>3. /\ r.trans = s.trans /\ r.runnable = s.runnable /\ Keeps(r, s, {"targ"}) /\ SameTypes(r, s)
      /\ r.init = s.init /\ r.req_queue = s.req_queue /\ r.rsp_queue = s.rsp_queue /\ r.peq = s.peq /\ r.overdue = s.overdue
  BY <1>1, BecomesKeeps
<1>4. /\ \A u \in Targets : u # t => r.targ[u] = s.targ[u]
      /\ \A u \in Targets : r.targ[u].n_trans = s.targ[u].n_trans
      /\ r.targ[t].next = x /\ r.targ[t].stalled = s.targ[t].stalled
  BY <1>1 DEF Becomes
<1>5. Moved(q, p, x, "next") /\ x # Null
  BY SoundParts, Moving, TLMAssumption DEF Places, InHand, Null
<1> HIDE DEF q
<1>6. Initiating(r, q)
  <2>2. \A i \in Inits : s.init[i].req = x => "next" \in ByInitiator \ {"cur"} /\ r.trans[x].init = i
    BY <1>3, <1>5, SoundParts DEF Initiating, ByInitiator
  <2> QED BY <1>3, <1>5, <2>2, Kept
<1>7. Queued(r, q) /\ Posted(r, q)
  BY <1>3, <1>5, Kept DEF ByQueue
<1>8. Pointed(r, q, L)
  <2>1. Pointed(s, p, L) /\ Typed(s)
    BY SoundParts
  <2>2. \A u \in Targets : s.targ[u].next \in Pointer /\ s.targ[u].stalled \in Pointer
    BY <2>1 DEF Typed, TargT
  <2>3. ASSUME NEW u \in Targets, r.targ[u].next # Null, <<"next", u>> \notin L
        PROVE  q[r.targ[u].next] = "next" /\ r.trans[r.targ[u].next].target = u
    <3>1. CASE u = t
      BY <1>3, <1>4, <1>5, <3>1 DEF Moved
    <3>2. CASE u # t
      <4>1. p[s.targ[u].next] = "next" /\ s.trans[s.targ[u].next].target = u /\ r.targ[u] = s.targ[u]
        BY <1>4, <2>1, <2>3, <3>2 DEF Pointed
      <4> QED BY <1>3, <1>5, <2>2, <2>3, <4>1 DEF Moved, Pointer
    <3> QED BY <3>1, <3>2
  <2>4. ASSUME NEW u \in Targets, r.targ[u].stalled # Null, <<"stalled", u>> \notin L
        PROVE  q[r.targ[u].stalled] = "stalled" /\ r.trans[r.targ[u].stalled].target = u
    <3>1. r.targ[u].stalled = s.targ[u].stalled
      BY <1>4
    <3>2. p[s.targ[u].stalled] = "stalled" /\ s.trans[s.targ[u].stalled].target = u
      BY <2>1, <2>4, <3>1 DEF Pointed
    <3> QED BY <1>3, <1>5, <2>2, <2>4, <3>1, <3>2 DEF Moved, Pointer
  <2> QED BY <2>3, <2>4 DEF Pointed
<1>9. Counted(r, q) /\ AtOnce(r, q)
  <2>1. "next" \in InPipe /\ "served" \in InPipe /\ "served" \in Routed
    BY DEF InPipe, ByTarget, Routed, Places, InHand
  <2>2. r.trans[x].dont_propagate_fw => r.targ[r.trans[x].target].type = "E"
    BY <1>3, <2>1, SoundParts DEF AtOnce, SameTypes
  <2> QED BY <1>3, <1>4, <1>5, <2>1, <2>2, Kept
<1>10. Referenced(r, q, h)
  <2>1. Need("next", s.trans[x].dont_propagate_fw) + One(x = h)
          <= Need(p[x], s.trans[x].dont_propagate_fw) + One(x = h)
    BY DEF Need, One, ByInitiator, ByTarget, ByQueue
  <2> QED BY <1>3, <1>5, <2>1, SameReferenced
<1>11. Awake(r)
  <2>1. ASSUME NEW u \in Targets, <<"send_rsp", u>> \in r.runnable
        PROVE  r.targ[u].type = "D" /\ r.targ[u].next # Null
    <3>1. s.targ[u].type = "D" /\ s.targ[u].next # Null
      BY <1>3, <2>1, SoundParts DEF Awake
    <3> QED BY <1>3, <1>4, <1>5, <3>1 DEF SameTypes
  <2> QED BY <2>1 DEF Awake
<1>12. Sound(r, q, h, L)
  BY <1>2, <1>5, <1>6, <1>7, <1>8, <1>9, <1>10, <1>11 DEF Sound, Moved
<1> QED BY <1>3, <1>12 DEF r, q

(* The request has to wait; the target has a reference already.            *)
LEMMA StallSound ==
  ASSUME NEW s, NEW p, NEW L, NEW x \in Trans, Sound(s, p, x, L), NEW t \in Targets,
         s.trans[x].target = t, p[x] = "sent"
  PROVE  LET r == [s EXCEPT !.targ[t].stalled = x]
         IN /\ Sound(r, [p EXCEPT ![x] = "stalled"], Null, L) /\ Keeps(r, s, {"targ"})
            /\ SameTypes(r, s)
<1> DEFINE r == [s EXCEPT !.targ[t].stalled = x]
           q == [p EXCEPT ![x] = "stalled"]
<1>1. Becomes(r, s, t, s.targ[t].n_trans, s.targ[t].response_in_progress, s.targ[t].next, x)
  BY SoundParts, SetStalled DEF Typed, Pointer
<1> HIDE DEF r
<1>2. IsState(r) /\ Typed(r) /\ Watched(r)
  BY <1>1, TargetKept
<1>3. /\ r.trans = s.trans /\ r.runnable = s.runnable /\ Keeps(r, s, {"targ"}) /\ SameTypes(r, s)
      /\ r.init = s.init /\ r.req_queue = s.req_queue /\ r.rsp_queue = s.rsp_queue /\ r.peq = s.peq /\ r.overdue = s.overdue
  BY <1>1, BecomesKeeps
<1>4. /\ \A u \in Targets : u # t => r.targ[u] = s.targ[u]
      /\ \A u \in Targets : r.targ[u].n_trans = s.targ[u].n_trans
      /\ r.targ[t].next = s.targ[t].next /\ r.targ[t].stalled = x
  BY <1>1 DEF Becomes
<1>5. Moved(q, p, x, "stalled") /\ x # Null /\ \A y \in Trans : y # Null
  BY SoundParts, Moving, TLMAssumption DEF Places, InHand, Null
<1> HIDE DEF q
<1>6. Initiating(r, q)
  <2>2. \A i \in Inits : s.init[i].req = x => "stalled" \in ByInitiator \ {"cur"} /\ r.trans[x].init = i
    BY <1>3, <1>5, SoundParts DEF Initiating, ByInitiator
  <2> QED BY <1>3, <1>5, <2>2, Kept
<1>7. Queued(r, q) /\ Posted(r, q)
  BY <1>3, <1>5, Kept DEF ByQueue
<1>8. Pointed(r, q, L)
  <2>1. Pointed(s, p, L) /\ Typed(s)
    BY SoundParts
  <2>2. \A u \in Targets : s.targ[u].next \in Pointer /\ s.targ[u].stalled \in Pointer
    BY <2>1 DEF Typed, TargT
  <2>3. ASSUME NEW u \in Targets, r.targ[u].stalled # Null, <<"stalled", u>> \notin L
        PROVE  q[r.targ[u].stalled] = "stalled" /\ r.trans[r.targ[u].stalled].target = u
    <3>1. CASE u = t
      BY <1>3, <1>4, <1>5, <3>1 DEF Moved
    <3>2. CASE u # t
      <4>1. /\ p[s.targ[u].stalled] = "stalled" /\ s.trans[s.targ[u].stalled].target = u
            /\ r.targ[u] = s.targ[u]
        BY <1>4, <2>1, <2>3, <3>2 DEF Pointed
      <4> QED BY <1>3, <1>5, <2>2, <2>3, <4>1 DEF Moved, Pointer
    <3> QED BY <3>1, <3>2
  <2>4. ASSUME NEW u \in Targets, r.targ[u].next # Null, <<"next", u>> \notin L
        PROVE  q[r.targ[u].next] = "next" /\ r.trans[r.targ[u].next].target = u
    <3>1. r.targ[u].next = s.targ[u].next
      BY <1>4
    <3>2. p[s.targ[u].next] = "next" /\ s.trans[s.targ[u].next].target = u
      BY <2>1, <2>4, <3>1 DEF Pointed
    <3> QED BY <1>3, <1>5, <2>2, <2>4, <3>1, <3>2 DEF Moved, Pointer
  <2> QED BY <2>3, <2>4 DEF Pointed
<1>9. Counted(r, q) /\ AtOnce(r, q)
  <2>1. "stalled" \notin InPipe /\ "sent" \notin InPipe /\ "sent" \in Routed
    BY DEF InPipe, ByTarget, Routed, Places, InHand
  <2>2. r.trans[x].dont_propagate_fw => r.targ[r.trans[x].target].type = "E"
    BY <1>3, <2>1, SoundParts DEF AtOnce, SameTypes
  <2> QED BY <1>3, <1>4, <1>5, <2>1, <2>2, Kept
<1>10. Referenced(r, q, Null)
  <2>1. Need("stalled", s.trans[x].dont_propagate_fw) + One(x = Null)
          <= Need(p[x], s.trans[x].dont_propagate_fw) + One(x = x)
    BY <1>5 DEF Need, One, ByInitiator, ByTarget, ByQueue
  <2> QED BY <1>3, <1>5, <2>1, SameReferenced
<1>11. Awake(r)
  BY <1>3, <1>4, SoundParts DEF Awake, SameTypes
<1>12. Sound(r, q, Null, L)
  BY <1>2, <1>5, <1>6, <1>7, <1>8, <1>9, <1>10, <1>11 DEF Sound, Moved
<1> QED BY <1>3, <1>12 DEF r, q

(* The target takes a reference of the request it has been sent.           *)
LEMMA TakeSound ==
  ASSUME NEW s, NEW p, NEW h, NEW L, Sound(s, p, h, L), NEW x \in Trans, p[x] = "sent",
         NEW k \in {"accepted", "served"},
         k = "served" => s.targ[s.trans[x].target].type = "D"
  PROVE  LET r == Acquire(s, x)
         IN Sound(r, [p EXCEPT ![x] = k], h, L) /\ Keeps(r, s, {"trans"})
<1> DEFINE r == Acquire(s, x)
           u == r.trans[x]
<1>1. OnlyTrans(r, s, x) /\ SameRoutes(r, s) /\ u.ref = s.trans[x].ref + 1
  BY AcquireSound
<1>2. SameRoute(u, s.trans[x])
  BY <1>1 DEF SameRoutes
<1> HIDE DEF r
<1>3. Keeps(r, s, {"trans"})
  BY <1>1 DEF OnlyTrans, Keeps
<1>4. /\ s.trans[x].ref \in Int
      /\ s.trans[x].ref >= Need(p[x], s.trans[x].dont_propagate_fw) + One(x = h)
      /\ One(x = h) \in Nat
  BY TransField
<1>5. /\ u.init = s.trans[x].init /\ u.target = s.trans[x].target
      /\ u.dont_propagate_fw = s.trans[x].dont_propagate_fw
  BY <1>2 DEF SameRoute
<1> HIDE DEF u
<1>6. u.ref >= Need(k, u.dont_propagate_fw) + One(x = h)
  <2>1. Need(p[x], s.trans[x].dont_propagate_fw) = 1
    BY DEF Need, One, ByInitiator, ByTarget, ByQueue
  <2>2. Need(k, u.dont_propagate_fw) \in {1, 2}
    BY DEF Need, One, ByInitiator, ByTarget, ByQueue
  <2> QED BY <1>1, <1>4, <2>1, <2>2
<1>7. k \in Routed /\ u.dont_propagate_fw => s.targ[u.target].type = "E"
  <2>1. "sent" \in Routed
    BY DEF Routed, Places, InHand
  <2> QED BY <1>5, <2>1, SoundParts DEF AtOnce
<1>8. \A i \in Inits : s.init[i].req = x => k \in ByInitiator \ {"cur"} /\ (k # "new" => u.init = i)
  <2>1. x # Null
    BY TLMAssumption DEF Null
  <2> QED BY <1>5, <2>1, SoundParts DEF Initiating, ByInitiator
<1>9. \A t \in Targets : s.targ[t].type \in {"A", "B"} =>
        (p[x] \in InPipe /\ s.trans[x].target = t <=> k \in InPipe /\ u.target = t)
  BY <1>5 DEF InPipe, ByTarget
<1>10. MayBecome(s, p, h, x, k, u, h)
  BY <1>6, <1>7, <1>8, <1>9 DEF MayBecome, InHand
<1>11. Sound(r, [p EXCEPT ![x] = k], h, L)
  BY <1>1, <1>10, InHandStep DEF u
<1> QED BY <1>3, <1>11 DEF r

(* What the initiator has held is now held by the process that runs.       *)
LEMMA HandOver ==
  ASSUME NEW s, NEW p, NEW L, Sound(s, p, Null, L), NEW x \in Trans, p[x] = "served",
         \A i \in Inits : s.init[i].req # x
  PROVE  Sound(s, [p EXCEPT ![x] = "answered"], x, L)
<1>1. OnlyTrans(s, s, x)
  BY SoundParts DEF OnlyTrans, Unchanged, Typed
<1>2. /\ s.trans[x].ref \in Int
      /\ s.trans[x].ref >= Need(p[x], s.trans[x].dont_propagate_fw) + One(x = Null)
  BY TransField
<1>3. Need(p[x], s.trans[x].dont_propagate_fw) + One(x = Null)
        = Need("answered", s.trans[x].dont_propagate_fw) + One(x = x)
  <2>1. x # Null
    BY TLMAssumption DEF Null
  <2> QED BY <2>1 DEF Need, One, ByInitiator, ByTarget, ByQueue
<1>4. "served" \in InPipe /\ "answered" \in InPipe /\ "served" \in Routed
  BY DEF InPipe, ByTarget, Routed, Places, InHand
<1>5. MayBecome(s, p, Null, x, "answered", s.trans[x], x)
  BY <1>2, <1>3, <1>4, SoundParts DEF MayBecome, InHand, AtOnce
<1> QED BY <1>1, <1>5, InHandStep

LEMMA DropHeld ==
  ASSUME NEW s, NEW p, NEW h, NEW L, Sound(s, p, h, L)
  PROVE  Sound(s, p, Null, L)
<1>1. Referenced(s, p, Null)
  <2> SUFFICES ASSUME NEW x \in Trans
               PROVE  s.trans[x].ref >= Need(p[x], s.trans[x].dont_propagate_fw) + One(x = Null)
    BY DEF Referenced
  <2>1. /\ s.trans[x].ref \in Int
        /\ s.trans[x].ref >= Need(p[x], s.trans[x].dont_propagate_fw) + One(x = h)
        /\ Need(p[x], s.trans[x].dont_propagate_fw) \in Nat /\ One(x = h) \in Nat
    BY TransField
  <2>2. One(x = Null) = 0
    BY TLMAssumption DEF One, Null
  <2> QED BY <2>1, <2>2
<1> QED BY <1>1, SoundParts DEF Sound


-----------------------------------------------------------------------------
(* What the interconnect keeps of requests and responses in progress.      *)
LEMMA SetReq ==
  ASSUME NEW s, NEW p, NEW h, NEW L, Sound(s, p, h, L), NEW t \in Targets, NEW v \in Pointer,
         v = Null => s.req_queue[t] = << >>
  PROVE  LET r == [s EXCEPT !.req[t] = v]
         IN Sound(r, p, h, L) /\ Keeps(r, s, {"req"})
<1> DEFINE w == [s.req EXCEPT ![t] = v]
           r == [s EXCEPT !.req = w]
<1>1. s.req \in [Targets -> Pointer]
  BY SoundParts DEF Typed
<1>2. w \in [Targets -> Pointer] /\ w[t] = v /\ \A u \in Targets : u # t => w[u] = s.req[u]
  BY <1>1
<1> HIDE DEF w
<1>3. Same(r, s, {"req"}) /\ r.req = w
  BY SoundParts, Set
<1> HIDE DEF r
<1>4. /\ r.init = s.init /\ r.targ = s.targ /\ r.rsp = s.rsp /\ r.req_queue = s.req_queue
      /\ r.rsp_queue = s.rsp_queue /\ r.trans = s.trans /\ r.peq = s.peq /\ r.overdue = s.overdue
      /\ r.runnable = s.runnable /\ IsState(r)
  BY <1>3 DEF Same, Fields
<1>5. Typed(r) /\ Watched(r) /\ Awake(r)
  <2>1. Typed(s) /\ Watched(s) /\ Awake(s)
    BY SoundParts
  <2>2. Typed(r)
    BY <1>2, <1>3, <1>4, <2>1 DEF Typed
  <2>3. Watched(r) /\ Awake(r)
    BY <1>2, <1>3, <1>4, <2>1 DEF Watched, Awake
  <2> QED BY <2>2, <2>3
<1>6. Initiating(r, p) /\ Queued(r, p) /\ Pointed(r, p, L)
  BY SMTT(30), <1>4, SoundParts DEF Initiating, Queued, Pointed
<1>7. Posted(r, p)
  BY <1>4, SoundParts DEF Posted
<1>8. Counted(r, p)
  <2>1. \A u \in Targets : Pipe(r, p, u) = Pipe(s, p, u)
    BY <1>4 DEF Pipe
  <2> QED BY <1>4, <2>1, SoundParts DEF Counted
<1>9. Referenced(r, p, h) /\ AtOnce(r, p)
  BY <1>4, SoundParts DEF Referenced, AtOnce
<1>10. Sound(r, p, h, L)
  BY <1>5, <1>6, <1>7, <1>8, <1>9, SoundParts DEF Sound
<1>11. Keeps(r, s, {"req"})
  BY <1>3, SameKeeps
<1> QED BY <1>10, <1>11 DEF r, w

LEMMA SetRsp ==
  ASSUME NEW s, NEW p, NEW h, NEW L, Sound(s, p, h, L), NEW i \in Inits, NEW v \in Pointer,
         v = Null => s.rsp_queue[i] = << >>
  PROVE  LET r == [s EXCEPT !.rsp[i] = v]
         IN Sound(r, p, h, L) /\ Keeps(r, s, {"rsp"}) /\ r.rsp[i] = v
<1> DEFINE w == [s.rsp EXCEPT ![i] = v]
           r == [s EXCEPT !.rsp = w]
<1>1. s.rsp \in [Inits -> Pointer]
  BY SoundParts DEF Typed
<1>2. w \in [Inits -> Pointer] /\ w[i] = v /\ \A j \in Inits : j # i => w[j] = s.rsp[j]
  BY <1>1
<1> HIDE DEF w
<1>3. Same(r, s, {"rsp"}) /\ r.rsp = w
  BY SoundParts, Set
<1> HIDE DEF r
<1>4. /\ r.init = s.init /\ r.targ = s.targ /\ r.req = s.req /\ r.req_queue = s.req_queue
      /\ r.rsp_queue = s.rsp_queue /\ r.trans = s.trans /\ r.peq = s.peq /\ r.overdue = s.overdue
      /\ r.runnable = s.runnable /\ IsState(r)
  BY <1>3 DEF Same, Fields
<1>5. Typed(r) /\ Watched(r) /\ Awake(r)
  <2>1. Typed(s) /\ Watched(s) /\ Awake(s)
    BY SoundParts
  <2>2. Typed(r)
    BY <1>2, <1>3, <1>4, <2>1 DEF Typed
  <2>3. Watched(r) /\ Awake(r)
    BY <1>2, <1>3, <1>4, <2>1 DEF Watched, Awake
  <2> QED BY <2>2, <2>3
<1>6. Initiating(r, p) /\ Queued(r, p) /\ Pointed(r, p, L)
  BY SMTT(30), <1>4, SoundParts DEF Initiating, Queued, Pointed
<1>7. Posted(r, p)
  BY <1>4, SoundParts DEF Posted
<1>8. Counted(r, p)
  <2>1. \A u \in Targets : Pipe(r, p, u) = Pipe(s, p, u)
    BY <1>4 DEF Pipe
  <2> QED BY <1>4, <2>1, SoundParts DEF Counted
<1>9. Referenced(r, p, h) /\ AtOnce(r, p)
  BY <1>4, SoundParts DEF Referenced, AtOnce
<1>10. Sound(r, p, h, L)
  BY <1>5, <1>6, <1>7, <1>8, <1>9, SoundParts DEF Sound
<1>11. Keeps(r, s, {"rsp"})
  BY <1>3, SameKeeps
<1>12. r.rsp[i] = v
  BY <1>2, <1>3
<1> QED BY <1>10, <1>11, <1>12 DEF r, w

(* The queues of the interconnect.                                         *)
LEMMA Appended ==
  ASSUME NEW Q \in Seq(Trans), NEW x \in Trans
  PROVE  LET R == Append(Q, x)
         IN /\ R \in Seq(Trans) /\ R # << >> /\ Len(R) = Len(Q) + 1 /\ Len(Q) \in Nat
            /\ R[Len(R)] = x /\ \A k \in 1..Len(Q) : R[k] = Q[k]
OBVIOUS

LEMMA Tailed ==
  ASSUME NEW Q \in Seq(Trans), Q # << >>
  PROVE  LET R == Tail(Q)
         IN /\ Head(Q) = Q[1] /\ Head(Q) \in Trans /\ Len(Q) \in Nat \ {0}
            /\ R \in Seq(Trans) /\ Len(R) = Len(Q) - 1
            /\ \A k \in 1..Len(R) : R[k] = Q[k + 1]
OBVIOUS

(* One queue: everything in it is at its place, once.                      *)
Once(Q, p, place) ==
  \A k \in 1..Len(Q) : p[Q[k]] = place /\ \A m \in 1..Len(Q) : Q[m] = Q[k] => m = k

LEMMA AppendOnce ==
  ASSUME NEW Q \in Seq(Trans), NEW x \in Trans, NEW p, NEW q, NEW place, Once(Q, p, place),
         p[x] # place, Moved(q, p, x, place)
  PROVE  Once(Append(Q, x), q, place)
<1> DEFINE R == Append(Q, x)
<1>1. /\ R \in Seq(Trans) /\ Len(R) = Len(Q) + 1 /\ Len(Q) \in Nat /\ R[Len(R)] = x
      /\ \A k \in 1..Len(Q) : R[k] = Q[k]
  BY Appended
<1> HIDE DEF R
<1>2. \A k \in 1..Len(Q) : Q[k] \in Trans /\ Q[k] # x /\ q[Q[k]] = place
  BY DEF Once, Moved
<1>3. \A k \in 1..Len(R) : k \in 1..Len(Q) \/ k = Len(R)
  BY <1>1
<1> SUFFICES ASSUME NEW k \in 1..Len(R)
             PROVE  q[R[k]] = place /\ \A m \in 1..Len(R) : R[m] = R[k] => m = k
  BY DEF Once, R
<1>4. CASE k \in 1..Len(Q)
  BY <1>1, <1>2, <1>3, <1>4 DEF Once
<1>5. CASE k = Len(R)
  BY <1>1, <1>2, <1>3, <1>5 DEF Moved
<1> QED BY <1>3, <1>4, <1>5

LEMMA TailOnce ==
  ASSUME NEW Q \in Seq(Trans), Q # << >>, NEW p, NEW q, NEW place, Once(Q, p, place), NEW k,
         Moved(q, p, Head(Q), k)
  PROVE  p[Head(Q)] = place /\ Once(Tail(Q), q, place)
<1> DEFINE R == Tail(Q)
           x == Head(Q)
<1>1. /\ x = Q[1] /\ R \in Seq(Trans) /\ Len(R) = Len(Q) - 1 /\ Len(Q) \in Nat \ {0}
      /\ \A n \in 1..Len(R) : R[n] = Q[n + 1]
  BY Tailed
<1> HIDE DEF R, x
<1>2. p[x] = place
  BY <1>1 DEF Once
<1>3. \A n \in 1..Len(R) : n + 1 \in 1..Len(Q) /\ R[n] \in Trans
  BY <1>1
<1> SUFFICES ASSUME NEW n \in 1..Len(R)
             PROVE  q[R[n]] = place /\ \A m \in 1..Len(R) : R[m] = R[n] => m = n
  BY <1>2 DEF Once, R, x
<1>4. R[n] = Q[n + 1] /\ n + 1 \in 1..Len(Q) /\ 1 \in 1..Len(Q) /\ n + 1 # 1
  BY <1>1, <1>3
<1>5. R[n] # x /\ p[R[n]] = place
  BY <1>1, <1>4 DEF Once
<1>6. q[R[n]] = place
  BY <1>3, <1>5 DEF Moved, x
<1>7. ASSUME NEW m \in 1..Len(R), R[m] = R[n] PROVE m = n
  <2>1. m + 1 = n + 1
    BY <1>1, <1>3, <1>4, <1>7 DEF Once
  <2> QED BY <2>1
<1> QED BY <1>6, <1>7

LEMMA QueuedOnce ==
  ASSUME NEW s, NEW p
  PROVE  Queued(s, p) <=>
           /\ \A t \in Targets : /\ Once(s.req_queue[t], p, "req_queue")
                                 /\ \A k \in 1..Len(s.req_queue[t]) :
                                      s.trans[s.req_queue[t][k]].target = t
           /\ \A i \in Inits : /\ Once(s.rsp_queue[i], p, "rsp_queue")
                               /\ \A k \in 1..Len(s.rsp_queue[i]) :
                                    s.trans[s.rsp_queue[i][k]].init = i
BY DEF Queued, Once


(* A request or a response is put into a queue, with a reference.          *)
LEMMA QueueReqSound ==
  ASSUME NEW s, NEW p, NEW h, NEW L, Sound(s, p, h, L), NEW x \in Trans, NEW t \in Targets,
         s.trans[x].target = t, p[x] = "sent", s.req[t] # Null
  PROVE  LET r == [Acquire(s, x) EXCEPT !.req_queue[t] = Append(@, x)]
         IN Sound(r, [p EXCEPT ![x] = "req_queue"], h, L) /\ Keeps(r, s, {"trans", "req_queue"})
<1> DEFINE d == Acquire(s, x)
           R == Append(d.req_queue[t], x)
           w == [d.req_queue EXCEPT ![t] = R]
           r == [d EXCEPT !.req_queue = w]
           q == [p EXCEPT ![x] = "req_queue"]
<1>r. [Acquire(s, x) EXCEPT !.req_queue[t] = Append(@, x)] = r
  BY DEF Acquire
<1>0. /\ Sound(d, p, h, L) /\ OnlyTrans(d, s, x) /\ SameRoutes(d, s)
      /\ d.trans[x].ref = s.trans[x].ref + 1
  BY AcquireSound
<1> HIDE DEF d
<1>d. /\ d.req = s.req /\ Keeps(d, s, {"trans"}) /\ d.trans[x].target = t
      /\ d.trans[x].dont_propagate_fw = s.trans[x].dont_propagate_fw
  BY <1>0 DEF OnlyTrans, Unchanged, Core, Keeps, SameRoutes, SameRoute
<1>1. Typed(d) /\ d.req_queue \in [Targets -> Seq(Trans)] /\ d.req_queue[t] \in Seq(Trans)
  BY <1>0, SoundParts DEF Typed
<1>2. R \in Seq(Trans) /\ \A k \in 1..Len(R) : R[k] = x \/ \E m \in 1..Len(d.req_queue[t]) : R[k] = d.req_queue[t][m]
  BY <1>1, Appended
<1> HIDE DEF R
<1>3. /\ w \in [Targets -> Seq(Trans)] /\ w[t] = R
      /\ \A u \in Targets : u # t => w[u] = d.req_queue[u]
  BY <1>1, <1>2
<1> HIDE DEF w
<1>4. Same(r, d, {"req_queue"}) /\ r.req_queue = w
  BY <1>0, SoundParts, Set
<1> HIDE DEF r
<1>5. /\ r.init = d.init /\ r.targ = d.targ /\ r.req = d.req /\ r.rsp = d.rsp
      /\ r.rsp_queue = d.rsp_queue /\ r.trans = d.trans /\ r.peq = d.peq /\ r.overdue = d.overdue
      /\ r.runnable = d.runnable /\ IsState(r)
  BY <1>4 DEF Same, Fields
<1>6. Moved(q, p, x, "req_queue") /\ x # Null /\ SameTypes(r, d)
  BY <1>5, SoundParts, Moving, TLMAssumption DEF Places, Null, SameTypes
<1> HIDE DEF q
<1>7. Typed(r) /\ Watched(r) /\ Awake(r)
  <2>1. Watched(d) /\ Awake(d)
    BY <1>0, SoundParts
  <2>2. Typed(r)
    BY <1>1, <1>3, <1>4, <1>5 DEF Typed
  <2>3. Watched(r) /\ Awake(r)
    BY <1>d, <1>3, <1>4, <1>5, <2>1 DEF Watched, Awake
  <2> QED BY <2>2, <2>3
<1>8. Initiating(r, q)
  <2>1. \A i \in Inits : d.init[i].req = x => "req_queue" \in ByInitiator \ {"cur"} /\ r.trans[x].init = i
    BY <1>0, <1>5, <1>6, SoundParts DEF Initiating, ByInitiator
  <2> QED BY <1>0, <1>5, <1>6, <2>1, Kept
<1>9. Queued(r, q)
  <2>1. Queued(d, p)
    BY <1>0, SoundParts
  <2>2. /\ \A u \in Targets : \A k \in 1..Len(d.req_queue[u]) : d.req_queue[u][k] \in Trans
        /\ \A u \in Inits : \A k \in 1..Len(d.rsp_queue[u]) : d.rsp_queue[u][k] \in Trans
    <3>1. ASSUME NEW u \in Targets, NEW k \in 1..Len(d.req_queue[u]) PROVE d.req_queue[u][k] \in Trans
      BY <1>1, <3>1 DEF Typed
    <3>2. ASSUME NEW u \in Inits, NEW k \in 1..Len(d.rsp_queue[u]) PROVE d.rsp_queue[u][k] \in Trans
      BY <1>1, <3>2 DEF Typed
    <3> QED BY <3>1, <3>2
  <2>3. ASSUME NEW u \in Inits
        PROVE  /\ Once(r.rsp_queue[u], q, "rsp_queue")
               /\ \A k \in 1..Len(r.rsp_queue[u]) : r.trans[r.rsp_queue[u][k]].init = u
    BY <1>5, <1>6, <2>1, <2>2, <2>3 DEF Queued, Once, Moved
  <2>4. ASSUME NEW u \in Targets
        PROVE  /\ Once(r.req_queue[u], q, "req_queue")
               /\ \A k \in 1..Len(r.req_queue[u]) : r.trans[r.req_queue[u][k]].target = u
    <3>1. CASE u # t
      <4>1. r.req_queue[u] = d.req_queue[u]
        BY <1>3, <1>4, <3>1
      <4> QED BY <1>5, <1>6, <2>1, <2>2, <4>1 DEF Queued, Once, Moved
    <3>2. CASE u = t
      <4>1. r.req_queue[u] = R
        BY <1>3, <1>4, <3>2
      <4>2. Once(d.req_queue[t], p, "req_queue")
        BY <2>1, QueuedOnce
      <4>3. Once(R, q, "req_queue")
        BY <1>1, <1>6, <4>2, AppendOnce DEF R
      <4>4. \A k \in 1..Len(R) : r.trans[R[k]].target = t
        BY <1>d, <1>2, <1>5, <2>1 DEF Queued
      <4> QED BY <3>2, <4>1, <4>3, <4>4
    <3> QED BY <3>1, <3>2
  <2> QED BY <2>3, <2>4, QueuedOnce
<1>10. Pointed(r, q, L) /\ Posted(r, q)
  BY <1>0, <1>5, <1>6, Kept
<1>11. Counted(r, q) /\ AtOnce(r, q)
  <2>1. /\ "sent" \in InPipe <=> "req_queue" \in InPipe
        /\ "sent" \in Routed
    BY DEF InPipe, ByTarget, Routed, Places, InHand
  <2>2. r.trans[x].dont_propagate_fw => r.targ[r.trans[x].target].type = "E"
    BY <1>0, <1>5, <2>1, SoundParts DEF AtOnce
  <2> QED BY <1>0, <1>5, <1>6, <2>1, <2>2, Kept
<1>12. Referenced(r, q, h)
  <2>1. /\ s.trans[x].ref \in Int
        /\ s.trans[x].ref >= Need(p[x], s.trans[x].dont_propagate_fw) + One(x = h)
        /\ One(x = h) \in Nat
    BY TransField
  <2>2. \A b \in BOOLEAN : Need("req_queue", b) = Need("sent", b) + 1 /\ Need("sent", b) \in Nat
    BY DEF Need, One, ByInitiator, ByTarget, ByQueue
  <2>3. s.trans[x].dont_propagate_fw \in BOOLEAN
    BY TransField
  <2>4. r.trans[x].ref >= Need("req_queue", r.trans[x].dont_propagate_fw) + One(x = h)
    BY <1>0, <1>d, <1>5, <2>1, <2>2, <2>3
  <2>5. \A y \in Trans : y # x => r.trans[y] = d.trans[y]
    BY <1>5
  <2> QED BY <1>0, <1>6, <2>4, <2>5, KeptReferenced
<1>13. Sound(r, q, h, L)
  BY <1>6, <1>7, <1>8, <1>9, <1>10, <1>11, <1>12 DEF Sound, Moved
<1>14. Keeps(r, s, {"trans", "req_queue"})
  <2>1. Keeps(r, d, {"req_queue"})
    BY <1>4, SameKeeps
  <2> QED BY <1>d, <2>1, KeepsMore
<1> QED BY <1>r, <1>13, <1>14 DEF q

LEMMA QueueRspSound ==
  ASSUME NEW s, NEW p, NEW h, NEW L, Sound(s, p, h, L), NEW x \in Trans, NEW i \in Inits,
         s.trans[x].init = i, p[x] = "served", s.rsp[i] # Null
  PROVE  LET r == QueueRsp(s, i, x)
         IN Sound(r, [p EXCEPT ![x] = "rsp_queue"], h, L) /\ Keeps(r, s, {"trans", "rsp_queue"})
<1> DEFINE d == Acquire(s, x)
           R == Append(d.rsp_queue[i], x)
           w == [d.rsp_queue EXCEPT ![i] = R]
           r == [d EXCEPT !.rsp_queue = w]
           q == [p EXCEPT ![x] = "rsp_queue"]
<1>r. QueueRsp(s, i, x) = r
  BY DEF Acquire, QueueRsp
<1>0. /\ Sound(d, p, h, L) /\ OnlyTrans(d, s, x) /\ SameRoutes(d, s)
      /\ d.trans[x].ref = s.trans[x].ref + 1
  BY AcquireSound
<1> HIDE DEF d
<1>d. /\ d.rsp = s.rsp /\ Keeps(d, s, {"trans"}) /\ d.trans[x].init = i
      /\ d.trans[x].dont_propagate_fw = s.trans[x].dont_propagate_fw
  BY <1>0 DEF OnlyTrans, Unchanged, Core, Keeps, SameRoutes, SameRoute
<1>1. Typed(d) /\ d.rsp_queue \in [Inits -> Seq(Trans)] /\ d.rsp_queue[i] \in Seq(Trans)
  BY <1>0, SoundParts DEF Typed
<1>2. R \in Seq(Trans) /\ \A k \in 1..Len(R) : R[k] = x \/ \E m \in 1..Len(d.rsp_queue[i]) : R[k] = d.rsp_queue[i][m]
  BY <1>1, Appended
<1> HIDE DEF R
<1>3. /\ w \in [Inits -> Seq(Trans)] /\ w[i] = R
      /\ \A u \in Inits : u # i => w[u] = d.rsp_queue[u]
  BY <1>1, <1>2
<1> HIDE DEF w
<1>4. Same(r, d, {"rsp_queue"}) /\ r.rsp_queue = w
  BY <1>0, SoundParts, Set
<1> HIDE DEF r
<1>5. /\ r.init = d.init /\ r.targ = d.targ /\ r.req = d.req /\ r.rsp = d.rsp
      /\ r.req_queue = d.req_queue /\ r.trans = d.trans /\ r.peq = d.peq /\ r.overdue = d.overdue
      /\ r.runnable = d.runnable /\ IsState(r)
  BY <1>4 DEF Same, Fields
<1>6. Moved(q, p, x, "rsp_queue") /\ x # Null /\ SameTypes(r, d)
  BY <1>5, SoundParts, Moving, TLMAssumption DEF Places, Null, SameTypes
<1> HIDE DEF q
<1>7. Typed(r) /\ Watched(r) /\ Awake(r)
  <2>1. Watched(d) /\ Awake(d)
    BY <1>0, SoundParts
  <2>2. Typed(r)
    BY <1>1, <1>3, <1>4, <1>5 DEF Typed
  <2>3. Watched(r) /\ Awake(r)
    BY <1>d, <1>3, <1>4, <1>5, <2>1 DEF Watched, Awake
  <2> QED BY <2>2, <2>3
<1>8. Initiating(r, q)
  <2>1. \A j \in Inits : d.init[j].req = x => "rsp_queue" \in ByInitiator \ {"cur"} /\ r.trans[x].init = j
    BY <1>0, <1>5, <1>6, SoundParts DEF Initiating, ByInitiator
  <2> QED BY <1>0, <1>5, <1>6, <2>1, Kept
<1>9. Queued(r, q)
  <2>1. Queued(d, p)
    BY <1>0, SoundParts
  <2>2. /\ \A u \in Targets : \A k \in 1..Len(d.req_queue[u]) : d.req_queue[u][k] \in Trans
        /\ \A u \in Inits : \A k \in 1..Len(d.rsp_queue[u]) : d.rsp_queue[u][k] \in Trans
    <3>1. ASSUME NEW u \in Targets, NEW k \in 1..Len(d.req_queue[u]) PROVE d.req_queue[u][k] \in Trans
      BY <1>1, <3>1 DEF Typed
    <3>2. ASSUME NEW u \in Inits, NEW k \in 1..Len(d.rsp_queue[u]) PROVE d.rsp_queue[u][k] \in Trans
      BY <1>1, <3>2 DEF Typed
    <3> QED BY <3>1, <3>2
  <2>3. ASSUME NEW u \in Targets
        PROVE  /\ Once(r.req_queue[u], q, "req_queue")
               /\ \A k \in 1..Len(r.req_queue[u]) : r.trans[r.req_queue[u][k]].target = u
    BY <1>5, <1>6, <2>1, <2>2, <2>3 DEF Queued, Once, Moved
  <2>4. ASSUME NEW u \in Inits
        PROVE  /\ Once(r.rsp_queue[u], q, "rsp_queue")
               /\ \A k \in 1..Len(r.rsp_queue[u]) : r.trans[r.rsp_queue[u][k]].init = u
    <3>1. CASE u # i
      <4>1. r.rsp_queue[u] = d.rsp_queue[u]
        BY <1>3, <1>4, <3>1
      <4> QED BY <1>5, <1>6, <2>1, <2>2, <4>1 DEF Queued, Once, Moved
    <3>2. CASE u = i
      <4>1. r.rsp_queue[u] = R
        BY <1>3, <1>4, <3>2
      <4>2. Once(d.rsp_queue[i], p, "rsp_queue")
        BY <2>1, QueuedOnce
      <4>3. Once(R, q, "rsp_queue")
        BY <1>1, <1>6, <4>2, AppendOnce DEF R
      <4>4. \A k \in 1..Len(R) : r.trans[R[k]].init = i
        BY <1>d, <1>2, <1>5, <2>1 DEF Queued
      <4> QED BY <3>2, <4>1, <4>3, <4>4
    <3> QED BY <3>1, <3>2
  <2> QED BY <2>3, <2>4, QueuedOnce
<1>10. Pointed(r, q, L) /\ Posted(r, q)
  BY <1>0, <1>5, <1>6, Kept
<1>11. Counted(r, q) /\ AtOnce(r, q)
  <2>1. /\ "served" \in InPipe <=> "rsp_queue" \in InPipe
        /\ "served" \in Routed
    BY DEF InPipe, ByTarget, Routed, Places, InHand
  <2>2. r.trans[x].dont_propagate_fw => r.targ[r.trans[x].target].type = "E"
    BY <1>0, <1>5, <2>1, SoundParts DEF AtOnce
  <2> QED BY <1>0, <1>5, <1>6, <2>1, <2>2, Kept
<1>12. Referenced(r, q, h)
  <2>1. /\ s.trans[x].ref \in Int
        /\ s.trans[x].ref >= Need(p[x], s.trans[x].dont_propagate_fw) + One(x = h)
        /\ One(x = h) \in Nat
    BY TransField
  <2>2. \A b \in BOOLEAN : Need("rsp_queue", b) = Need("served", b) + 1 /\ Need("served", b) \in Nat
    BY DEF Need, One, ByInitiator, ByTarget, ByQueue
  <2>3. s.trans[x].dont_propagate_fw \in BOOLEAN
    BY TransField
  <2>4. r.trans[x].ref >= Need("rsp_queue", r.trans[x].dont_propagate_fw) + One(x = h)
    BY <1>0, <1>d, <1>5, <2>1, <2>2, <2>3
  <2>5. \A y \in Trans : y # x => r.trans[y] = d.trans[y]
    BY <1>5
  <2> QED BY <1>0, <1>6, <2>4, <2>5, KeptReferenced
<1>13. Sound(r, q, h, L)
  BY <1>6, <1>7, <1>8, <1>9, <1>10, <1>11, <1>12 DEF Sound, Moved
<1>14. Keeps(r, s, {"trans", "rsp_queue"})
  <2>1. Keeps(r, d, {"rsp_queue"})
    BY <1>4, SameKeeps
  <2> QED BY <1>d, <2>1, KeepsMore
<1> QED BY <1>r, <1>13, <1>14 DEF q

(* The first one leaves; the reference of the queue is held until it is    *)
(* served.                                                                 *)
LEMMA TailReqSound ==
  ASSUME NEW s, NEW p, NEW L, Sound(s, p, Null, L), NEW t \in Targets, s.req_queue[t] # << >>
  PROVE  LET x == Head(s.req_queue[t])
             r == [s EXCEPT !.req_queue[t] = Tail(@)]
         IN /\ x \in Trans /\ s.trans[x].target = t
            /\ Sound(r, [p EXCEPT ![x] = "sent"], x, L) /\ Keeps(r, s, {"req_queue"})
<1> DEFINE x == Head(s.req_queue[t])
           R == Tail(s.req_queue[t])
           w == [s.req_queue EXCEPT ![t] = R]
           r == [s EXCEPT !.req_queue = w]
           q == [p EXCEPT ![x] = "sent"]
<1>r. [s EXCEPT !.req_queue[t] = Tail(@)] = r
  OBVIOUS
<1>1. Typed(s) /\ s.req_queue \in [Targets -> Seq(Trans)] /\ s.req_queue[t] \in Seq(Trans)
      /\ Queued(s, p)
  BY SoundParts DEF Typed
<1>2. /\ R \in Seq(Trans) /\ x \in Trans /\ x = s.req_queue[t][1]
      /\ Len(s.req_queue[t]) \in Nat \ {0}
      /\ \A k \in 1..Len(R) : \E m \in 1..Len(s.req_queue[t]) : R[k] = s.req_queue[t][m]
  <2>1. Len(R) = Len(s.req_queue[t]) - 1 /\ \A k \in 1..Len(R) : R[k] = s.req_queue[t][k + 1]
    BY <1>1, Tailed
  <2>2. R \in Seq(Trans) /\ x \in Trans /\ x = s.req_queue[t][1] /\ Len(s.req_queue[t]) \in Nat \ {0}
    BY <1>1, Tailed
  <2> HIDE DEF R
  <2>3. \A k \in 1..Len(R) : k + 1 \in 1..Len(s.req_queue[t])
    BY <2>1, <2>2
  <2> QED BY <2>1, <2>2, <2>3
<1>x. p[x] = "req_queue" /\ s.trans[x].target = t
  <2>1. 1 \in 1..Len(s.req_queue[t])
    BY <1>2
  <2> QED BY <1>1, <1>2, <2>1 DEF Queued
<1> HIDE DEF R, x
<1>3. /\ w \in [Targets -> Seq(Trans)] /\ w[t] = R
      /\ \A u \in Targets : u # t => w[u] = s.req_queue[u]
  BY <1>1, <1>2
<1> HIDE DEF w
<1>4. Same(r, s, {"req_queue"}) /\ r.req_queue = w
  BY SoundParts, Set
<1> HIDE DEF r
<1>5. /\ r.init = s.init /\ r.targ = s.targ /\ r.req = s.req /\ r.rsp = s.rsp
      /\ r.rsp_queue = s.rsp_queue /\ r.trans = s.trans /\ r.peq = s.peq /\ r.overdue = s.overdue
      /\ r.runnable = s.runnable /\ IsState(r)
  BY <1>4 DEF Same, Fields
<1>6. /\ Moved(q, p, x, "sent") /\ x # Null /\ SameTypes(r, s)
      /\ \A y \in Trans : y # x => r.trans[y] = s.trans[y]
  BY <1>2, <1>5, SoundParts, Moving, TLMAssumption DEF Places, InHand, Null, SameTypes
<1> HIDE DEF q
<1>7. Typed(r) /\ Watched(r) /\ Awake(r)
  <2>1. Watched(s) /\ Awake(s)
    BY SoundParts
  <2>2. Typed(r)
    BY <1>1, <1>3, <1>4, <1>5 DEF Typed
  <2>3. Watched(r) /\ Awake(r)
    BY <1>3, <1>4, <1>5, <2>1 DEF Watched, Awake
  <2> QED BY <2>2, <2>3
<1>8. Initiating(r, q)
  <2>1. \A i \in Inits : s.init[i].req = x => "sent" \in ByInitiator \ {"cur"} /\ r.trans[x].init = i
    BY <1>x, <1>5, <1>6, SoundParts DEF Initiating, ByInitiator
  <2> QED BY <1>2, <1>x, <1>5, <1>6, <2>1, Kept
<1>9. Queued(r, q)
  <2>2. /\ \A u \in Targets : \A k \in 1..Len(s.req_queue[u]) : s.req_queue[u][k] \in Trans
        /\ \A u \in Inits : \A k \in 1..Len(s.rsp_queue[u]) : s.rsp_queue[u][k] \in Trans
    <3>1. ASSUME NEW u \in Targets, NEW k \in 1..Len(s.req_queue[u]) PROVE s.req_queue[u][k] \in Trans
      BY <1>1, <3>1 DEF Typed
    <3>2. ASSUME NEW u \in Inits, NEW k \in 1..Len(s.rsp_queue[u]) PROVE s.rsp_queue[u][k] \in Trans
      BY <1>1, <3>2 DEF Typed
    <3> QED BY <3>1, <3>2
  <2>3. ASSUME NEW u \in Inits
        PROVE  /\ Once(r.rsp_queue[u], q, "rsp_queue")
               /\ \A k \in 1..Len(r.rsp_queue[u]) : r.trans[r.rsp_queue[u][k]].init = u
    BY <1>x, <1>1, <1>5, <1>6, <2>2, <2>3 DEF Queued, Once, Moved
  <2>4. ASSUME NEW u \in Targets
        PROVE  /\ Once(r.req_queue[u], q, "req_queue")
               /\ \A k \in 1..Len(r.req_queue[u]) : r.trans[r.req_queue[u][k]].target = u
    <3>1. CASE u # t
      <4>1. r.req_queue[u] = s.req_queue[u]
        BY <1>3, <1>4, <3>1
      <4>2. \A k \in 1..Len(s.req_queue[u]) : s.req_queue[u][k] # x
        BY <1>x, <1>1, <3>1 DEF Queued
      <4>3. Once(r.req_queue[u], q, "req_queue")
        <5>1. Once(s.req_queue[u], p, "req_queue")
          BY <1>1, QueuedOnce
        <5> QED BY <1>6, <2>2, <4>1, <4>2, <5>1 DEF Once, Moved
      <4>4. \A k \in 1..Len(r.req_queue[u]) : r.trans[r.req_queue[u][k]].target = u
        BY <1>1, <1>5, <4>1 DEF Queued
      <4> QED BY <4>3, <4>4
    <3>2. CASE u = t
      <4>1. r.req_queue[u] = R
        BY <1>3, <1>4, <3>2
      <4>2. Once(s.req_queue[t], p, "req_queue")
        BY <1>1, QueuedOnce
      <4>3. Once(R, q, "req_queue")
        BY <1>1, <1>6, <4>2, TailOnce DEF R, x
      <4>4. ASSUME NEW k \in 1..Len(R) PROVE r.trans[R[k]].target = t
        <5>1. PICK m \in 1..Len(s.req_queue[t]) : R[k] = s.req_queue[t][m]
          BY <1>2
        <5> QED BY <1>1, <1>5, <5>1 DEF Queued
      <4> QED BY <3>2, <4>1, <4>3, <4>4
    <3> QED BY <3>1, <3>2
  <2> QED BY <2>3, <2>4, QueuedOnce
<1>10. Pointed(r, q, L) /\ Posted(r, q)
  <2>1. p[x] \notin {"next", "stalled", "begin_req", "internal", "begin_resp", "end_resp", "accepted"}
    BY <1>x
  <2>2. Pointed(r, q, L)
    BY <1>2, <1>5, <1>6, <2>1, Kept
  <2>3. Posted(r, q)
    BY <1>2, <1>5, <1>6, <2>1, Kept
  <2> QED BY <2>2, <2>3
<1>11. Counted(r, q) /\ AtOnce(r, q)
  <2>1. /\ "sent" \in InPipe <=> "req_queue" \in InPipe
        /\ "req_queue" \in Routed
    BY DEF InPipe, ByTarget, Routed, Places, InHand
  <2>2. r.trans[x].dont_propagate_fw => r.targ[r.trans[x].target].type = "E"
    BY SMTT(30), <1>2, <1>x, <1>5, <2>1, SoundParts DEF AtOnce
  <2> QED BY SMTT(30), <1>2, <1>x, <1>5, <1>6, <2>1, <2>2, Kept
<1>12. Referenced(r, q, x)
  <2>1. \A b : Need("req_queue", b) + One(x = Null) = Need("sent", b) + One(x = x)
    BY <1>6 DEF Need, One, ByInitiator, ByTarget, ByQueue
  <2>2. \A b : Need("sent", b) + One(x = x) \in Int
    BY DEF Need, One
  <2>3. Need("sent", s.trans[x].dont_propagate_fw) + One(x = x)
          <= Need(p[x], s.trans[x].dont_propagate_fw) + One(x = Null)
    BY <1>x, <2>1, <2>2
  <2> QED BY <1>2, <1>5, <1>6, <2>3, SameReferenced
<1>13. Sound(r, q, x, L)
  BY <1>6, <1>7, <1>8, <1>9, <1>10, <1>11, <1>12 DEF Sound, Moved
<1>14. Keeps(r, s, {"req_queue"})
  BY <1>4, SameKeeps
<1> QED BY <1>r, <1>2, <1>x, <1>13, <1>14 DEF q, x

LEMMA TailRspSound ==
  ASSUME NEW s, NEW p, NEW L, Sound(s, p, Null, L), NEW i \in Inits, s.rsp_queue[i] # << >>
  PROVE  LET x == Head(s.rsp_queue[i])
             r == [s EXCEPT !.rsp_queue[i] = Tail(@)]
         IN /\ x \in Trans /\ s.trans[x].init = i
            /\ Sound(r, [p EXCEPT ![x] = "served"], x, L) /\ Keeps(r, s, {"rsp_queue"})
<1> DEFINE x == Head(s.rsp_queue[i])
           R == Tail(s.rsp_queue[i])
           w == [s.rsp_queue EXCEPT ![i] = R]
           r == [s EXCEPT !.rsp_queue = w]
           q == [p EXCEPT ![x] = "served"]
<1>r. [s EXCEPT !.rsp_queue[i] = Tail(@)] = r
  OBVIOUS
<1>1. Typed(s) /\ s.rsp_queue \in [Inits -> Seq(Trans)] /\ s.rsp_queue[i] \in Seq(Trans)
      /\ Queued(s, p)
  BY SoundParts DEF Typed
<1>2. /\ R \in Seq(Trans) /\ x \in Trans /\ x = s.rsp_queue[i][1]
      /\ Len(s.rsp_queue[i]) \in Nat \ {0}
      /\ \A k \in 1..Len(R) : \E m \in 1..Len(s.rsp_queue[i]) : R[k] = s.rsp_queue[i][m]
  <2>1. Len(R) = Len(s.rsp_queue[i]) - 1 /\ \A k \in 1..Len(R) : R[k] = s.rsp_queue[i][k + 1]
    BY <1>1, Tailed
  <2>2. R \in Seq(Trans) /\ x \in Trans /\ x = s.rsp_queue[i][1] /\ Len(s.rsp_queue[i]) \in Nat \ {0}
    BY <1>1, Tailed
  <2> HIDE DEF R
  <2>3. \A k \in 1..Len(R) : k + 1 \in 1..Len(s.rsp_queue[i])
    BY <2>1, <2>2
  <2> QED BY <2>1, <2>2, <2>3
<1>x. p[x] = "rsp_queue" /\ s.trans[x].init = i
  <2>1. 1 \in 1..Len(s.rsp_queue[i])
    BY <1>2
  <2> QED BY <1>1, <1>2, <2>1 DEF Queued
<1> HIDE DEF R, x
<1>3. /\ w \in [Inits -> Seq(Trans)] /\ w[i] = R
      /\ \A u \in Inits : u # i => w[u] = s.rsp_queue[u]
  BY <1>1, <1>2
<1> HIDE DEF w
<1>4. Same(r, s, {"rsp_queue"}) /\ r.rsp_queue = w
  BY SoundParts, Set
<1> HIDE DEF r
<1>5. /\ r.init = s.init /\ r.targ = s.targ /\ r.req = s.req /\ r.rsp = s.rsp
      /\ r.req_queue = s.req_queue /\ r.trans = s.trans /\ r.peq = s.peq /\ r.overdue = s.overdue
      /\ r.runnable = s.runnable /\ IsState(r)
  BY <1>4 DEF Same, Fields
<1>6. /\ Moved(q, p, x, "served") /\ x # Null /\ SameTypes(r, s)
      /\ \A y \in Trans : y # x => r.trans[y] = s.trans[y]
  BY <1>2, <1>5, SoundParts, Moving, TLMAssumption DEF Places, InHand, Null, SameTypes
<1> HIDE DEF q
<1>7. Typed(r) /\ Watched(r) /\ Awake(r)
  <2>1. Watched(s) /\ Awake(s)
    BY SoundParts
  <2>2. Typed(r)
    BY <1>1, <1>3, <1>4, <1>5 DEF Typed
  <2>3. Watched(r) /\ Awake(r)
    BY <1>3, <1>4, <1>5, <2>1 DEF Watched, Awake
  <2> QED BY <2>2, <2>3
<1>8. Initiating(r, q)
  <2>1. \A j \in Inits : s.init[j].req = x => "served" \in ByInitiator \ {"cur"} /\ r.trans[x].init = j
    BY <1>x, <1>5, <1>6, SoundParts DEF Initiating, ByInitiator
  <2> QED BY <1>2, <1>x, <1>5, <1>6, <2>1, Kept
<1>9. Queued(r, q)
  <2>2. /\ \A u \in Targets : \A k \in 1..Len(s.req_queue[u]) : s.req_queue[u][k] \in Trans
        /\ \A u \in Inits : \A k \in 1..Len(s.rsp_queue[u]) : s.rsp_queue[u][k] \in Trans
    <3>1. ASSUME NEW u \in Targets, NEW k \in 1..Len(s.req_queue[u]) PROVE s.req_queue[u][k] \in Trans
      BY <1>1, <3>1 DEF Typed
    <3>2. ASSUME NEW u \in Inits, NEW k \in 1..Len(s.rsp_queue[u]) PROVE s.rsp_queue[u][k] \in Trans
      BY <1>1, <3>2 DEF Typed
    <3> QED BY <3>1, <3>2
  <2>3. ASSUME NEW u \in Targets
        PROVE  /\ Once(r.req_queue[u], q, "req_queue")
               /\ \A k \in 1..Len(r.req_queue[u]) : r.trans[r.req_queue[u][k]].target = u
    BY <1>x, <1>1, <1>5, <1>6, <2>2, <2>3 DEF Queued, Once, Moved
  <2>4. ASSUME NEW u \in Inits
        PROVE  /\ Once(r.rsp_queue[u], q, "rsp_queue")
               /\ \A k \in 1..Len(r.rsp_queue[u]) : r.trans[r.rsp_queue[u][k]].init = u
    <3>1. CASE u # i
      <4>1. r.rsp_queue[u] = s.rsp_queue[u]
        BY <1>3, <1>4, <3>1
      <4>2. \A k \in 1..Len(s.rsp_queue[u]) : s.rsp_queue[u][k] # x
        BY <1>x, <1>1, <3>1 DEF Queued
      <4> QED BY <1>1, <1>5, <1>6, <2>2, <4>1, <4>2 DEF Queued, Once, Moved
    <3>2. CASE u = i
      <4>1. r.rsp_queue[u] = R
        BY <1>3, <1>4, <3>2
      <4>2. Once(s.rsp_queue[i], p, "rsp_queue")
        BY <1>1, QueuedOnce
      <4>3. Once(R, q, "rsp_queue")
        BY <1>1, <1>6, <4>2, TailOnce DEF R, x
      <4>4. ASSUME NEW k \in 1..Len(R) PROVE r.trans[R[k]].init = i
        <5>1. PICK m \in 1..Len(s.rsp_queue[i]) : R[k] = s.rsp_queue[i][m]
          BY <1>2
        <5> QED BY <1>1, <1>5, <5>1 DEF Queued
      <4> QED BY <3>2, <4>1, <4>3, <4>4
    <3> QED BY <3>1, <3>2
  <2> QED BY <2>3, <2>4, QueuedOnce
<1>10. Pointed(r, q, L) /\ Posted(r, q)
  <2>1. p[x] \notin {"next", "stalled", "begin_req", "internal", "begin_resp", "end_resp", "accepted"}
    BY <1>x
  <2>2. Pointed(r, q, L)
    BY <1>2, <1>5, <1>6, <2>1, Kept
  <2>3. Posted(r, q)
    BY <1>2, <1>5, <1>6, <2>1, Kept
  <2> QED BY <2>2, <2>3
<1>11. Counted(r, q) /\ AtOnce(r, q)
  <2>1. /\ "served" \in InPipe <=> "rsp_queue" \in InPipe
        /\ "rsp_queue" \in Routed
    BY DEF InPipe, ByTarget, Routed, Places, InHand
  <2>2. r.trans[x].dont_propagate_fw => r.targ[r.trans[x].target].type = "E"
    BY SMTT(30), <1>2, <1>x, <1>5, <2>1, SoundParts DEF AtOnce
  <2> QED BY SMTT(30), <1>2, <1>x, <1>5, <1>6, <2>1, <2>2, Kept
<1>12. Referenced(r, q, x)
  <2>1. \A b : Need("rsp_queue", b) + One(x = Null) = Need("served", b) + One(x = x)
    BY <1>6 DEF Need, One, ByInitiator, ByTarget, ByQueue
  <2>2. \A b : Need("served", b) + One(x = x) \in Int
    BY DEF Need, One
  <2>3. Need("served", s.trans[x].dont_propagate_fw) + One(x = x)
          <= Need(p[x], s.trans[x].dont_propagate_fw) + One(x = Null)
    BY <1>x, <2>1, <2>2
  <2> QED BY <1>2, <1>5, <1>6, <2>3, SameReferenced
<1>13. Sound(r, q, x, L)
  BY <1>6, <1>7, <1>8, <1>9, <1>10, <1>11, <1>12 DEF Sound, Moved
<1>14. Keeps(r, s, {"rsp_queue"})
  BY <1>4, SameKeeps
<1> QED BY <1>r, <1>2, <1>x, <1>13, <1>14 DEF q, x


-----------------------------------------------------------------------------
(* An entry of an event queue comes out.                                   *)
LateWith(s, e) ==
  {f \in BagToSet(s.peq) : e.phase = "internal_ph" /\ f.phase = "END_REQ" /\ f.trans = e.trans}

Hurt(s, e) == {i \in InitsB : \E f \in LateWith(s, e) : f.at = i}

Without(s, e) ==
  LET late == [f \in LateWith(s, e) |-> s.peq[f]]
  IN [s EXCEPT !.peq = (@ (-) late) (-) SetToBag({e}),
               !.overdue = [entries |-> @.entries (+) late, inits |-> @.inits \cup Hurt(s, e)]]

(* What it leaves behind.                                                  *)
Leaves(r, s, e) ==
  /\ Less(r.peq, s.peq, e) /\ \A f \in DOMAIN r.peq : f \notin LateWith(s, e)
  /\ Joins(r.overdue.entries, s.overdue.entries, s.peq, LateWith(s, e))
  /\ r.overdue.inits = s.overdue.inits \cup Hurt(s, e)

LEMMA WithoutSame ==
  ASSUME NEW s, NEW p, NEW h, NEW L, Sound(s, p, h, L), NEW e \in DOMAIN s.peq
  PROVE  LET r == Without(s, e)
         IN /\ Same(r, s, {"peq", "overdue"}) /\ Leaves(r, s, e) /\ Less(r.peq, s.peq, e)
            /\ r.trans = s.trans /\ r.targ = s.targ
            /\ r.init = s.init /\ r.req_queue = s.req_queue /\ r.rsp_queue = s.rsp_queue
            /\ r.runnable = s.runnable /\ IsState(r) /\ Typed(r) /\ Watched(r) /\ Awake(r)
            /\ Keeps(r, s, {"peq", "overdue"}) /\ SameTypes(r, s)
<1> DEFINE S == LateWith(s, e)
           late == [f \in S |-> s.peq[f]]
           v == (s.peq (-) late) (-) SetToBag({e})
           E == s.overdue.entries (+) late
           I == s.overdue.inits \cup Hurt(s, e)
           w == [entries |-> E, inits |-> I]
           a == [s EXCEPT !.peq = v]
           r == Without(s, e)
<1>0. Typed(s) /\ Watched(s) /\ Awake(s) /\ IsState(s) /\ Posted(s, p)
  BY SoundParts
<1>1. r = [a EXCEPT !.overdue = w]
  BY DEF Without
<1>s. S \subseteq DOMAIN s.peq /\ e \notin S /\ \A f \in S : f.phase = "END_REQ"
  BY DEF LateWith, BagToSet
<1> HIDE DEF S
<1>2. Less(v, s.peq, e) /\ \A f \in DOMAIN v : f \notin S
  BY ZenonT(40), <1>0, <1>s, BagLessAll DEF Typed
<1>l. Joins(E, s.overdue.entries, s.peq, S)
  BY <1>0, <1>s, BagJoins DEF Typed, OverdueTyped
<1> HIDE DEF late
<1>v. IsABag(E) /\ DOMAIN E = DOMAIN s.overdue.entries \cup S
  BY <1>l DEF Joins
<1>i. I \subseteq InitsB
  BY <1>0 DEF Typed, OverdueTyped, Hurt
<1>w. w = [entries |-> E, inits |-> I] /\ w.entries = E /\ w.inits = I
  OBVIOUS
<1> HIDE DEF r, v, w, E, I
<1>3. Same(a, s, {"peq"}) /\ a.peq = v /\ IsState(a)
  BY <1>0, SetToo, SameState
<1> HIDE DEF a
<1>a. Same(r, a, {"overdue"}) /\ r.overdue = w
  BY <1>1, <1>3, SetToo
<1>4. /\ r.init = s.init /\ r.targ = s.targ /\ r.req = s.req /\ r.rsp = s.rsp
      /\ r.req_queue = s.req_queue /\ r.rsp_queue = s.rsp_queue /\ r.trans = s.trans
      /\ r.runnable = s.runnable /\ r.peq = v
  BY <1>3, <1>a DEF Same, Fields
<1>b. Same(r, s, {"peq", "overdue"}) /\ IsState(r)
  <2>1. Same(r, s, {"peq", "overdue"})
    BY <1>3, <1>a DEF Same
  <2> QED BY <2>1, SameState
<1>5. IsABag(r.peq) /\ DOMAIN r.peq \subseteq DOMAIN s.peq
  BY <1>2, <1>4 DEF Less
<1>6. OverdueTyped(r.overdue)
  <2>1. \A f \in S : f \in Entry /\ f.at \in Inits
    BY <1>0, <1>s DEF Typed, Posted
  <2>2. OverdueTyped(s.overdue)
    BY <1>0 DEF Typed
  <2> QED BY <1>a, <1>v, <1>i, <1>w, <1>s, <2>1, <2>2 DEF OverdueTyped
<1>7. Typed(r)
  BY <1>0, <1>4, <1>5, <1>6, <1>b DEF Typed
<1>8. Watched(r) /\ Awake(r)
  BY <1>0, <1>4 DEF Watched, Awake
<1>9. Keeps(r, s, {"peq", "overdue"}) /\ SameTypes(r, s)
  BY <1>b, <1>4, SameKeeps DEF SameTypes
<1>10. Leaves(r, s, e)
  BY <1>2, <1>4, <1>a, <1>l, <1>w DEF Leaves, S, I
<1> QED BY <1>2, <1>4, <1>7, <1>8, <1>9, <1>10, <1>b DEF r

(* The place of a transaction whose entry comes out.                       *)
PlaceAfter == [phase \in Phases \ {"END_REQ"} |->
                 CASE phase = "BEGIN_REQ" -> "sent"
                   [] phase = "internal_ph" -> "served"
                   [] phase = "BEGIN_RESP" -> "served"
                   [] phase = "END_RESP" -> "answered"]

LEMMA TakenSound ==
  ASSUME NEW s, NEW p, NEW h, NEW L, Sound(s, p, h, L), NEW e \in DOMAIN s.peq,
         e.phase # "END_REQ"
  PROVE  LET r == Without(s, e)
         IN /\ e.trans \in Trans /\ Sound(r, [p EXCEPT ![e.trans] = PlaceAfter[e.phase]], h, L)
            /\ Keeps(r, s, {"peq", "overdue"}) /\ r.targ = s.targ
<1> DEFINE r == Without(s, e)
           x == e.trans
           k == PlaceAfter[e.phase]
           q == [p EXCEPT ![x] = k]
<1>1. /\ Less(r.peq, s.peq, e) /\ r.trans = s.trans /\ r.targ = s.targ
      /\ r.init = s.init /\ r.req_queue = s.req_queue /\ r.rsp_queue = s.rsp_queue
      /\ Typed(r) /\ Watched(r) /\ Awake(r) /\ Keeps(r, s, {"peq", "overdue"}) /\ SameTypes(r, s)
  BY WithoutSame
<1>o. e.phase = "internal_ph" => \A f \in DOMAIN r.peq : ~(f.trans = x /\ f.phase = "END_REQ")
  <2>1. \A f \in DOMAIN r.peq : f \in DOMAIN s.peq /\ f \notin LateWith(s, e)
    BY WithoutSame DEF Leaves, Less
  <2> HIDE DEF r
  <2> QED BY <2>1 DEF LateWith, BagToSet
<1> HIDE DEF r
<1>2. /\ Typed(s) /\ Posted(s, p) /\ DOMAIN s.peq \subseteq Entry
  BY SoundParts DEF Typed
<1>3. x \in Trans /\ e.phase \in Phases \ {"END_REQ"} /\ x # Null
  BY <1>2, TLMAssumption DEF Entry, Null
<1>a. <<e.phase, p[x], k>> \in {<<"BEGIN_REQ", "begin_req", "sent">>,
        <<"internal_ph", "internal", "served">>, <<"BEGIN_RESP", "begin_resp", "served">>,
        <<"END_RESP", "end_resp", "answered">>}
  BY <1>2, <1>3 DEF Posted, PlaceOf, PlaceAfter, Phases
<1>b. s.peq[e] = 1
  BY <1>2 DEF Posted
<1> HIDE DEF x, k
<1>4. Moved(q, p, x, k)
  <2>1. k \in Places
    BY <1>a DEF Places, InHand
  <2> QED BY <1>3, <2>1, SoundParts, Moving
<1> HIDE DEF q
<1>5. /\ \A f \in DOMAIN r.peq : f \in DOMAIN s.peq /\ f # e /\ r.peq[f] = s.peq[f]
  BY <1>1, <1>b DEF Less
<1>6. \A f \in DOMAIN r.peq : f.trans # x
  <2> SUFFICES ASSUME NEW f \in DOMAIN r.peq, f.trans = x PROVE FALSE
    OBVIOUS
  <2>1. f \in Entry /\ e \in Entry /\ f \in DOMAIN s.peq /\ f # e
    BY <1>2, <1>5
  <2>2. f.phase # "END_REQ"
    BY <1>2, <1>a, <1>o, <2>1 DEF Posted, x
  <2>3. f.phase = e.phase
    <3>1. PlaceOf[f.phase] = PlaceOf[e.phase] /\ f.phase \in Phases \ {"END_REQ"}
      BY <1>2, <2>1, <2>2 DEF Posted, Entry, x
    <3> QED BY <1>3, <3>1 DEF PlaceOf, Phases
  <2>4. f.at = e.at
    BY <1>2, <1>3, <2>1, <2>2, <2>3 DEF Posted, Phases, x
  <2> QED BY <2>1, <2>3, <2>4 DEF Entry, x
<1>7. Posted(r, q)
  <2>1. \A f \in DOMAIN r.peq : f.trans \in Trans /\ q[f.trans] = p[f.trans]
    BY <1>2, <1>4, <1>5, <1>6 DEF Entry, Moved
  <2> QED BY <1>1, <1>2, <1>5, <2>1 DEF Posted
<1>8. Initiating(r, q)
  <2>1. \A i \in Inits : s.init[i].req = x => k \in ByInitiator \ {"cur"} /\ r.trans[x].init = i
    BY <1>1, <1>a, <1>3, SoundParts DEF Initiating, ByInitiator
  <2> QED BY <1>1, <1>3, <1>4, <1>a, <2>1, Kept
<1>9. Queued(r, q) /\ Pointed(r, q, L)
  BY <1>1, <1>3, <1>4, <1>a, Kept DEF ByQueue
<1>10. Counted(r, q) /\ AtOnce(r, q)
  <2>1. p[x] \in InPipe <=> k \in InPipe
    BY <1>a DEF InPipe, ByTarget
  <2>2. r.trans[x].dont_propagate_fw => r.targ[r.trans[x].target].type = "E"
    <3>1. p[x] \in Routed
      BY <1>a DEF Routed, Places, InHand
    <3> QED BY <1>1, <1>3, <3>1, SoundParts DEF AtOnce
  <2> QED BY <1>1, <1>3, <1>4, <2>1, <2>2, Kept
<1>11. Referenced(r, q, h)
  <2>1. Need(k, s.trans[x].dont_propagate_fw) + One(x = h)
          <= Need(p[x], s.trans[x].dont_propagate_fw) + One(x = h)
    BY <1>a DEF Need, One, ByInitiator, ByTarget, ByQueue
  <2> QED BY <1>1, <1>3, <1>4, <2>1, SameReferenced
<1>12. Sound(r, q, h, L)
  BY <1>1, <1>4, <1>7, <1>8, <1>9, <1>10, <1>11 DEF Sound, Moved
<1> QED BY <1>1, <1>3, <1>12 DEF r, q, x, k

LEMMA TakenEndReq ==
  ASSUME NEW s, NEW p, NEW h, NEW L, Sound(s, p, h, L), NEW e \in DOMAIN s.peq,
         e.phase = "END_REQ"
  PROVE  LET r == Without(s, e)
         IN Sound(r, p, h, L) /\ Keeps(r, s, {"peq", "overdue"})
<1> DEFINE r == Without(s, e)
<1>1. /\ Less(r.peq, s.peq, e) /\ r.trans = s.trans /\ r.targ = s.targ
      /\ r.init = s.init /\ r.req_queue = s.req_queue /\ r.rsp_queue = s.rsp_queue
      /\ Typed(r) /\ Watched(r) /\ Awake(r) /\ Keeps(r, s, {"peq", "overdue"})
  BY WithoutSame
<1> HIDE DEF r
<1>2. \A f \in DOMAIN r.peq : f \in DOMAIN s.peq /\ (s.peq[f] = 1 => r.peq[f] = 1)
  <2>1. ASSUME NEW f \in DOMAIN r.peq PROVE s.peq[f] = 1 => r.peq[f] = 1
    <3>1. CASE f = e
      BY <1>1, <2>1, <3>1 DEF Less
    <3>2. CASE f # e
      BY <1>1, <2>1, <3>2 DEF Less
    <3> QED BY <3>1, <3>2
  <2> QED BY <1>1, <2>1 DEF Less
<1>3. Posted(r, p)
  BY <1>1, <1>2, SoundParts DEF Posted
<1>4. Initiating(r, p) /\ Queued(r, p) /\ Pointed(r, p, L)
  BY SMTT(30), <1>1, SoundParts DEF Initiating, Queued, Pointed
<1>5. Counted(r, p)
  <2>1. \A u \in Targets : Pipe(r, p, u) = Pipe(s, p, u)
    BY <1>1 DEF Pipe
  <2> QED BY <1>1, <2>1, SoundParts DEF Counted
<1>6. Referenced(r, p, h) /\ AtOnce(r, p)
  BY <1>1, SoundParts DEF Referenced, AtOnce
<1>7. Sound(r, p, h, L)
  BY <1>1, <1>3, <1>4, <1>5, <1>6, SoundParts DEF Sound
<1> QED BY <1>1, <1>7 DEF r

(* So does one that is overdue.                                            *)
Late(s, e) == [s EXCEPT !.overdue.entries = @ (-) SetToBag({e})]

LEMMA TakenLateSound ==
  ASSUME NEW s, NEW p, NEW h, NEW L, Sound(s, p, h, L), NEW e \in DOMAIN s.overdue.entries
  PROVE  LET r == Late(s, e)
         IN /\ Sound(r, p, h, L) /\ Keeps(r, s, {"overdue"}) /\ Same(r, s, {"overdue"})
            /\ r.overdue.inits = s.overdue.inits
            /\ Less(r.overdue.entries, s.overdue.entries, e)
<1> DEFINE E == s.overdue.entries (-) SetToBag({e})
           w == [entries |-> E, inits |-> s.overdue.inits]
           r == Late(s, e)
<1>0. Typed(s) /\ Watched(s) /\ Awake(s) /\ IsState(s)
  BY SoundParts
<1>o. OverdueTyped(s.overdue)
  BY <1>0 DEF Typed
<1>1. r = [s EXCEPT !.overdue = w]
  <2>1. w = [s.overdue EXCEPT !.entries = E]
    BY <1>o DEF OverdueTyped
  <2>2. r = [s EXCEPT !.overdue = [s.overdue EXCEPT !.entries = E]]
    BY <1>0 DEF Late, IsState, Fields
  <2> HIDE DEF r, w
  <2> QED BY <2>1, <2>2
<1>l. Less(E, s.overdue.entries, e)
  BY <1>o, BagLess DEF OverdueTyped
<1>2. IsABag(E) /\ DOMAIN E \subseteq DOMAIN s.overdue.entries
  BY <1>l DEF Less
<1>w. w = [entries |-> E, inits |-> s.overdue.inits] /\ w.entries = E /\ w.inits = s.overdue.inits
  OBVIOUS
<1> HIDE DEF r, w, E
<1>3. Same(r, s, {"overdue"}) /\ r.overdue = w /\ IsState(r)
  BY <1>0, <1>1, SetToo, SameState
<1>4. /\ r.init = s.init /\ r.targ = s.targ /\ r.req = s.req /\ r.rsp = s.rsp
      /\ r.req_queue = s.req_queue /\ r.rsp_queue = s.rsp_queue /\ r.trans = s.trans
      /\ r.runnable = s.runnable /\ r.peq = s.peq
  BY <1>3 DEF Same, Fields
<1>5. Typed(r)
  <2>1. OverdueTyped(r.overdue)
    BY <1>o, <1>2, <1>3, <1>w DEF OverdueTyped
  <2> QED BY <1>0, <1>3, <1>4, <2>1 DEF Typed
<1>6. Watched(r) /\ Awake(r) /\ Posted(r, p)
  BY <1>0, <1>4, SoundParts DEF Watched, Awake, Posted
<1>7. Initiating(r, p) /\ Queued(r, p) /\ Pointed(r, p, L)
  BY SMTT(30), <1>4, SoundParts DEF Initiating, Queued, Pointed
<1>8. Counted(r, p)
  <2>1. \A u \in Targets : Pipe(r, p, u) = Pipe(s, p, u)
    BY <1>4 DEF Pipe
  <2> QED BY <1>4, <2>1, SoundParts DEF Counted
<1>9. Referenced(r, p, h) /\ AtOnce(r, p)
  BY <1>4, SoundParts DEF Referenced, AtOnce
<1>10. Sound(r, p, h, L)
  BY <1>5, <1>6, <1>7, <1>8, <1>9, SoundParts DEF Sound
<1>11. Keeps(r, s, {"overdue"})
  BY <1>3, SameKeeps
<1> QED BY <1>l, <1>3, <1>w, <1>10, <1>11 DEF r


-----------------------------------------------------------------------------
(* The fields of an initiator.                                             *)
Reinits(r, s, i, w) ==
  /\ Same(r, s, {"init"}) /\ r.init \in [Inits -> InitT] /\ r.init[i] = w
  /\ \A j \in Inits : j # i => r.init[j] = s.init[j]

LEMMA Reinit ==
  ASSUME NEW s, IsState(s), s.init \in [Inits -> InitT], NEW i \in Inits, NEW w \in InitT
  PROVE  Reinits([s EXCEPT !.init = [s.init EXCEPT ![i] = w]], s, i, w)
<1> DEFINE v == [s.init EXCEPT ![i] = w]
           r == [s EXCEPT !.init = v]
<1>1. v \in [Inits -> InitT] /\ v[i] = w /\ \A j \in Inits : j # i => v[j] = s.init[j]
  OBVIOUS
<1> HIDE DEF v
<1>2. Same(r, s, {"init"}) /\ r.init = v
  BY Set
<1> HIDE DEF r
<1>3. Reinits(r, s, i, w)
  BY <1>1, <1>2 DEF Reinits
<1> QED BY <1>3 DEF r, v

LEMMA SetField ==
  ASSUME NEW s, IsState(s), s.init \in [Inits -> InitT], NEW i \in Inits
  PROVE  /\ \A v \in Pointer : Reinits([s EXCEPT !.init[i].req = v], s, i, [s.init[i] EXCEPT !.req = v])
         /\ \A v \in Pointer : Reinits([s EXCEPT !.init[i].cur = v], s, i, [s.init[i] EXCEPT !.cur = v])
         /\ \A v \in {"idle", "blocked", "woken"} :
              Reinits([s EXCEPT !.init[i].pc = v], s, i, [s.init[i] EXCEPT !.pc = v])
<1>1. ASSUME NEW v \in Pointer
      PROVE  Reinits([s EXCEPT !.init[i].req = v], s, i, [s.init[i] EXCEPT !.req = v])
  <2> DEFINE w == [s.init[i] EXCEPT !.req = v]
  <2>1. [s EXCEPT !.init[i].req = v] = [s EXCEPT !.init = [s.init EXCEPT ![i] = w]]
    OBVIOUS
  <2>2. w \in InitT
    BY <1>1 DEF InitT
  <2> HIDE DEF w
  <2>3. Reinits([s EXCEPT !.init = [s.init EXCEPT ![i] = w]], s, i, w)
    BY <2>2, Reinit
  <2> QED BY <2>1, <2>3 DEF w
<1>2. ASSUME NEW v \in Pointer
      PROVE  Reinits([s EXCEPT !.init[i].cur = v], s, i, [s.init[i] EXCEPT !.cur = v])
  <2> DEFINE w == [s.init[i] EXCEPT !.cur = v]
  <2>1. [s EXCEPT !.init[i].cur = v] = [s EXCEPT !.init = [s.init EXCEPT ![i] = w]]
    OBVIOUS
  <2>2. w \in InitT
    BY <1>2 DEF InitT
  <2> HIDE DEF w
  <2>3. Reinits([s EXCEPT !.init = [s.init EXCEPT ![i] = w]], s, i, w)
    BY <2>2, Reinit
  <2> QED BY <2>1, <2>3 DEF w
<1>3. ASSUME NEW v \in {"idle", "blocked", "woken"}
      PROVE  Reinits([s EXCEPT !.init[i].pc = v], s, i, [s.init[i] EXCEPT !.pc = v])
  <2> DEFINE w == [s.init[i] EXCEPT !.pc = v]
  <2>1. [s EXCEPT !.init[i].pc = v] = [s EXCEPT !.init = [s.init EXCEPT ![i] = w]]
    OBVIOUS
  <2>2. w \in InitT
    BY <1>3 DEF InitT
  <2> HIDE DEF w
  <2>3. Reinits([s EXCEPT !.init = [s.init EXCEPT ![i] = w]], s, i, w)
    BY <2>2, Reinit
  <2> QED BY <2>1, <2>3 DEF w
<1> QED BY <1>1, <1>2, <1>3

LEMMA ReinitKept ==
  ASSUME NEW s, NEW r, NEW i, NEW w, Reinits(r, s, i, w)
  PROVE  /\ IsState(r) /\ Keeps(r, s, {"init"}) /\ SameTypes(r, s)
         /\ r.targ = s.targ /\ r.req = s.req /\ r.rsp = s.rsp /\ r.req_queue = s.req_queue
         /\ r.rsp_queue = s.rsp_queue /\ r.trans = s.trans /\ r.peq = s.peq /\ r.overdue = s.overdue /\ r.runnable = s.runnable
<1>1. Same(r, s, {"init"})
  BY DEF Reinits
<1>2. IsState(r) /\ Keeps(r, s, {"init"}) /\ r.targ = s.targ
  BY <1>1, SameKeeps DEF Same, Fields
<1>3. SameTypes(r, s)
  BY <1>2 DEF SameTypes
<1> QED BY <1>1, <1>2, <1>3 DEF Same, Fields

(* Everything but what an initiator knows of its transactions.             *)
LEMMA InitiatorKept ==
  ASSUME NEW s, NEW p, NEW h, NEW L, Sound(s, p, h, L), NEW i, NEW w, NEW r, Reinits(r, s, i, w)
  PROVE  /\ Typed(r) /\ Watched(r) /\ Queued(r, p) /\ Pointed(r, p, L) /\ Posted(r, p)
         /\ Counted(r, p) /\ Referenced(r, p, h) /\ AtOnce(r, p) /\ Awake(r)
<1>1. /\ IsState(r) /\ r.targ = s.targ /\ r.req = s.req /\ r.rsp = s.rsp /\ r.req_queue = s.req_queue
      /\ r.rsp_queue = s.rsp_queue /\ r.trans = s.trans /\ r.peq = s.peq /\ r.overdue = s.overdue /\ r.runnable = s.runnable
  BY ReinitKept
<1>2. r.init \in [Inits -> InitT]
  BY DEF Reinits
<1>3. Typed(s)
  BY SoundParts
<1>4. Typed(r)
  BY <1>1, <1>2, <1>3 DEF Typed
<1>5. Watched(r) /\ Awake(r) /\ Queued(r, p) /\ Pointed(r, p, L)
  BY <1>1, SoundParts DEF Watched, Awake, Queued, Pointed
<1>6. Posted(r, p)
  BY <1>1, SoundParts DEF Posted
<1>7. Counted(r, p)
  <2>1. \A u \in Targets : Pipe(r, p, u) = Pipe(s, p, u)
    BY <1>1 DEF Pipe
  <2> QED BY <1>1, <2>1, SoundParts DEF Counted
<1>8. Referenced(r, p, h) /\ AtOnce(r, p)
  BY <1>1, SoundParts DEF Referenced, AtOnce
<1> QED BY <1>4, <1>5, <1>6, <1>7, <1>8

LEMMA EndRequestSound ==
  ASSUME NEW s, NEW p, NEW h, NEW L, Sound(s, p, h, L), NEW i \in Inits
  PROVE  LET r == EndRequest(s, i)
         IN /\ Sound(r, p, h, L) /\ Keeps(r, s, {"init"}) /\ r.init[i].req = Null
            /\ \A j \in Inits : j # i => r.init[j] = s.init[j]
<1> DEFINE a == [s EXCEPT !.init[i].req = Null]
           v == IF a.init[i].pc = "blocked" THEN "woken" ELSE a.init[i].pc
           r == [a EXCEPT !.init[i].pc = v]
<1>r. EndRequest(s, i) = r
  BY DEF EndRequest
<1>1. IsState(s) /\ s.init \in [Inits -> InitT] /\ s.init[i] \in InitT
  BY SoundParts DEF Typed
<1>2. Reinits(a, s, i, [s.init[i] EXCEPT !.req = Null])
  BY <1>1, SetField DEF Pointer
<1> HIDE DEF a
<1>3. IsState(a) /\ a.init \in [Inits -> InitT] /\ a.init[i] = [s.init[i] EXCEPT !.req = Null]
  BY SMTT(30), <1>2, ReinitKept DEF Reinits
<1>a. /\ a.init[i].req = Null /\ a.init[i].pc = s.init[i].pc /\ a.init[i].cur = s.init[i].cur
      /\ a.init[i].left = s.init[i].left
  BY <1>1, <1>3 DEF InitT
<1>v. v \in {"idle", "blocked", "woken"} /\ (v = "idle" <=> s.init[i].pc = "idle")
  BY <1>1, <1>a DEF InitT
<1> HIDE DEF v
<1>4. Reinits(r, a, i, [a.init[i] EXCEPT !.pc = v])
  BY <1>3, <1>v, SetField
<1> HIDE DEF r
<1>5. r.init[i] = [a.init[i] EXCEPT !.pc = v] /\ a.init[i] \in InitT
  BY <1>3, <1>4 DEF Reinits
<1>b. /\ r.init[i].req = Null /\ r.init[i].pc = v /\ r.init[i].cur = s.init[i].cur
      /\ r.init[i].left = s.init[i].left
  BY <1>5, <1>a DEF InitT
<1>6. Reinits(r, s, i, r.init[i])
  <2>1. Same(r, s, {"init"})
    BY <1>2, <1>4, SameTwice DEF Reinits
  <2> QED BY <1>2, <1>4, <2>1 DEF Reinits
<1>7. \A j \in Inits : j # i => r.init[j] = s.init[j]
  BY <1>6 DEF Reinits
<1>8. r.trans = s.trans /\ Keeps(r, s, {"init"})
  BY <1>6, ReinitKept
<1>9. Initiating(r, p)
  <2>1. Initiating(s, p)
    BY SoundParts
  <2>2. \A j \in Inits : /\ r.init[j].cur = s.init[j].cur /\ r.init[j].left = s.init[j].left
                         /\ r.init[j].req \in {Null, s.init[j].req}
                         /\ (r.init[j].pc = "idle" <=> s.init[j].pc = "idle")
    BY <1>b, <1>v, <1>7
  <2> QED BY <1>8, <2>1, <2>2 DEF Initiating
<1>10. Sound(r, p, h, L)
  BY <1>6, <1>9, InitiatorKept, SoundParts DEF Sound
<1> QED BY <1>r, <1>b, <1>7, <1>8, <1>10

(* A transaction is about to be sent: it becomes the request of its        *)
(* initiator.                                                              *)
LEMMA StartSound ==
  ASSUME NEW s, NEW p, NEW h, NEW L, Sound(s, p, h, L), NEW x \in Trans, NEW i \in Inits,
         s.init[i].left > 0, \A j \in Inits : s.init[j].req # x,
         p[x] = "new" \/ s.init[i].cur = x
  PROVE  LET r == [s EXCEPT !.init[i] = [pc |-> "idle", cur |-> Null, req |-> x,
                                         left |-> s.init[i].left - 1]]
         IN /\ Sound(r, [p EXCEPT ![x] = "new"], h, L) /\ Keeps(r, s, {"init"})
            /\ r.init[i].req = x
<1> DEFINE w == [pc |-> "idle", cur |-> Null, req |-> x, left |-> s.init[i].left - 1]
           r == [s EXCEPT !.init = [s.init EXCEPT ![i] = w]]
           q == [p EXCEPT ![x] = "new"]
<1>r. [s EXCEPT !.init[i] = w] = r
  OBVIOUS
<1>1. IsState(s) /\ s.init \in [Inits -> InitT] /\ s.init[i].left \in Nat /\ Initiating(s, p)
  BY SoundParts DEF Typed, InitT
<1>2. w \in InitT /\ w.pc = "idle" /\ w.cur = Null /\ w.req = x
  BY <1>1 DEF InitT, Pointer
<1> HIDE DEF w
<1>3. Reinits(r, s, i, w)
  BY <1>1, <1>2, Reinit
<1> HIDE DEF r
<1>4. x # Null /\ p[x] \in {"new", "cur"} /\ \A j \in Inits : j # i => s.init[j].cur # x
  <2>1. x # Null
    BY TLMAssumption DEF Null
  <2> QED BY <1>1, <2>1 DEF Initiating
<1>5. Moved(q, p, x, "new")
  BY SoundParts, Moving DEF Places, InHand
<1> HIDE DEF q
<1>6. Typed(r) /\ Watched(r) /\ Awake(r)
  BY <1>3, InitiatorKept
<1>7. /\ r.targ = s.targ /\ r.req_queue = s.req_queue /\ r.rsp_queue = s.rsp_queue
      /\ r.trans = s.trans /\ r.peq = s.peq /\ r.overdue = s.overdue /\ SameTypes(r, s) /\ Keeps(r, s, {"init"})
  BY <1>3, ReinitKept
<1>8. Initiating(r, q)
  <2>1. r.init[i] = w /\ \A j \in Inits : j # i => r.init[j] = s.init[j]
    BY <1>3 DEF Reinits
  <2>2. \A j \in Inits : s.init[j].cur \in Pointer /\ s.init[j].req \in Pointer
    BY <1>1 DEF InitT
  <2>3. \A j \in Inits : r.init[j].cur # Null => q[r.init[j].cur] = "cur"
    BY <1>1, <1>2, <1>4, <1>5, <2>1, <2>2 DEF Initiating, Moved, Pointer
  <2>4. \A j \in Inits : r.init[j].pc # "idle" => r.init[j].cur # Null /\ r.init[j].left > 0
    BY <1>1, <1>2, <2>1 DEF Initiating
  <2>5. ASSUME NEW j \in Inits, r.init[j].req # Null
        PROVE  LET y == r.init[j].req
               IN q[y] \in ByInitiator \ {"cur"} /\ (q[y] # "new" => r.trans[y].init = j)
    <3>1. CASE j = i
      BY <1>2, <1>5, <2>1, <3>1 DEF Moved, ByInitiator
    <3>2. CASE j # i
      BY <1>1, <1>5, <1>7, <2>1, <2>2, <2>5, <3>2 DEF Initiating, Moved, Pointer
    <3> QED BY <3>1, <3>2
  <2>6. \A j, k \in Inits : r.init[j].cur = r.init[k].cur => j = k \/ r.init[j].cur = Null
    BY <1>1, <1>2, <2>1 DEF Initiating
  <2>7. \A j, k \in Inits : r.init[j].req = r.init[k].req => j = k \/ r.init[j].req = Null
    BY <1>1, <1>2, <2>1 DEF Initiating
  <2> QED BY <2>3, <2>4, <2>5, <2>6, <2>7 DEF Initiating
<1>9. Queued(r, q) /\ Pointed(r, q, L) /\ Posted(r, q)
  BY <1>4, <1>5, <1>7, Kept DEF ByQueue
<1>10. Counted(r, q) /\ AtOnce(r, q)
  <2>1. p[x] \notin InPipe /\ "new" \notin InPipe /\ "new" \notin Routed
    BY <1>4 DEF InPipe, ByTarget, Routed
  <2> QED BY <1>5, <1>7, <2>1, Kept
<1>11. Referenced(r, q, h)
  <2>1. Need("new", s.trans[x].dont_propagate_fw) + One(x = h)
          <= Need(p[x], s.trans[x].dont_propagate_fw) + One(x = h)
    BY <1>4 DEF Need, One, ByInitiator, ByTarget, ByQueue
  <2> QED BY <1>5, <1>7, <2>1, SameReferenced
<1>12. Sound(r, q, h, L)
  BY <1>5, <1>6, <1>8, <1>9, <1>10, <1>11 DEF Sound, Moved
<1>13. r.init[i].req = x
  BY <1>2, <1>3 DEF Reinits
<1> QED BY <1>r, <1>7, <1>12, <1>13 DEF q, w

(* Or the thread waits with it for the end of the last request.            *)
LEMMA BlockSound ==
  ASSUME NEW s, NEW p, NEW h, NEW L, Sound(s, p, h, L), NEW x \in Trans, NEW i \in Inits,
         s.init[i].left > 0, \A j \in Inits : s.init[j].req # x, p[x] = "new"
  PROVE  Sound([s EXCEPT !.init[i].pc = "blocked", !.init[i].cur = x],
               [p EXCEPT ![x] = "cur"], h, L)
<1> DEFINE a == [s EXCEPT !.init[i].pc = "blocked"]
           r == [a EXCEPT !.init[i].cur = x]
           q == [p EXCEPT ![x] = "cur"]
<1>r. [s EXCEPT !.init[i].pc = "blocked", !.init[i].cur = x] = r
  OBVIOUS
<1>1. /\ IsState(s) /\ s.init \in [Inits -> InitT] /\ s.init[i] \in InitT /\ Initiating(s, p)
      /\ x # Null
  BY SoundParts, TLMAssumption DEF Typed, Null
<1>2. Reinits(a, s, i, [s.init[i] EXCEPT !.pc = "blocked"])
  BY <1>1, SetField
<1> HIDE DEF a
<1>3. IsState(a) /\ a.init \in [Inits -> InitT] /\ a.init[i] = [s.init[i] EXCEPT !.pc = "blocked"]
  <2>1. IsState(a)
    BY <1>2, ReinitKept
  <2> QED BY <1>2, <2>1 DEF Reinits
<1>4. Reinits(r, a, i, [a.init[i] EXCEPT !.cur = x])
  BY <1>3, SetField DEF Pointer
<1> HIDE DEF r
<1>5. r.init[i] = [a.init[i] EXCEPT !.cur = x] /\ a.init[i] \in InitT
  BY <1>3, <1>4 DEF Reinits
<1>b. /\ r.init[i].req = s.init[i].req /\ r.init[i].pc = "blocked" /\ r.init[i].cur = x
      /\ r.init[i].left = s.init[i].left
  BY <1>1, <1>3, <1>5 DEF InitT
<1>6. Reinits(r, s, i, r.init[i])
  <2>1. Same(r, s, {"init"})
    BY <1>2, <1>4, SameTwice DEF Reinits
  <2> QED BY <1>2, <1>4, <2>1 DEF Reinits
<1>7. \A j \in Inits : j # i => r.init[j] = s.init[j]
  BY <1>6 DEF Reinits
<1>8. Moved(q, p, x, "cur")
  BY SoundParts, Moving DEF Places
<1> HIDE DEF q
<1>9. Typed(r) /\ Watched(r) /\ Awake(r)
  BY <1>6, InitiatorKept
<1>10. /\ r.targ = s.targ /\ r.req_queue = s.req_queue /\ r.rsp_queue = s.rsp_queue
       /\ r.trans = s.trans /\ r.peq = s.peq /\ r.overdue = s.overdue /\ SameTypes(r, s)
  BY <1>6, ReinitKept
<1>11. Initiating(r, q)
  <2>2. \A j \in Inits : s.init[j].cur \in Pointer /\ s.init[j].req \in Pointer
    BY <1>1 DEF InitT
  <2>3. ASSUME NEW j \in Inits, r.init[j].cur # Null PROVE q[r.init[j].cur] = "cur"
    BY <1>1, <1>b, <1>7, <1>8, <2>2, <2>3 DEF Initiating, Moved, Pointer
  <2>4. \A j \in Inits : r.init[j].pc # "idle" => r.init[j].cur # Null /\ r.init[j].left > 0
    BY <1>1, <1>b, <1>7 DEF Initiating
  <2>5. ASSUME NEW j \in Inits, r.init[j].req # Null
        PROVE  LET y == r.init[j].req
               IN q[y] \in ByInitiator \ {"cur"} /\ (q[y] # "new" => r.trans[y].init = j)
    <3>1. r.init[j].req = s.init[j].req
      BY <1>b, <1>7
    <3> QED BY <1>1, <1>8, <1>10, <2>2, <2>5, <3>1 DEF Initiating, Moved, Pointer
  <2>6. ASSUME NEW j \in Inits, NEW k \in Inits, r.init[j].cur = r.init[k].cur
        PROVE  j = k \/ r.init[j].cur = Null
    <3>1. \A m \in Inits : s.init[m].cur # x
      BY <1>1 DEF Initiating
    <3> QED BY <1>1, <1>b, <1>7, <2>6, <3>1 DEF Initiating
  <2>7. \A j, k \in Inits : r.init[j].req = r.init[k].req => j = k \/ r.init[j].req = Null
    BY <1>1, <1>b, <1>7 DEF Initiating
  <2> QED BY <2>3, <2>4, <2>5, <2>6, <2>7 DEF Initiating
<1>12. Queued(r, q) /\ Pointed(r, q, L) /\ Posted(r, q)
  BY <1>8, <1>10, Kept DEF ByQueue
<1>13. Counted(r, q) /\ AtOnce(r, q)
  <2>1. "new" \notin InPipe /\ "cur" \notin InPipe /\ "cur" \notin Routed
    BY DEF InPipe, ByTarget, Routed
  <2> QED BY <1>8, <1>10, <2>1, Kept
<1>14. Referenced(r, q, h)
  <2>1. Need("cur", s.trans[x].dont_propagate_fw) + One(x = h)
          <= Need(p[x], s.trans[x].dont_propagate_fw) + One(x = h)
    BY DEF Need, One, ByInitiator, ByTarget, ByQueue
  <2> QED BY <1>8, <1>10, <2>1, SameReferenced
<1>15. Sound(r, q, h, L)
  BY <1>8, <1>9, <1>11, <1>12, <1>13, <1>14 DEF Sound, Moved
<1> QED BY <1>r, <1>15 DEF q


-----------------------------------------------------------------------------
(* The fields of a transaction.                                            *)
Rewrites(r, s, x, u) == Same(r, s, {"trans"}) /\ Replaced(r.trans, s.trans, x, u)

LEMMA Rewrite ==
  ASSUME NEW s, IsState(s), s.trans \in [Trans -> TransT], NEW x \in Trans, NEW u \in TransT
  PROVE  Rewrites([s EXCEPT !.trans = [s.trans EXCEPT ![x] = u]], s, x, u)
<1> DEFINE v == [s.trans EXCEPT ![x] = u]
           r == [s EXCEPT !.trans = v]
<1>1. Replaced(v, s.trans, x, u)
  BY Replacing
<1> HIDE DEF v
<1>2. Same(r, s, {"trans"}) /\ r.trans = v
  BY SetToo
<1> HIDE DEF r
<1>3. Rewrites(r, s, x, u)
  BY <1>1, <1>2 DEF Rewrites
<1> QED BY <1>3 DEF r, v

LEMMA RewriteTwice ==
  ASSUME NEW s, NEW r, NEW q, NEW x, NEW u, NEW v, Rewrites(r, s, x, u), Rewrites(q, r, x, v)
  PROVE  Rewrites(q, s, x, v)
BY SameTwice DEF Rewrites, Replaced

LEMMA RewriteOnly ==
  ASSUME NEW s, NEW r, NEW x \in Trans, NEW u, Rewrites(r, s, x, u)
  PROVE  /\ OnlyTrans(r, s, x) /\ r.trans[x] = u /\ IsState(r) /\ r.trans \in [Trans -> TransT]
         /\ Unchanged(r, s, Core \ {"trans"}) /\ r.init = s.init
         /\ (SameRoute(u, s.trans[x]) => SameRoutes(r, s))
<1>1. /\ Same(r, s, {"trans"}) /\ r.trans \in [Trans -> TransT] /\ r.trans[x] = u
      /\ \A y \in Trans : y # x => r.trans[y] = s.trans[y]
  BY DEF Rewrites, Replaced
<1>2. Unchanged(r, s, Core \ {"trans"}) /\ IsState(r)
  BY <1>1, SameCore, SameState
<1>3. r.init = s.init
  BY <1>1 DEF Same, Fields
<1>4. SameRoute(u, s.trans[x]) => SameRoutes(r, s)
  BY <1>1 DEF SameRoutes, SameRoute
<1> QED BY <1>1, <1>2, <1>3, <1>4 DEF OnlyTrans

LEMMA SetOne ==
  ASSUME NEW s, IsState(s), s.trans \in [Trans -> TransT], NEW x \in Trans
  PROVE  /\ \A v \in Int : Rewrites([s EXCEPT !.trans[x].ref = v], s, x,
                                    [s.trans[x] EXCEPT !.ref = v])
         /\ \A v \in {"INCOMPLETE", "OK", "ERROR"} :
              Rewrites([s EXCEPT !.trans[x].status = v], s, x, [s.trans[x] EXCEPT !.status = v])
         /\ \A v \in Targets : Rewrites([s EXCEPT !.trans[x].adr = v], s, x,
                                        [s.trans[x] EXCEPT !.adr = v])
         /\ \A v \in BOOLEAN : Rewrites([s EXCEPT !.trans[x].locked = v], s, x,
                                        [s.trans[x] EXCEPT !.locked = v])
         /\ \A v \in Inits : Rewrites([s EXCEPT !.trans[x].init = v], s, x,
                                      [s.trans[x] EXCEPT !.init = v])
         /\ \A v \in Targets : Rewrites([s EXCEPT !.trans[x].target = v], s, x,
                                        [s.trans[x] EXCEPT !.target = v])
         /\ \A v \in BOOLEAN : Rewrites([s EXCEPT !.trans[x].dont_propagate_fw = v], s, x,
                                        [s.trans[x] EXCEPT !.dont_propagate_fw = v])
<1>1. ASSUME NEW v \in Int
      PROVE  Rewrites([s EXCEPT !.trans[x].ref = v], s, x, [s.trans[x] EXCEPT !.ref = v])
  <2> DEFINE u == [s.trans[x] EXCEPT !.ref = v]
  <2>1. [s EXCEPT !.trans[x].ref = v] = [s EXCEPT !.trans = [s.trans EXCEPT ![x] = u]]
    OBVIOUS
  <2>2. u \in TransT
    BY <1>1 DEF TransT
  <2> HIDE DEF u
  <2>3. Rewrites([s EXCEPT !.trans = [s.trans EXCEPT ![x] = u]], s, x, u)
    BY <2>2, Rewrite
  <2> QED BY <2>1, <2>3 DEF u
<1>2. ASSUME NEW v \in {"INCOMPLETE", "OK", "ERROR"}
      PROVE  Rewrites([s EXCEPT !.trans[x].status = v], s, x, [s.trans[x] EXCEPT !.status = v])
  <2> DEFINE u == [s.trans[x] EXCEPT !.status = v]
  <2>1. [s EXCEPT !.trans[x].status = v] = [s EXCEPT !.trans = [s.trans EXCEPT ![x] = u]]
    OBVIOUS
  <2>2. u \in TransT
    BY <1>2 DEF TransT
  <2> HIDE DEF u
  <2>3. Rewrites([s EXCEPT !.trans = [s.trans EXCEPT ![x] = u]], s, x, u)
    BY <2>2, Rewrite
  <2> QED BY <2>1, <2>3 DEF u
<1>3. ASSUME NEW v \in Targets
      PROVE  Rewrites([s EXCEPT !.trans[x].adr = v], s, x, [s.trans[x] EXCEPT !.adr = v])
  <2> DEFINE u == [s.trans[x] EXCEPT !.adr = v]
  <2>1. [s EXCEPT !.trans[x].adr = v] = [s EXCEPT !.trans = [s.trans EXCEPT ![x] = u]]
    OBVIOUS
  <2>2. u \in TransT
    BY <1>3 DEF TransT
  <2> HIDE DEF u
  <2>3. Rewrites([s EXCEPT !.trans = [s.trans EXCEPT ![x] = u]], s, x, u)
    BY <2>2, Rewrite
  <2> QED BY <2>1, <2>3 DEF u
<1>4. ASSUME NEW v \in BOOLEAN
      PROVE  Rewrites([s EXCEPT !.trans[x].locked = v], s, x, [s.trans[x] EXCEPT !.locked = v])
  <2> DEFINE u == [s.trans[x] EXCEPT !.locked = v]
  <2>1. [s EXCEPT !.trans[x].locked = v] = [s EXCEPT !.trans = [s.trans EXCEPT ![x] = u]]
    OBVIOUS
  <2>2. u \in TransT
    BY <1>4 DEF TransT
  <2> HIDE DEF u
  <2>3. Rewrites([s EXCEPT !.trans = [s.trans EXCEPT ![x] = u]], s, x, u)
    BY <2>2, Rewrite
  <2> QED BY <2>1, <2>3 DEF u
<1>5. ASSUME NEW v \in Inits
      PROVE  Rewrites([s EXCEPT !.trans[x].init = v], s, x, [s.trans[x] EXCEPT !.init = v])
  <2> DEFINE u == [s.trans[x] EXCEPT !.init = v]
  <2>1. [s EXCEPT !.trans[x].init = v] = [s EXCEPT !.trans = [s.trans EXCEPT ![x] = u]]
    OBVIOUS
  <2>2. u \in TransT
    BY <1>5 DEF TransT
  <2> HIDE DEF u
  <2>3. Rewrites([s EXCEPT !.trans = [s.trans EXCEPT ![x] = u]], s, x, u)
    BY <2>2, Rewrite
  <2> QED BY <2>1, <2>3 DEF u
<1>6. ASSUME NEW v \in Targets
      PROVE  Rewrites([s EXCEPT !.trans[x].target = v], s, x, [s.trans[x] EXCEPT !.target = v])
  <2> DEFINE u == [s.trans[x] EXCEPT !.target = v]
  <2>1. [s EXCEPT !.trans[x].target = v] = [s EXCEPT !.trans = [s.trans EXCEPT ![x] = u]]
    OBVIOUS
  <2>2. u \in TransT
    BY <1>6 DEF TransT
  <2> HIDE DEF u
  <2>3. Rewrites([s EXCEPT !.trans = [s.trans EXCEPT ![x] = u]], s, x, u)
    BY <2>2, Rewrite
  <2> QED BY <2>1, <2>3 DEF u
<1>7. ASSUME NEW v \in BOOLEAN
      PROVE  Rewrites([s EXCEPT !.trans[x].dont_propagate_fw = v], s, x, [s.trans[x] EXCEPT !.dont_propagate_fw = v])
  <2> DEFINE u == [s.trans[x] EXCEPT !.dont_propagate_fw = v]
  <2>1. [s EXCEPT !.trans[x].dont_propagate_fw = v] = [s EXCEPT !.trans = [s.trans EXCEPT ![x] = u]]
    OBVIOUS
  <2>2. u \in TransT
    BY <1>7 DEF TransT
  <2> HIDE DEF u
  <2>3. Rewrites([s EXCEPT !.trans = [s.trans EXCEPT ![x] = u]], s, x, u)
    BY <2>2, Rewrite
  <2> QED BY <2>1, <2>3 DEF u
<1> QED BY <1>1, <1>2, <1>3, <1>4, <1>5, <1>6, <1>7

(* A transaction nobody has a reference of is in the pool.                 *)
LEMMA Unreferenced ==
  ASSUME NEW s, NEW p, NEW h, NEW L, Sound(s, p, h, L), NEW x \in Trans, s.trans[x].ref = 0
  PROVE  /\ p[x] \in {"none", "answered"} /\ x # h
         /\ \A i \in Inits : s.init[i].req # x /\ s.init[i].cur # x
         /\ p[x] = "answered" => s.targ[s.trans[x].target].type = "E"
<1>1. /\ Need(p[x], s.trans[x].dont_propagate_fw) = 0 /\ One(x = h) = 0
      /\ s.trans[x].dont_propagate_fw \in BOOLEAN
  BY TransField
<1>2. /\ p[x] \notin ByInitiator /\ p[x] # "end_resp" /\ p[x] \notin ByQueue
      /\ (p[x] \in ByTarget => s.trans[x].dont_propagate_fw) /\ x # h
  BY <1>1 DEF Need, One
<1>3. p[x] \in {"none", "answered"} /\ (p[x] = "answered" => s.trans[x].dont_propagate_fw)
  BY <1>2, SoundParts DEF Places, InHand, ByInitiator, ByTarget, ByQueue
<1>4. x # Null
  BY TLMAssumption DEF Null
<1>5. \A i \in Inits : s.init[i].req # x /\ s.init[i].cur # x
  BY <1>3, <1>4, SoundParts DEF Initiating, ByInitiator
<1>6. p[x] = "answered" => s.targ[s.trans[x].target].type = "E"
  BY <1>3, SoundParts DEF AtOnce, Routed, Places, InHand
<1> QED BY <1>2, <1>3, <1>5, <1>6

(* The pool hands it out.                                                  *)
Issue(s, x, t, l) == [s EXCEPT !.trans[x].ref = 1, !.trans[x].status = "INCOMPLETE",
                               !.trans[x].adr = t, !.trans[x].locked = l]

Unasked(r, s, x) == r.init = s.init /\ \A i \in Inits : r.init[i].req # x

LEMMA IssueRewrites ==
  ASSUME NEW s, Typed(s), NEW x \in Trans, NEW t \in Targets, NEW l \in BOOLEAN
  PROVE  LET r == Issue(s, x, t, l)
         IN /\ Rewrites(r, s, x, r.trans[x]) /\ r.trans[x].ref = 1
            /\ r.trans[x].status = "INCOMPLETE" /\ SameRoute(r.trans[x], s.trans[x])
<1> DEFINE a == [s EXCEPT !.trans[x].ref = 1]
           b == [a EXCEPT !.trans[x].status = "INCOMPLETE"]
           c == [b EXCEPT !.trans[x].adr = t]
           r == [c EXCEPT !.trans[x].locked = l]
<1>r. Issue(s, x, t, l) = r
  BY DEF Issue
<1>1. IsState(s) /\ s.trans \in [Trans -> TransT] /\ s.trans[x] \in TransT
  BY DEF Typed
<1>a. Rewrites(a, s, x, [s.trans[x] EXCEPT !.ref = 1])
  <2>1. 1 \in Int
    OBVIOUS
  <2> QED BY <1>1, <2>1, SetOne
<1> HIDE DEF a
<1>2. IsState(a) /\ a.trans \in [Trans -> TransT] /\ a.trans[x] = [s.trans[x] EXCEPT !.ref = 1]
  BY <1>a, SameState DEF Rewrites, Replaced
<1>b. Rewrites(b, a, x, [a.trans[x] EXCEPT !.status = "INCOMPLETE"])
  BY <1>2, SetOne
<1> HIDE DEF b
<1>3. /\ IsState(b) /\ b.trans \in [Trans -> TransT]
      /\ b.trans[x] = [a.trans[x] EXCEPT !.status = "INCOMPLETE"]
  BY <1>b, SameState DEF Rewrites, Replaced
<1>c. Rewrites(c, b, x, [b.trans[x] EXCEPT !.adr = t])
  BY <1>3, SetOne
<1> HIDE DEF c
<1>4. IsState(c) /\ c.trans \in [Trans -> TransT] /\ c.trans[x] = [b.trans[x] EXCEPT !.adr = t]
  BY <1>c, SameState DEF Rewrites, Replaced
<1>d. Rewrites(r, c, x, [c.trans[x] EXCEPT !.locked = l])
  BY <1>4, SetOne
<1> HIDE DEF r
<1>5. r.trans[x] = [c.trans[x] EXCEPT !.locked = l]
  BY <1>d, SameState DEF Rewrites, Replaced
<1>6. Rewrites(r, s, x, r.trans[x])
  <2>1. Rewrites(b, s, x, b.trans[x])
    BY <1>a, <1>b, <1>3, RewriteTwice
  <2>2. Rewrites(c, s, x, c.trans[x])
    BY <2>1, <1>c, <1>4, RewriteTwice
  <2> QED BY <2>2, <1>d, <1>5, RewriteTwice
<1>7. /\ r.trans[x].ref = 1 /\ r.trans[x].status = "INCOMPLETE"
      /\ SameRoute(r.trans[x], s.trans[x])
  <2>1. a.trans[x] \in TransT /\ a.trans[x].ref = 1 /\ SameRoute(a.trans[x], s.trans[x])
    BY <1>1, <1>2 DEF TransT, SameRoute
  <2>2. /\ b.trans[x] \in TransT /\ b.trans[x].ref = 1 /\ b.trans[x].status = "INCOMPLETE"
        /\ SameRoute(b.trans[x], a.trans[x])
    BY <1>3, <2>1 DEF TransT, SameRoute
  <2>3. /\ c.trans[x] \in TransT /\ c.trans[x].ref = 1 /\ c.trans[x].status = "INCOMPLETE"
        /\ SameRoute(c.trans[x], b.trans[x])
    BY <1>4, <2>2 DEF TransT, SameRoute
  <2>4. /\ r.trans[x].ref = 1 /\ r.trans[x].status = "INCOMPLETE"
        /\ SameRoute(r.trans[x], c.trans[x])
    BY <1>5, <2>3 DEF TransT, SameRoute
  <2> QED BY <2>1, <2>2, <2>3, <2>4 DEF SameRoute
<1> QED BY <1>r, <1>6, <1>7

LEMMA FreshSound ==
  ASSUME NEW s, NEW p, NEW L, Sound(s, p, Null, L), NEW x \in Trans, s.trans[x].ref = 0,
         NEW t \in Targets, NEW l \in BOOLEAN
  PROVE  LET r == Issue(s, x, t, l)
         IN Sound(r, [p EXCEPT ![x] = "new"], Null, L) /\ Unasked(r, s, x)
<1> DEFINE r == Issue(s, x, t, l)
<1>7. /\ Rewrites(r, s, x, r.trans[x]) /\ r.trans[x].ref = 1
      /\ SameRoute(r.trans[x], s.trans[x])
  BY SoundParts, IssueRewrites
<1> HIDE DEF r
<1>8. OnlyTrans(r, s, x) /\ r.init = s.init
  BY <1>7, RewriteOnly
<1>9. /\ p[x] \in {"none", "answered"} /\ \A i \in Inits : s.init[i].req # x
      /\ p[x] = "answered" => s.targ[s.trans[x].target].type = "E"
  BY Unreferenced
<1>10. MayBecome(s, p, Null, x, "new", r.trans[x], Null)
  <2>1. /\ Need("new", r.trans[x].dont_propagate_fw) = 1 /\ One(x = Null) = 0
    BY TLMAssumption DEF Need, One, ByInitiator, ByTarget, ByQueue, Null
  <2>2. "new" \notin Routed /\ "new" \notin InPipe /\ "none" \notin InPipe /\ "new" \in InHand
    BY DEF Routed, InPipe, ByTarget, InHand
  <2>3. p[x] \in InHand /\ p[x] # "accepted"
    BY <1>9 DEF InHand
  <2>4. r.trans[x].ref >= Need("new", r.trans[x].dont_propagate_fw) + One(x = Null)
    BY <1>7, <2>1
  <2> QED BY <1>9, <2>2, <2>3, <2>4 DEF MayBecome
<1>11. Sound(r, [p EXCEPT ![x] = "new"], Null, L)
  BY <1>8, <1>10, InHandStep
<1>12. Unasked(r, s, x)
  BY <1>8, <1>9 DEF Unasked
<1> QED BY <1>11, <1>12 DEF r

(* The interconnect notes the route of a request.                          *)
Route(s, x, i, t) == [s EXCEPT !.trans[x].init = i, !.trans[x].target = t,
                               !.trans[x].dont_propagate_fw = FALSE]

OnRoute(r, x, i, t) == r.trans[x].init = i /\ r.trans[x].target = t

LEMMA RouteRewrites ==
  ASSUME NEW s, Typed(s), NEW x \in Trans, NEW i \in Inits, NEW t \in Targets
  PROVE  LET r == Route(s, x, i, t)
         IN /\ Rewrites(r, s, x, r.trans[x]) /\ r.trans[x].ref = s.trans[x].ref
            /\ r.trans[x].status = s.trans[x].status /\ OnRoute(r, x, i, t)
            /\ r.trans[x].dont_propagate_fw = FALSE
<1> DEFINE a == [s EXCEPT !.trans[x].init = i]
           b == [a EXCEPT !.trans[x].target = t]
           r == [b EXCEPT !.trans[x].dont_propagate_fw = FALSE]
<1>r. Route(s, x, i, t) = r
  BY DEF Route
<1>1. IsState(s) /\ s.trans \in [Trans -> TransT] /\ s.trans[x] \in TransT
  BY DEF Typed
<1>a. Rewrites(a, s, x, [s.trans[x] EXCEPT !.init = i])
  BY <1>1, SetOne
<1> HIDE DEF a
<1>2. IsState(a) /\ a.trans \in [Trans -> TransT] /\ a.trans[x] = [s.trans[x] EXCEPT !.init = i]
  BY <1>a, SameState DEF Rewrites, Replaced
<1>b. Rewrites(b, a, x, [a.trans[x] EXCEPT !.target = t])
  BY <1>2, SetOne
<1> HIDE DEF b
<1>3. IsState(b) /\ b.trans \in [Trans -> TransT] /\ b.trans[x] = [a.trans[x] EXCEPT !.target = t]
  BY <1>b, SameState DEF Rewrites, Replaced
<1>c. Rewrites(r, b, x, [b.trans[x] EXCEPT !.dont_propagate_fw = FALSE])
  BY <1>3, SetOne
<1> HIDE DEF r
<1>4. r.trans[x] = [b.trans[x] EXCEPT !.dont_propagate_fw = FALSE]
  BY <1>c, SameState DEF Rewrites, Replaced
<1>5. Rewrites(r, s, x, r.trans[x])
  <2>1. Rewrites(b, s, x, b.trans[x])
    BY <1>a, <1>b, <1>3, RewriteTwice
  <2> QED BY <2>1, <1>c, <1>4, RewriteTwice
<1>6. /\ r.trans[x].ref = s.trans[x].ref /\ r.trans[x].status = s.trans[x].status
      /\ r.trans[x].init = i /\ r.trans[x].target = t
      /\ r.trans[x].dont_propagate_fw = FALSE
  <2>1. /\ a.trans[x] \in TransT /\ a.trans[x].ref = s.trans[x].ref /\ a.trans[x].init = i
        /\ a.trans[x].status = s.trans[x].status
    BY <1>1, <1>2 DEF TransT
  <2>2. /\ b.trans[x] \in TransT /\ b.trans[x].ref = s.trans[x].ref /\ b.trans[x].init = i
        /\ b.trans[x].target = t /\ b.trans[x].status = s.trans[x].status
    BY <1>3, <2>1 DEF TransT
  <2> QED BY <1>4, <2>2 DEF TransT
<1> QED BY <1>r, <1>5, <1>6 DEF OnRoute

LEMMA RouteSound ==
  ASSUME NEW s, NEW p, NEW h, NEW L, Sound(s, p, h, L), NEW x \in Trans, NEW i \in Inits,
         NEW t \in Targets, p[x] = "new", \A j \in Inits : s.init[j].req = x => j = i
  PROVE  LET r == Route(s, x, i, t)
         IN /\ Sound(r, [p EXCEPT ![x] = "sent"], h, L) /\ Unchanged(r, s, Core \ {"trans"})
            /\ OnRoute(r, x, i, t)
<1> DEFINE r == Route(s, x, i, t)
<1>5. /\ Rewrites(r, s, x, r.trans[x]) /\ r.trans[x].ref = s.trans[x].ref
      /\ OnRoute(r, x, i, t) /\ r.trans[x].dont_propagate_fw = FALSE
  BY SoundParts, RouteRewrites
<1> HIDE DEF r
<1>6. r.trans[x].init = i /\ r.trans[x].target = t
  BY <1>5 DEF OnRoute
<1>7. OnlyTrans(r, s, x) /\ Unchanged(r, s, Core \ {"trans"})
  BY <1>5, RewriteOnly
<1>8. MayBecome(s, p, h, x, "sent", r.trans[x], h)
  <2>1. s.trans[x].ref >= Need("new", s.trans[x].dont_propagate_fw) + One(x = h)
    BY TransField
  <2>2. \A c, d : Need("sent", c) = Need("new", d)
    BY DEF Need, One, ByInitiator, ByTarget, ByQueue
  <2>3. /\ "sent" \in InHand /\ "new" \in InHand /\ "sent" \in ByInitiator \ {"cur"}
        /\ "sent" \notin InPipe /\ "new" \notin InPipe
    BY DEF InHand, ByInitiator, InPipe, ByTarget
  <2> QED BY <1>5, <1>6, <2>1, <2>2, <2>3 DEF MayBecome
<1>9. Sound(r, [p EXCEPT ![x] = "sent"], h, L)
  BY <1>7, <1>8, InHandStep
<1> QED BY <1>5, <1>7, <1>9 DEF r

(* The target completed the request: nothing goes there any more.          *)
LEMMA MarkSound ==
  ASSUME NEW s, NEW p, NEW h, NEW L, Sound(s, p, h, L), NEW x \in Trans,
         p[x] = "sent", s.targ[s.trans[x].target].type = "E"
  PROVE  LET r == [s EXCEPT !.trans[x].dont_propagate_fw = TRUE]
         IN /\ Sound(r, [p EXCEPT ![x] = "served"], h, L) /\ Unchanged(r, s, Core \ {"trans"})
            /\ r.trans[x].dont_propagate_fw /\ r.trans[x].init = s.trans[x].init
            /\ r.trans[x].target = s.trans[x].target
<1> DEFINE r == [s EXCEPT !.trans[x].dont_propagate_fw = TRUE]
<1>1. IsState(s) /\ s.trans \in [Trans -> TransT] /\ s.trans[x] \in TransT
  BY SoundParts, TransField
<1>2. Rewrites(r, s, x, [s.trans[x] EXCEPT !.dont_propagate_fw = TRUE])
  BY <1>1, SetOne
<1> HIDE DEF r
<1>3. /\ OnlyTrans(r, s, x) /\ Unchanged(r, s, Core \ {"trans"})
      /\ r.trans[x] = [s.trans[x] EXCEPT !.dont_propagate_fw = TRUE]
  BY <1>2, RewriteOnly
<1>4. /\ r.trans[x].ref = s.trans[x].ref /\ r.trans[x].init = s.trans[x].init
      /\ r.trans[x].target = s.trans[x].target /\ r.trans[x].dont_propagate_fw = TRUE
  BY <1>1, <1>3 DEF TransT
<1>5. MayBecome(s, p, h, x, "served", r.trans[x], h)
  <2>1. s.trans[x].ref >= Need("sent", s.trans[x].dont_propagate_fw) + One(x = h)
    BY TransField
  <2>2. \A c : Need("sent", c) = Need("served", TRUE)
    BY DEF Need, One, ByInitiator, ByTarget, ByQueue
  <2>3. /\ "sent" \in InHand /\ "served" \in InHand /\ "served" \in ByInitiator \ {"cur"}
    BY DEF InHand, ByInitiator
  <2>4. \A i \in Inits : s.init[i].req = x => s.trans[x].init = i
    <3>1. x # Null
      BY TLMAssumption DEF Null
    <3> QED BY <3>1, SoundParts DEF Initiating
  <2>5. r.trans[x].ref >= Need("served", r.trans[x].dont_propagate_fw) + One(x = h)
    BY <1>4, <2>1, <2>2
  <2>6. \A t \in Targets : s.targ[t].type \in {"A", "B"} => s.trans[x].target # t
    OBVIOUS
  <2> QED BY <1>4, <2>3, <2>4, <2>5, <2>6 DEF MayBecome
<1>6. Sound(r, [p EXCEPT ![x] = "served"], h, L)
  BY <1>3, <1>5, InHandStep
<1> QED BY <1>3, <1>4, <1>6 DEF r

(* Or it is noted again that it has not.                                   *)
LEMMA NoMarkSound ==
  ASSUME NEW s, NEW p, NEW h, NEW L, Sound(s, p, h, L), NEW x \in Trans,
         ~s.trans[x].dont_propagate_fw
  PROVE  LET r == [s EXCEPT !.trans[x].dont_propagate_fw = FALSE]
         IN Sound(r, p, h, L) /\ Unchanged(r, s, Core)
<1> DEFINE r == [s EXCEPT !.trans[x].dont_propagate_fw = FALSE]
<1>1. /\ IsState(s) /\ s.trans \in [Trans -> TransT] /\ s.trans[x] \in TransT
      /\ s.trans[x].dont_propagate_fw = FALSE
  BY SoundParts, TransField
<1>2. Rewrites(r, s, x, [s.trans[x] EXCEPT !.dont_propagate_fw = FALSE])
  BY <1>1, SetOne
<1> HIDE DEF r
<1>3. [s.trans[x] EXCEPT !.dont_propagate_fw = FALSE] = s.trans[x]
  BY <1>1 DEF TransT
<1>4. /\ Same(r, s, {"trans"}) /\ r.trans \in [Trans -> TransT] /\ r.trans[x] = s.trans[x]
      /\ \A y \in Trans : y # x => r.trans[y] = s.trans[y]
  BY <1>2, <1>3 DEF Rewrites, Replaced
<1>5. r.trans = s.trans
  BY <1>1, <1>4
<1>6. Same(r, s, {})
  BY <1>4, <1>5 DEF Same
<1>7. Unchanged(r, s, Core) /\ Same(r, s, Seen)
  BY <1>6, SameMore, SameCore
<1>8. Sound(r, p, h, L)
  BY <1>7, ObservedSound
<1> QED BY <1>7, <1>8 DEF r

-----------------------------------------------------------------------------
(* What a call leaves as it was.                                           *)
Stays(r, s, F) == Keeps(r, s, F) /\ SameTypes(r, s)

LEMMA KeepsStays ==
  ASSUME NEW s, NEW r, NEW F, Keeps(r, s, F), "targ" \notin F
  PROVE  Stays(r, s, F) /\ r.targ = s.targ
BY DEF Stays, Keeps, Unchanged, Core, SameTypes

LEMMA StaysMore ==
  ASSUME NEW s, NEW r, NEW q, NEW F, NEW G, NEW H, Stays(r, s, F), Stays(q, r, G),
         F \subseteq H, G \subseteq H
  PROVE  Stays(q, s, H)
BY KeepsMore DEF Stays, SameTypes

LEMMA StaysItself ==
  ASSUME NEW s, NEW F
  PROVE  Stays(s, s, F)
BY KeepsItself DEF Stays, SameTypes

LEMMA StaysRoute ==
  ASSUME NEW s, NEW r, NEW F, Stays(r, s, F)
  PROVE  /\ \A x \in Trans : SameRoute(r.trans[x], s.trans[x])
         /\ \A t \in Targets : r.targ[t].type = s.targ[t].type
         /\ \A f \in Core \ F : r[f] = s[f]
BY DEF Stays, Keeps, SameRoutes, SameTypes, Unchanged

LEMMA Overseen ==
  ASSUME NEW s, NEW r, Same(r, s, Seen)
  PROVE  /\ IsState(r) /\ Stays(r, s, {}) /\ r.targ = s.targ
         /\ \A p, h, L : Sound(s, p, h, L) => Sound(r, p, h, L)
<1>1. \A f \in Core : r[f] = s[f]
  BY DEF Same, Core, Fields, Seen
<1>2. r.trans = s.trans /\ r.targ = s.targ
  BY <1>1 DEF Core
<1>3. Keeps(r, s, {})
  BY <1>1, <1>2 DEF Keeps, Unchanged, SameRoutes, SameRoute
<1> QED BY <1>2, <1>3, KeepsStays, SameState, ObservedSound

LEMMA TypeField ==
  ASSUME NEW s, NEW p, NEW h, NEW L, Sound(s, p, h, L), NEW t \in Targets
  PROVE  /\ s.targ[t].type \in Types /\ s.targ[t].n_trans \in 0..2
         /\ s.targ[t].response_in_progress \in BOOLEAN
         /\ s.targ[t].next \in Pointer /\ s.targ[t].stalled \in Pointer
BY SoundParts DEF Typed, TargT

(* Only type E completes a request, so that the end of the response goes    *)
(* to the others.                                                          *)
LEMMA NotDone ==
  ASSUME NEW s, NEW p, NEW h, NEW L, Sound(s, p, h, L), NEW x \in Trans, p[x] \in Routed,
         s.targ[s.trans[x].target].type # "E"
  PROVE  ~s.trans[x].dont_propagate_fw
BY SoundParts DEF AtOnce

-----------------------------------------------------------------------------
(* A target is called with a request.                                      *)
Outcome(r, s, x, h, L) ==
  /\ IsResult(r) /\ Stays(r.s, s, {"trans", "targ", "peq"})
  /\ \/ r.ret = "ACCEPTED" /\ Fine(r.s, h, L)
     \/ r.ret = "UPDATED" /\ r.phase = "END_REQ" /\ At(r.s, x, {"internal"}, h, L)
        /\ s.targ[s.trans[x].target].type # "E"
     \/ r.ret = "UPDATED" /\ r.phase = "BEGIN_RESP" /\ At(r.s, x, {"served"}, h, L)
        /\ s.targ[s.trans[x].target].type # "E"
     \/ r.ret = "COMPLETED" /\ At(r.s, x, {"sent"}, h, L)
        /\ s.targ[s.trans[x].target].type = "E"

LEMMA PostRequest ==
  ASSUME NEW s, NEW p, NEW h, NEW L, Sound(s, p, h, L), NEW x \in Trans, NEW t \in Targets,
         s.trans[x].target = t, p[x] = "sent", s.targ[t].type \in {"A", "B", "C"}
  PROVE  Outcome(Accepted(Post(s, t, x, "BEGIN_REQ"), "BEGIN_REQ"), s, x, h, L)
<1> DEFINE r == Post(s, t, x, "BEGIN_REQ")
<1>1. MayPost(s, p, x, t, "BEGIN_REQ")
  BY DEF MayPost
<1>2. Sound(r, [p EXCEPT ![x] = PlaceOf["BEGIN_REQ"]], h, L) /\ Keeps(r, s, {"peq"})
  BY <1>1, PostSound
<1> HIDE DEF r
<1>3. Fine(r, h, L) /\ IsState(r)
  BY <1>2, Placed, SoundParts
<1>4. Stays(r, s, {"trans", "targ", "peq"})
  BY <1>2, KeepsStays, StaysItself, StaysMore
<1>5. Outcome(Accepted(r, "BEGIN_REQ"), s, x, h, L)
  BY <1>3, <1>4, Returned DEF Outcome, Accepted, Result, IsResult
<1> QED BY <1>5 DEF r

LEMMA BeginB ==
  ASSUME NEW s, NEW p, NEW h, NEW L, Sound(s, p, h, L), NEW x \in Trans, NEW t \in Targets,
         s.trans[x].target = t, p[x] = "sent", s.targ[t].type = "B"
  PROVE  Outcome(FwB(s, t, x, "BEGIN_REQ"), s, x, h, L)
<1> DEFINE a == Acquire(s, x)
           r == [Post(a, t, x, "internal_ph") EXCEPT !.targ[t].n_trans = @ + 1]
           k == [p EXCEPT ![x] = "accepted"]
<1>1. CASE s.targ[t].n_trans < 2
  <2>0. FwB(s, t, x, "BEGIN_REQ") = Updated(r, "END_REQ")
    BY <1>1 DEF FwB
  <2>1. Sound(a, k, h, L) /\ Keeps(a, s, {"trans"})
    BY TakeSound
  <2>2. k[x] = "accepted"
    BY SoundParts
  <2> HIDE DEF a, k
  <2>3. Stays(a, s, {"trans"}) /\ a.targ = s.targ /\ a.trans[x].target = t
    BY <2>1, KeepsStays, StaysRoute DEF SameRoute
  <2>4. a.targ[t].n_trans <= 1 /\ a.targ[t].type = "B"
    BY <1>1, <2>3, TypeField
  <2>5. /\ Sound(r, [k EXCEPT ![x] = "internal"], h, L) /\ Keeps(r, a, {"peq", "targ"})
        /\ SameTypes(r, a)
    BY <2>1, <2>2, <2>3, <2>4, EnterSound
  <2> HIDE DEF r
  <2>6. [k EXCEPT ![x] = "internal"][x] \in {"internal"} /\ IsState(r)
    BY <2>1, <2>5, SoundParts
  <2>7. At(r, x, {"internal"}, h, L)
    BY <2>5, <2>6, Placed
  <2>8. Stays(r, a, {"peq", "targ"})
    BY <2>5 DEF Stays
  <2>9. Stays(r, s, {"trans", "targ", "peq"})
    BY <2>3, <2>8, StaysMore
  <2>10. Outcome(Updated(r, "END_REQ"), s, x, h, L)
    BY <2>6, <2>7, <2>9, Returned DEF Outcome, Updated, Result, IsResult
  <2> QED BY <2>0, <2>10
<1>2. CASE ~(s.targ[t].n_trans < 2)
  <2>1. FwB(s, t, x, "BEGIN_REQ") = Accepted(Post(s, t, x, "BEGIN_REQ"), "BEGIN_REQ")
    BY <1>2 DEF FwB
  <2> QED BY <2>1, PostRequest
<1> QED BY <1>1, <1>2

LEMMA BeginD ==
  ASSUME NEW s, NEW p, NEW h, NEW L, Sound(s, p, h, L), NEW x \in Trans, NEW t \in Targets,
         s.trans[x].target = t, p[x] = "sent", s.targ[t].type = "D"
  PROVE  Outcome(BeginReqD(s, t, x, "BEGIN_REQ"), s, x, h, L)
<1> DEFINE a == Acquire(s, x)
           e == Execute(a, x)
           c1 == Require(e, s.targ[t].next = Null, "two pending responses")
           n == [c1 EXCEPT !.targ[t].next = x]
           r == [e EXCEPT !.targ[t].response_in_progress = TRUE]
           k == [p EXCEPT ![x] = "served"]
<1>0. BeginReqD(s, t, x, "BEGIN_REQ") =
        IF s.targ[t].response_in_progress THEN Accepted(n, "BEGIN_REQ")
        ELSE Updated(r, "BEGIN_RESP")
  BY DEF BeginReqD
<1>1. Sound(a, k, h, L) /\ Keeps(a, s, {"trans"})
  BY TakeSound
<1>2. k[x] = "served"
  BY SoundParts
<1> HIDE DEF a, k
<1>3. Stays(a, s, {"trans"}) /\ a.targ = s.targ /\ IsState(a)
  BY <1>1, KeepsStays, SoundParts
<1>4. Sound(e, k, h, L) /\ OnlyTrans(e, a, x) /\ SameRoutes(e, a)
  BY <1>1, AnswerSound DEF Execute
<1> HIDE DEF e
<1>5. Keeps(e, a, {"trans"})
  BY <1>4 DEF Keeps, OnlyTrans
<1>6. Stays(e, a, {"trans"})
  BY <1>5, KeepsStays
<1>7. Stays(e, s, {"trans"}) /\ IsState(e)
  BY <1>3, <1>4, <1>6, StaysMore, SoundParts
<1>8. e.trans[x].target = t
  BY <1>7, StaysRoute DEF SameRoute
<1>9. CASE s.targ[t].response_in_progress
  <2>1. Same(c1, e, Seen)
    <3>1. IsState(e)
      BY <1>7
    <3>2. \A b, w : Same(Require(e, b, w), e, Seen)
      BY <3>1, Reported
    <3> DEFINE none == s.targ[t].next = Null
               what == "two pending responses"
    <3>3. c1 = Require(e, none, what)
      OBVIOUS
    <3> HIDE DEF none, what
    <3>4. Same(Require(e, none, what), e, Seen)
      BY <3>2
    <3> HIDE DEF c1
    <3> QED BY <3>3, <3>4
  <2> HIDE DEF c1
  <2>2. Sound(c1, k, h, L) /\ Stays(c1, e, {})
    BY <1>4, <2>1, Overseen
  <2>3. c1.trans[x].target = t
    BY <1>8, <2>2, StaysRoute DEF SameRoute
  <2>4. /\ Sound(n, [k EXCEPT ![x] = "next"], h, L) /\ Keeps(n, c1, {"targ"})
        /\ SameTypes(n, c1)
    BY <1>2, <2>2, <2>3, SetNextSound
  <2> HIDE DEF n
  <2>5. Fine(n, h, L) /\ IsState(n)
    BY <2>4, Placed, SoundParts
  <2>6. Stays(n, c1, {"targ"})
    BY <2>4 DEF Stays
  <2>7. Stays(c1, s, {"trans"})
    BY <1>7, <2>2, StaysMore
  <2>8. Stays(n, s, {"trans", "targ", "peq"})
    BY <2>6, <2>7, StaysMore
  <2>9. Outcome(Accepted(n, "BEGIN_REQ"), s, x, h, L)
    BY <2>5, <2>8, Returned DEF Outcome, Accepted, Result, IsResult
  <2> QED BY <1>0, <1>9, <2>9
<1>10. CASE ~s.targ[t].response_in_progress
  <2>1. Sound(r, k, h, L) /\ Keeps(r, e, {"targ"}) /\ SameTypes(r, e)
    BY <1>4, RespondSound
  <2> HIDE DEF r
  <2>2. At(r, x, {"served"}, h, L) /\ IsState(r)
    BY <1>2, <2>1, Placed, SoundParts
  <2>3. Stays(r, e, {"targ"})
    BY <2>1 DEF Stays
  <2>4. Stays(r, s, {"trans", "targ", "peq"})
    BY <1>7, <2>3, StaysMore
  <2>5. Outcome(Updated(r, "BEGIN_RESP"), s, x, h, L)
    BY <2>2, <2>4, Returned DEF Outcome, Updated, Result, IsResult
  <2> QED BY <1>0, <1>10, <2>5
<1> QED BY <1>9, <1>10

LEMMA BeginE ==
  ASSUME NEW s, NEW p, NEW h, NEW L, Sound(s, p, h, L), NEW x \in Trans,
         p[x] = "sent", s.targ[s.trans[x].target].type = "E", NEW w \in {"OK", "ERROR"}
  PROVE  Outcome(Completed(Answer(s, x, w), "BEGIN_REQ"), s, x, h, L)
<1> DEFINE e == Answer(s, x, w)
<1>1. Sound(e, p, h, L) /\ OnlyTrans(e, s, x) /\ SameRoutes(e, s)
  BY AnswerSound
<1> HIDE DEF e
<1>2. Keeps(e, s, {"trans"})
  BY <1>1 DEF Keeps, OnlyTrans
<1>3. Stays(e, s, {"trans", "targ", "peq"})
  BY <1>2, KeepsStays, StaysItself, StaysMore
<1>4. At(e, x, {"sent"}, h, L) /\ IsState(e)
  BY <1>1, Placed, SoundParts
<1>5. Outcome(Completed(e, "BEGIN_REQ"), s, x, h, L)
  BY <1>3, <1>4, Returned DEF Outcome, Completed, Result, IsResult
<1> QED BY <1>5 DEF e

LEMMA TargetBegin ==
  ASSUME NEW s, NEW p, NEW h, NEW L, Sound(s, p, h, L), NEW x \in Trans, NEW t \in Targets,
         s.trans[x].target = t, p[x] = "sent"
  PROVE  Outcome(TargetFw(s, t, x, "BEGIN_REQ"), s, x, h, L)
<1> DEFINE r == TargetFw(s, t, x, "BEGIN_REQ")
<1>1. s.targ[t].type \in Types
  BY TypeField
<1>2. CASE s.targ[t].type \in {"A", "C"}
  <2>1. r = Accepted(Post(s, t, x, "BEGIN_REQ"), "BEGIN_REQ")
    BY <1>2 DEF TargetFw, FwA, FwC
  <2> QED BY <1>2, <2>1, PostRequest
<1>3. CASE s.targ[t].type = "B"
  <2>1. r = FwB(s, t, x, "BEGIN_REQ")
    BY <1>3 DEF TargetFw
  <2> QED BY <1>3, <2>1, BeginB
<1>4. CASE s.targ[t].type = "D"
  <2>1. r = BeginReqD(s, t, x, "BEGIN_REQ")
    BY <1>4 DEF TargetFw
  <2> QED BY <1>4, <2>1, BeginD
<1>5. CASE s.targ[t].type = "E"
  <2>1. r = Completed(Answer(s, x, "OK"), "BEGIN_REQ")
    BY <1>5 DEF TargetFw, FwE, Execute
  <2> QED BY <1>5, <2>1, BeginE
<1> QED BY <1>1, <1>2, <1>3, <1>4, <1>5 DEF Types

(* Through the checker and the lock interconnect.                          *)
LEMMA CallBegin ==
  ASSUME NEW s, NEW p, NEW h, NEW L, Sound(s, p, h, L), NEW x \in Trans, NEW t \in Targets,
         s.trans[x].target = t, p[x] = "sent"
  PROVE  Outcome(CallTarget(s, t, x, "BEGIN_REQ"), s, x, h, L)
<1> DEFINE b == FwPre(s, t, x, "BEGIN_REQ")
           f == TargetFw(b, t, x, "BEGIN_REQ")
           g == FwPost(f, t, x)
<1>1. CASE Locked(s, t, x)
  <2>1. s.targ[t].type = "E"
    BY <1>1 DEF Locked
  <2>2. CallTarget(s, t, x, "BEGIN_REQ") = Completed(Answer(s, x, "ERROR"), "BEGIN_REQ")
    BY <1>1 DEF CallTarget, Refuse
  <2> QED BY <2>1, <2>2, BeginE
<1>2. CASE ~Locked(s, t, x)
  <2>0. CallTarget(s, t, x, "BEGIN_REQ") = g
    BY <1>2 DEF CallTarget
  <2>1. Same(b, s, Seen)
    BY SoundParts, FwPreObserved
  <2> HIDE DEF b
  <2>2. Sound(b, p, h, L) /\ Stays(b, s, {}) /\ b.targ = s.targ
    BY <2>1, Overseen
  <2>3. b.trans[x].target = t
    BY <2>2, StaysRoute DEF SameRoute
  <2>4. Outcome(f, b, x, h, L)
    BY <2>2, <2>3, TargetBegin
  <2> HIDE DEF f
  <2>5. IsResult(f)
    BY <2>4 DEF Outcome
  <2>6. IsResult(g) /\ Same(g.s, f.s, Seen) /\ g.ret = f.ret /\ g.phase = f.phase
    BY <2>5, FwPostObserved
  <2> HIDE DEF g
  <2>7. Stays(g.s, f.s, {}) /\ \A q, k, M : Sound(f.s, q, k, M) => Sound(g.s, q, k, M)
    BY <2>6, Overseen
  <2>8. /\ Fine(f.s, h, L) => Fine(g.s, h, L)
        /\ \A K : At(f.s, x, K, h, L) => At(g.s, x, K, h, L)
    BY <2>7 DEF Fine, At
  <2>9. Stays(g.s, s, {"trans", "targ", "peq"})
    <3>1. Stays(f.s, b, {"trans", "targ", "peq"})
      BY <2>4 DEF Outcome
    <3>2. Stays(f.s, s, {"trans", "targ", "peq"})
      BY <2>2, <3>1, StaysMore
    <3> QED BY <2>7, <3>2, StaysMore
  <2>10. Outcome(g, s, x, h, L)
    BY <2>2, <2>3, <2>4, <2>6, <2>8, <2>9 DEF Outcome
  <2> QED BY <2>0, <2>10
<1> QED BY <1>1, <1>2

-----------------------------------------------------------------------------
(* A target is called with the end of a response.                          *)
Ended(r, s, h, L) ==
  /\ IsResult(r) /\ r.ret # "UPDATED" /\ Stays(r.s, s, {"trans", "targ", "peq", "runnable"})
  /\ Fine(r.s, h, L)

LEMMA ReleaseStays ==
  ASSUME NEW s, NEW p, NEW h, NEW L, Sound(s, p, h, L), NEW x \in Trans
  PROVE  Stays(Release(s, x), s, {"trans"})
<1> DEFINE r == Release(s, x)
<1>1. OnlyTrans(r, s, x) /\ SameRoutes(r, s)
  BY Released
<1> HIDE DEF r
<1>2. Keeps(r, s, {"trans"})
  BY <1>1 DEF Keeps, OnlyTrans
<1>3. Stays(r, s, {"trans"})
  BY <1>2, KeepsStays
<1> QED BY <1>3 DEF r

(* The target gives the transaction back, which was the last to hold it.   *)
LEMMA GiveBack ==
  ASSUME NEW s, NEW p, NEW h, NEW L, Sound(s, p, h, L), NEW x \in Trans, p[x] = "answered",
         ~s.trans[x].dont_propagate_fw, s.targ[s.trans[x].target].type \notin {"A", "B"}
  PROVE  Fine(Release(s, x), h, L) /\ Stays(Release(s, x), s, {"trans"})
<1>2. s.trans[x].dont_propagate_fw = FALSE
  BY TransField
<1>3. "answered" \in InHand \ {"accepted", "new"} /\ "none" \in InHand /\ "none" \notin Routed
  BY DEF InHand, Routed
<1>4. \A i \in Inits : s.init[i].req # x
  <2>1. x # Null /\ "answered" \notin ByInitiator
    BY TLMAssumption DEF Null, ByInitiator
  <2> QED BY <2>1, SoundParts DEF Initiating
<1>5. Need("none", s.trans[x].dont_propagate_fw) + 1 <= Need(p[x], s.trans[x].dont_propagate_fw)
  BY <1>2 DEF Need, One, ByInitiator, ByTarget, ByQueue
<1>6. Sound(Release(s, x), [p EXCEPT ![x] = "none"], h, L)
  BY <1>3, <1>4, <1>5, ReleaseInHand
<1> QED BY <1>6, Placed, ReleaseStays

LEMMA PostEnd ==
  ASSUME NEW s, NEW p, NEW h, NEW L, Sound(s, p, h, L), NEW x \in Trans, NEW t \in Targets,
         s.trans[x].target = t, p[x] = "answered", ~s.trans[x].dont_propagate_fw,
         s.targ[t].type \in {"A", "B", "C"}
  PROVE  Ended(Accepted(Post(s, t, x, "END_RESP"), "END_RESP"), s, h, L)
<1> DEFINE r == Post(s, t, x, "END_RESP")
<1>1. MayPost(s, p, x, t, "END_RESP")
  BY DEF MayPost
<1>2. Sound(r, [p EXCEPT ![x] = PlaceOf["END_RESP"]], h, L) /\ Keeps(r, s, {"peq"})
  BY <1>1, PostSound
<1> HIDE DEF r
<1>3. Fine(r, h, L) /\ IsState(r)
  BY <1>2, Placed, SoundParts
<1>4. Stays(r, s, {"trans", "targ", "peq", "runnable"})
  BY <1>2, KeepsStays, StaysItself, StaysMore
<1>5. Ended(Accepted(r, "END_RESP"), s, h, L)
  BY <1>3, <1>4, Returned DEF Ended, Accepted, Result, IsResult
<1> QED BY <1>5 DEF r

(* The process that sends the pending response of a target of type D is    *)
(* notified.                                                               *)
LEMMA WakeSender ==
  ASSUME NEW s, NEW p, NEW h, NEW L, Sound(s, p, h, L), NEW t \in Targets,
         s.targ[t].type = "D", s.targ[t].next # Null
  PROVE  LET r == Notify(s, <<"send_rsp", t>>)
         IN Sound(r, p, h, L) /\ Stays(r, s, {"runnable"})
<1> DEFINE v == s.runnable \cup {<<"send_rsp", t>>}
           w == [s EXCEPT !.runnable = v]
<1>1. Notify(s, <<"send_rsp", t>>) \in {s, w}
  BY DEF Notify
<1>2. Same(w, s, {"runnable"}) /\ w.runnable = v
  BY SoundParts, SetToo
<1>3. \A u \in Targets : <<"send_rsp", u>> \in v => <<"send_rsp", u>> \in s.runnable \/ u = t
  OBVIOUS
<1> HIDE DEF v, w
<1>4. IsState(w) /\ Keeps(w, s, {"runnable"})
  BY <1>2, SameKeeps
<1>5. Unchanged(w, s, Core \ {"runnable"})
  BY <1>4 DEF Keeps
<1>6. Sound(w, p, h, L)
  BY <1>2, <1>3, <1>4, <1>5, Notified
<1>7. Stays(w, s, {"runnable"}) /\ Stays(s, s, {"runnable"})
  BY <1>4, KeepsStays, StaysItself
<1> QED BY <1>1, <1>6, <1>7

LEMMA EndD ==
  ASSUME NEW s, NEW p, NEW h, NEW L, Sound(s, p, h, L), NEW x \in Trans, NEW t \in Targets,
         s.trans[x].target = t, p[x] = "answered", ~s.trans[x].dont_propagate_fw,
         s.targ[t].type = "D"
  PROVE  Ended(EndRespD(s, t, x, "END_RESP"), s, h, L)
<1> DEFINE what == "illegal END_RESP"
           c == Require(s, s.targ[t].response_in_progress, what)
           e == Release(c, x)
           d == [e EXCEPT !.targ[t].response_in_progress = FALSE]
           n == Notify(d, <<"send_rsp", t>>)
           r == IF d.targ[t].next = Null THEN d ELSE n
<1>0. EndRespD(s, t, x, "END_RESP") = Completed(r, "END_RESP")
  BY DEF EndRespD
<1> HIDE DEF what
<1>1. Same(c, s, Seen)
  BY SoundParts, Reported
<1> HIDE DEF c
<1>2. Sound(c, p, h, L) /\ Stays(c, s, {}) /\ c.targ = s.targ
  BY <1>1, Overseen
<1>3. SameRoute(c.trans[x], s.trans[x])
  BY <1>2, StaysRoute
<1>4. Fine(e, h, L) /\ Stays(e, c, {"trans"})
  BY <1>2, <1>3, GiveBack DEF SameRoute
<1> HIDE DEF e
<1>5. PICK q \in [Trans -> Places] : Sound(e, q, h, L)
  BY <1>4 DEF Fine
<1>6. /\ Sound(d, q, h, L) /\ Keeps(d, e, {"targ"}) /\ SameTypes(d, e)
  BY <1>5, RespondSound
<1> HIDE DEF d
<1>7. Stays(d, e, {"targ"})
  BY <1>6 DEF Stays
<1>8. Stays(e, s, {"trans"})
  BY <1>2, <1>4, StaysMore
<1>9. Stays(d, s, {"trans", "targ", "peq", "runnable"})
  BY <1>7, <1>8, StaysMore
<1>10. d.targ[t].type = "D"
  BY <1>9, StaysRoute
<1>11. Sound(r, q, h, L) /\ Stays(r, s, {"trans", "targ", "peq", "runnable"})
  <2>1. CASE d.targ[t].next = Null
    BY <1>6, <1>9, <2>1
  <2>2. CASE d.targ[t].next # Null
    <3>1. Sound(n, q, h, L) /\ Stays(n, d, {"runnable"})
      BY <1>6, <1>10, <2>2, WakeSender
    <3> HIDE DEF n
    <3>2. Stays(n, s, {"trans", "targ", "peq", "runnable"})
      BY <1>9, <3>1, StaysMore
    <3> QED BY <2>2, <3>1, <3>2
  <2> QED BY <2>1, <2>2
<1> HIDE DEF r
<1>12. Fine(r, h, L) /\ IsState(r)
  BY <1>11, Placed, SoundParts
<1>13. Ended(Completed(r, "END_RESP"), s, h, L)
  BY <1>11, <1>12, Returned DEF Ended, Completed, Result, IsResult
<1> QED BY <1>0, <1>13

LEMMA EndE ==
  ASSUME NEW s, NEW p, NEW h, NEW L, Sound(s, p, h, L), NEW x \in Trans, NEW w \in {"OK", "ERROR"}
  PROVE  Ended(Completed(Answer(s, x, w), "END_RESP"), s, h, L)
<1> DEFINE e == Answer(s, x, w)
<1>1. Sound(e, p, h, L) /\ OnlyTrans(e, s, x) /\ SameRoutes(e, s)
  BY AnswerSound
<1> HIDE DEF e
<1>2. Keeps(e, s, {"trans"})
  BY <1>1 DEF Keeps, OnlyTrans
<1>3. Stays(e, s, {"trans", "targ", "peq", "runnable"})
  BY <1>2, KeepsStays, StaysItself, StaysMore
<1>4. Fine(e, h, L) /\ IsState(e)
  BY <1>1, Placed, SoundParts
<1>5. Ended(Completed(e, "END_RESP"), s, h, L)
  BY <1>3, <1>4, Returned DEF Ended, Completed, Result, IsResult
<1> QED BY <1>5 DEF e

LEMMA TargetEnd ==
  ASSUME NEW s, NEW p, NEW h, NEW L, Sound(s, p, h, L), NEW x \in Trans, NEW t \in Targets,
         s.trans[x].target = t, p[x] = "answered", ~s.trans[x].dont_propagate_fw
  PROVE  Ended(TargetFw(s, t, x, "END_RESP"), s, h, L)
<1> DEFINE r == TargetFw(s, t, x, "END_RESP")
<1>1. s.targ[t].type \in Types
  BY TypeField
<1>2. CASE s.targ[t].type \in {"A", "B", "C"}
  <2>1. r = Accepted(Post(s, t, x, "END_RESP"), "END_RESP")
    BY <1>2 DEF TargetFw, FwA, FwB, FwC
  <2> QED BY <1>2, <2>1, PostEnd
<1>3. CASE s.targ[t].type = "D"
  <2>1. r = EndRespD(s, t, x, "END_RESP")
    BY <1>3 DEF TargetFw
  <2> QED BY <1>3, <2>1, EndD
<1>4. CASE s.targ[t].type = "E"
  <2>1. r = Completed(Answer(s, x, "OK"), "END_RESP")
    BY <1>4 DEF TargetFw, FwE, Execute
  <2> QED BY <2>1, EndE
<1> QED BY <1>1, <1>2, <1>3, <1>4 DEF Types

LEMMA CallEnd ==
  ASSUME NEW s, NEW p, NEW h, NEW L, Sound(s, p, h, L), NEW x \in Trans, NEW t \in Targets,
         s.trans[x].target = t, p[x] = "answered", ~s.trans[x].dont_propagate_fw
  PROVE  Ended(CallTarget(s, t, x, "END_RESP"), s, h, L)
<1> DEFINE b == FwPre(s, t, x, "END_RESP")
           f == TargetFw(b, t, x, "END_RESP")
           g == FwPost(f, t, x)
<1>1. CASE Locked(s, t, x)
  <2>1. CallTarget(s, t, x, "END_RESP") = Completed(Answer(s, x, "ERROR"), "END_RESP")
    BY <1>1 DEF CallTarget, Refuse
  <2> QED BY <2>1, EndE
<1>2. CASE ~Locked(s, t, x)
  <2>0. CallTarget(s, t, x, "END_RESP") = g
    BY <1>2 DEF CallTarget
  <2>1. Same(b, s, Seen)
    BY SoundParts, FwPreObserved
  <2> HIDE DEF b
  <2>2. Sound(b, p, h, L) /\ Stays(b, s, {})
    BY <2>1, Overseen
  <2>3. SameRoute(b.trans[x], s.trans[x])
    BY <2>2, StaysRoute
  <2>4. Ended(f, b, h, L)
    BY <2>2, <2>3, TargetEnd DEF SameRoute
  <2> HIDE DEF f
  <2>5. IsResult(f)
    BY <2>4 DEF Ended
  <2>6. IsResult(g) /\ Same(g.s, f.s, Seen) /\ g.ret = f.ret
    BY <2>5, FwPostObserved
  <2> HIDE DEF g
  <2>7. Stays(g.s, f.s, {}) /\ \A q, k, M : Sound(f.s, q, k, M) => Sound(g.s, q, k, M)
    BY <2>6, Overseen
  <2>8. Fine(f.s, h, L) => Fine(g.s, h, L)
    BY <2>7 DEF Fine
  <2>9. Stays(g.s, s, {"trans", "targ", "peq", "runnable"})
    <3>1. Stays(f.s, b, {"trans", "targ", "peq", "runnable"})
      BY <2>4 DEF Ended
    <3>2. Stays(f.s, s, {"trans", "targ", "peq", "runnable"})
      BY <2>2, <3>1, StaysMore
    <3> QED BY <2>7, <3>2, StaysMore
  <2>10. Ended(g, s, h, L)
    BY <2>4, <2>6, <2>8, <2>9 DEF Ended
  <2> QED BY <2>0, <2>10
<1> QED BY <1>1, <1>2

(* The interconnect passes it on, unless the target completed the request. *)
LEMMA EndRespSound ==
  ASSUME NEW s, NEW p, NEW h, NEW L, Sound(s, p, h, L), NEW x \in Trans, NEW i \in Inits,
         p[x] = "answered"
  PROVE  LET r == EndResp(s, i, x) IN IsResult(r) /\ Fine(r.s, h, L)
<1> DEFINE t == s.trans[x].target
           ok == s.trans[x].init = i /\ s.rsp[i] # Null
           what == "no response to end"
           c == Require(s, ok, what)
           e == Notify(c, <<"end_rsp", i>>)
           f == CallTarget(e, t, x, "END_RESP")
           a == AfterTarget(f, i, t, x, FALSE)
<1>0. EndResp(s, i, x) = IF s.trans[x].dont_propagate_fw THEN Accepted(e, "END_RESP") ELSE a
  BY DEF EndResp
<1> HIDE DEF ok, what
<1>1. Same(c, s, Seen)
  BY SoundParts, Reported
<1> HIDE DEF c
<1>2. Sound(c, p, h, L) /\ Stays(c, s, {})
  BY <1>1, Overseen
<1>3. Sound(e, p, h, L) /\ Unchanged(e, c, Core \ {"runnable"})
  BY <1>2, NotifySound
<1> HIDE DEF e
<1>4. SameRoute(e.trans[x], s.trans[x])
  <2>1. e.trans = c.trans
    BY <1>3 DEF Unchanged, Core
  <2> QED BY <1>2, <2>1, StaysRoute
<1>5. CASE s.trans[x].dont_propagate_fw
  <2>1. Fine(e, h, L) /\ IsState(e)
    BY <1>3, Placed, SoundParts
  <2>2. EndResp(s, i, x) = Accepted(e, "END_RESP")
    BY <1>0, <1>5
  <2> QED BY <2>1, <2>2 DEF Accepted, Result, IsResult
<1>6. CASE ~s.trans[x].dont_propagate_fw
  <2>1. t \in Targets /\ e.trans[x].target = t
    BY <1>4, TransField DEF SameRoute
  <2> HIDE DEF t
  <2>2. Ended(f, e, h, L)
    BY <1>3, <1>4, <1>6, <2>1, CallEnd DEF SameRoute
  <2> HIDE DEF f
  <2>3. a = f
    BY <2>2 DEF AfterTarget, Ended
  <2> QED BY <1>0, <1>6, <2>2, <2>3 DEF Ended
<1> QED BY <1>5, <1>6

(* An initiator calls with the end of a response.                          *)
LEMMA FinishSound ==
  ASSUME NEW s, NEW p, NEW h, NEW L, Sound(s, p, h, L), NEW x \in Trans, NEW i \in Inits,
         p[x] = "answered"
  PROVE  Fine(CallFromInitiator(s, i, x, "END_RESP").s, h, L)
<1> DEFINE b == FwPre(s, i, x, "END_RESP")
           f == EndResp(b, i, x)
           g == FwPost(f, i, x)
<1>0. CallFromInitiator(s, i, x, "END_RESP") = g
  BY DEF CallFromInitiator, InterconnectFw
<1>1. Same(b, s, Seen)
  BY SoundParts, FwPreObserved
<1> HIDE DEF b
<1>2. Sound(b, p, h, L)
  BY <1>1, Overseen
<1>3. IsResult(f) /\ Fine(f.s, h, L)
  BY <1>2, EndRespSound
<1> HIDE DEF f
<1>4. Same(g.s, f.s, Seen)
  BY <1>3, FwPostObserved
<1> HIDE DEF g
<1>5. \A q, k, M : Sound(f.s, q, k, M) => Sound(g.s, q, k, M)
  BY <1>4, Overseen
<1>6. Fine(g.s, h, L)
  BY <1>3, <1>5 DEF Fine
<1> QED BY <1>0, <1>6

-----------------------------------------------------------------------------
(* An initiator is called with the end of a request.                       *)
LEMMA BwPreSame ==
  ASSUME NEW s, IsState(s), NEW h, NEW x, NEW phase
  PROVE  Same(BwPre(s, h, x, phase), s, Seen)
<1> DEFINE r == Accepted(s, phase)
<1>1. IsResult(r)
  BY DEF Accepted, Result, IsResult
<1> HIDE DEF r
<1> QED BY <1>1, BwObserved

LEMMA BwPostSame ==
  ASSUME NEW r, IsResult(r), NEW h, NEW x
  PROVE  LET q == BwPost(r, h, x)
         IN IsResult(q) /\ Same(q.s, r.s, Seen) /\ q.ret = r.ret /\ q.phase = r.phase
<1>1. IsState(r.s)
  BY DEF IsResult
<1> QED BY <1>1, BwObserved

LEMMA CallEndReq ==
  ASSUME NEW s, NEW p, NEW h, NEW L, Sound(s, p, h, L), NEW x \in Trans, NEW i \in Inits,
         p[x] \in {"accepted", "internal"}
  PROVE  LET r == CallInitiator(s, i, x, "END_REQ")
         IN /\ IsResult(r) /\ r.ret = "ACCEPTED" /\ Sound(r.s, p, h, L)
            /\ Stays(r.s, s, {"peq"})
<1> DEFINE b == BwPre(s, i, x, "END_REQ")
           m == Post(b, i, x, "END_REQ")
           f == Accepted(m, "END_REQ")
           g == BwPost(f, i, x)
<1>0. CallInitiator(s, i, x, "END_REQ") = g
  BY DEF CallInitiator, InitiatorBw, BwB, BwA
<1>1. Same(b, s, Seen)
  BY SoundParts, BwPreSame
<1> HIDE DEF b
<1>2. Sound(b, p, h, L) /\ Stays(b, s, {})
  BY <1>1, Overseen
<1>3. Sound(m, p, h, L) /\ Keeps(m, b, {"peq"})
  BY <1>2, PostEndReq
<1> HIDE DEF m
<1>4. Stays(m, b, {"peq"}) /\ IsState(m)
  BY <1>3, KeepsStays, SoundParts
<1>5. IsResult(f) /\ f.s = m /\ f.ret = "ACCEPTED"
  BY <1>4 DEF Accepted, Result, IsResult
<1> HIDE DEF f
<1>6. IsResult(g) /\ Same(g.s, f.s, Seen) /\ g.ret = f.ret
  BY <1>5, BwPostSame
<1> HIDE DEF g
<1>7. Sound(g.s, p, h, L) /\ Stays(g.s, m, {})
  BY <1>3, <1>5, <1>6, Overseen
<1>8. Stays(m, s, {"peq"})
  BY <1>2, <1>4, StaysMore
<1>9. Stays(g.s, s, {"peq"})
  BY <1>7, <1>8, StaysMore
<1> QED BY <1>0, <1>5, <1>6, <1>7, <1>9

(* An initiator is called with a response.                                 *)
Delivered(r, s, x, h, L) ==
  /\ IsResult(r) /\ Stays(r.s, s, {"peq", "trans", "init"})
  /\ \/ r.ret = "ACCEPTED" /\ Fine(r.s, h, L)
     \/ r.ret = "COMPLETED" /\ At(r.s, x, {"answered"}, h, L)

LEMMA DeliverA ==
  ASSUME NEW s, NEW p, NEW h, NEW L, Sound(s, p, h, L), NEW x \in Trans, NEW i \in Inits,
         s.trans[x].init = i, p[x] = "served"
  PROVE  Delivered(BwA(s, i, x, "BEGIN_RESP"), s, x, h, L)
<1> DEFINE r == Post(s, i, x, "BEGIN_RESP")
<1>1. MayPost(s, p, x, i, "BEGIN_RESP")
  BY DEF MayPost
<1>2. Sound(r, [p EXCEPT ![x] = PlaceOf["BEGIN_RESP"]], h, L) /\ Keeps(r, s, {"peq"})
  BY <1>1, PostSound
<1> HIDE DEF r
<1>3. Fine(r, h, L) /\ IsState(r)
  BY <1>2, Placed, SoundParts
<1>4. Stays(r, s, {"peq", "trans", "init"})
  BY <1>2, KeepsStays, StaysItself, StaysMore
<1>5. Delivered(Accepted(r, "BEGIN_RESP"), s, x, h, L)
  BY <1>3, <1>4 DEF Delivered, Accepted, Result, IsResult
<1> QED BY <1>5 DEF r, BwA

(* The initiator is through with the transaction, and its request over.    *)
LEMMA GiveUp ==
  ASSUME NEW s, NEW p, NEW h, NEW L, Sound(s, p, h, L), NEW x \in Trans, p[x] = "served",
         \A j \in Inits : s.init[j].req # x
  PROVE  At(Release(s, x), x, {"answered"}, h, L) /\ Stays(Release(s, x), s, {"trans"})
<1> DEFINE q == [p EXCEPT ![x] = "answered"]
<1>1. /\ "served" \in InHand \ {"accepted", "new"} /\ "answered" \in InHand
      /\ "served" \in Routed /\ "served" \in InPipe /\ "answered" \in InPipe
  BY DEF InHand, Routed, Places, InPipe, ByTarget
<1>2. \A d : Need("answered", d) + 1 <= Need("served", d)
  BY DEF Need, One, ByInitiator, ByTarget, ByQueue
<1>3. Sound(Release(s, x), q, h, L)
  BY <1>1, <1>2, ReleaseInHand
<1>4. q[x] \in {"answered"}
  BY SoundParts
<1> HIDE DEF q
<1> QED BY <1>3, <1>4, Placed, ReleaseStays

(* Type B.                                                                 *)
LEMMA NoOtherRequest ==
  ASSUME NEW s, NEW p, NEW h, NEW L, Sound(s, p, h, L), NEW x \in Trans, NEW i \in Inits,
         s.trans[x].init = i, p[x] # "new", s.init[i].req # x
  PROVE  \A j \in Inits : s.init[j].req # x
<1>1. x # Null
  BY TLMAssumption DEF Null
<1> QED BY <1>1, SoundParts DEF Initiating

LEMMA RequestOver ==
  ASSUME NEW s, NEW p, NEW h, NEW L, Sound(s, p, h, L), NEW x \in Trans, NEW i \in Inits,
         s.trans[x].init = i, p[x] # "new"
  PROVE  LET r == IF x = s.init[i].req THEN EndRequest(s, i) ELSE s
         IN /\ Sound(r, p, h, L) /\ Stays(r, s, {"init"})
            /\ \A j \in Inits : r.init[j].req # x
<1> DEFINE e == EndRequest(s, i)
<1>1. CASE x # s.init[i].req
  BY <1>1, NoOtherRequest, StaysItself
<1>2. CASE x = s.init[i].req
  <2>1. Sound(e, p, h, L) /\ Keeps(e, s, {"init"}) /\ e.init[i].req = Null
    BY EndRequestSound
  <2> HIDE DEF e
  <2>2. Stays(e, s, {"init"})
    BY <2>1, KeepsStays
  <2>3. e.trans[x].init = i
    BY <2>2, StaysRoute DEF SameRoute
  <2>4. e.init[i].req # x
    BY <2>1, TLMAssumption DEF Null
  <2>5. \A j \in Inits : e.init[j].req # x
    BY <2>1, <2>3, <2>4, NoOtherRequest
  <2> QED BY <1>2, <2>1, <2>2, <2>5 DEF e
<1> QED BY <1>1, <1>2

LEMMA AnsweredSame ==
  ASSUME NEW s, IsState(s), NEW x
  PROVE  Same(CheckTransaction(s, x), s, Seen)
<1> DEFINE ok == s.trans[x].ref > 0 /\ s.trans[x].status # "INCOMPLETE"
           what == "completed without an answer"
<1>1. CheckTransaction(s, x) = Require(s, ok, what)
  BY DEF CheckTransaction
<1> HIDE DEF ok, what
<1> QED BY <1>1, Reported

LEMMA DeliverB ==
  ASSUME NEW s, NEW p, NEW h, NEW L, Sound(s, p, h, L), NEW x \in Trans, NEW i \in Inits,
         s.trans[x].init = i, p[x] = "served"
  PROVE  Delivered(BwB(s, i, x, "BEGIN_RESP"), s, x, h, L)
<1> DEFINE e == IF x = s.init[i].req THEN EndRequest(s, i) ELSE s
           c == CheckTransaction(e, x)
           r == Release(c, x)
<1>0. BwB(s, i, x, "BEGIN_RESP") = Completed(r, "BEGIN_RESP")
  BY DEF BwB
<1>1. /\ Sound(e, p, h, L) /\ Stays(e, s, {"init"})
      /\ \A j \in Inits : e.init[j].req # x
  BY RequestOver
<1> HIDE DEF e
<1>2. Same(c, e, Seen)
  BY <1>1, SoundParts, AnsweredSame
<1> HIDE DEF c
<1>3. Sound(c, p, h, L) /\ Stays(c, e, {})
  BY <1>1, <1>2, Overseen
<1>4. c.init = e.init
  BY <1>3, StaysRoute DEF Core
<1>5. At(r, x, {"answered"}, h, L) /\ Stays(r, c, {"trans"})
  BY <1>1, <1>3, <1>4, GiveUp
<1> HIDE DEF r
<1>6. Stays(r, s, {"peq", "trans", "init"})
  <2>1. Stays(c, s, {"init"})
    BY <1>1, <1>3, StaysMore
  <2> QED BY <1>5, <2>1, StaysMore
<1>7. IsState(r)
  BY <1>5, AtParts
<1>8. Delivered(Completed(r, "BEGIN_RESP"), s, x, h, L)
  BY <1>5, <1>6, <1>7 DEF Delivered, Completed, Result, IsResult
<1> QED BY <1>0, <1>8

LEMMA CallBeginResp ==
  ASSUME NEW s, NEW p, NEW h, NEW L, Sound(s, p, h, L), NEW x \in Trans, NEW i \in Inits,
         s.trans[x].init = i, p[x] = "served"
  PROVE  Delivered(CallInitiator(s, i, x, "BEGIN_RESP"), s, x, h, L)
<1> DEFINE b == BwPre(s, i, x, "BEGIN_RESP")
           f == InitiatorBw(b, i, x, "BEGIN_RESP")
           g == BwPost(f, i, x)
<1>0. CallInitiator(s, i, x, "BEGIN_RESP") = g
  BY DEF CallInitiator
<1>1. Same(b, s, Seen)
  BY SoundParts, BwPreSame
<1> HIDE DEF b
<1>2. Sound(b, p, h, L) /\ Stays(b, s, {})
  BY <1>1, Overseen
<1>3. b.trans[x].init = i
  BY <1>2, StaysRoute DEF SameRoute
<1>4. Delivered(f, b, x, h, L)
  BY <1>2, <1>3, DeliverA, DeliverB DEF InitiatorBw
<1> HIDE DEF f
<1>5. IsResult(f) /\ Stays(f.s, b, {"peq", "trans", "init"})
  BY <1>4 DEF Delivered
<1>6. IsResult(g) /\ Same(g.s, f.s, Seen) /\ g.ret = f.ret
  BY <1>5, BwPostSame
<1> HIDE DEF g
<1>7. Stays(g.s, f.s, {}) /\ \A q, k, M : Sound(f.s, q, k, M) => Sound(g.s, q, k, M)
  BY <1>6, Overseen
<1>8. /\ Fine(f.s, h, L) => Fine(g.s, h, L)
      /\ At(f.s, x, {"answered"}, h, L) => At(g.s, x, {"answered"}, h, L)
  BY <1>7 DEF Fine, At
<1>9. Stays(g.s, s, {"peq", "trans", "init"})
  <2>1. Stays(f.s, s, {"peq", "trans", "init"})
    BY <1>2, <1>5, StaysMore
  <2> QED BY <1>7, <2>1, StaysMore
<1>10. Delivered(g, s, x, h, L)
  BY <1>4, <1>6, <1>8, <1>9 DEF Delivered
<1> QED BY <1>0, <1>10

-----------------------------------------------------------------------------
(* A target calls the interconnect.                                        *)
LEMMA RequireSound ==
  ASSUME NEW s, NEW p, NEW h, NEW L, Sound(s, p, h, L), NEW b, NEW what
  PROVE  LET r == Require(s, b, what)
         IN Sound(r, p, h, L) /\ Stays(r, s, {}) /\ r.targ = s.targ /\ IsState(r)
BY SoundParts, Reported, Overseen

LEMMA NotifyStays ==
  ASSUME NEW s, NEW p, NEW h, NEW L, Sound(s, p, h, L), NEW name \in {"end_req", "end_rsp"}, NEW y
  PROVE  LET r == Notify(s, <<name, y>>)
         IN Sound(r, p, h, L) /\ Stays(r, s, {"runnable"}) /\ r.trans = s.trans /\ r.targ = s.targ
<1> DEFINE r == Notify(s, <<name, y>>)
<1>1. Sound(r, p, h, L) /\ Unchanged(r, s, Core \ {"runnable"})
  BY NotifySound
<1> HIDE DEF r
<1>2. r.trans = s.trans /\ r.targ = s.targ
  BY <1>1 DEF Unchanged, Core
<1>3. Keeps(r, s, {"runnable"})
  BY <1>1, <1>2 DEF Keeps, SameRoutes, SameRoute
<1> QED BY <1>1, <1>2, <1>3, KeepsStays DEF r

Ending(s, t) == Notify(Require(s, s.req[t] # Null, "no request to end"), <<"end_req", t>>)

LEMMA EndReqNoticed ==
  ASSUME NEW s, NEW p, NEW h, NEW L, Sound(s, p, h, L), NEW t
  PROVE  LET r == Ending(s, t)
         IN Sound(r, p, h, L) /\ Stays(r, s, {"runnable"}) /\ r.targ = s.targ
<1> DEFINE what == "no request to end"
           b == s.req[t] # Null
           c == Require(s, b, what)
           r == Notify(c, <<"end_req", t>>)
<1>0. Ending(s, t) = r
  BY DEF Ending
<1> HIDE DEF what, b
<1>1. Sound(c, p, h, L) /\ Stays(c, s, {}) /\ c.targ = s.targ
  BY RequireSound
<1> HIDE DEF c
<1>2. Sound(r, p, h, L) /\ Stays(r, c, {"runnable"}) /\ r.targ = c.targ
  BY <1>1, NotifyStays
<1> HIDE DEF r
<1>3. Stays(r, s, {"runnable"})
  BY <1>1, <1>2, StaysMore
<1> QED BY <1>0, <1>1, <1>2, <1>3

Backs == {"peq", "trans", "init", "rsp", "rsp_queue", "runnable"}

LEMMA BwEndReq ==
  ASSUME NEW s, NEW p, NEW h, NEW L, Sound(s, p, h, L), NEW x \in Trans, NEW t \in Targets,
         p[x] \in {"accepted", "internal"}
  PROVE  LET r == InterconnectBw(s, t, x, "END_REQ")
         IN IsResult(r) /\ Sound(r.s, p, h, L) /\ Stays(r.s, s, Backs)
<1> DEFINE i == s.trans[x].init
           e == Ending(s, t)
           a == [e EXCEPT !.rsp[i] = @]
           r == CallInitiator(a, i, x, "END_REQ")
<1>0. InterconnectBw(s, t, x, "END_REQ") =
        IF r.ret = "COMPLETED" THEN [r EXCEPT !.s = Notify(@, <<"end_rsp", i>>)] ELSE r
  BY DEF InterconnectBw, Ending
<1>1. Sound(e, p, h, L) /\ Stays(e, s, {"runnable"})
  BY EndReqNoticed
<1> HIDE DEF e
<1>2. i \in Inits
  BY TransField
<1> HIDE DEF i
<1>3. /\ e.rsp[i] \in Pointer /\ (e.rsp[i] = Null => e.rsp_queue[i] = << >>)
      /\ a = [e EXCEPT !.rsp[i] = e.rsp[i]]
  BY <1>1, <1>2, SoundParts DEF Typed, Watched
<1>4. Sound(a, p, h, L) /\ Keeps(a, e, {"rsp"})
  BY <1>1, <1>2, <1>3, SetRsp
<1> HIDE DEF a
<1>5. Stays(a, e, {"rsp"})
  BY <1>4, KeepsStays
<1>6. IsResult(r) /\ r.ret = "ACCEPTED" /\ Sound(r.s, p, h, L) /\ Stays(r.s, a, {"peq"})
  BY <1>2, <1>4, CallEndReq
<1> HIDE DEF r
<1>7. Stays(r.s, s, Backs)
  <2>1. Stays(a, s, {"runnable", "rsp"})
    BY <1>1, <1>5, StaysMore
  <2> QED BY <1>6, <2>1, StaysMore DEF Backs
<1> QED BY <1>0, <1>6, <1>7

Answering(r, s, x, h, L) ==
  /\ IsResult(r) /\ Stays(r.s, s, Backs)
  /\ \/ r.ret = "ACCEPTED" /\ Fine(r.s, h, L)
     \/ r.ret = "COMPLETED" /\ At(r.s, x, {"answered"}, h, L)

LEMMA BwBeginResp ==
  ASSUME NEW s, NEW p, NEW h, NEW L, Sound(s, p, h, L), NEW x \in Trans, NEW t \in Targets,
         p[x] = "served"
  PROVE  Answering(InterconnectBw(s, t, x, "BEGIN_RESP"), s, x, h, L)
<1> DEFINE i == s.trans[x].init
           n == Ending(s, t)
           e == IF x = s.req[t] THEN n ELSE s
           a == [e EXCEPT !.rsp[i] = x]
           r == CallInitiator(a, i, x, "BEGIN_RESP")
           d == Notify(r.s, <<"end_rsp", i>>)
           u == QueueRsp(e, i, x)
<1>0. InterconnectBw(s, t, x, "BEGIN_RESP") =
        IF s.rsp[i] # Null THEN Accepted(u, "BEGIN_RESP")
        ELSE IF r.ret = "COMPLETED" THEN [r EXCEPT !.s = d] ELSE r
  BY DEF InterconnectBw, Ending
<1>1. Sound(e, p, h, L) /\ Stays(e, s, {"runnable"})
  <2>1. Sound(n, p, h, L) /\ Stays(n, s, {"runnable"})
    BY EndReqNoticed
  <2> HIDE DEF n
  <2> QED BY <2>1, StaysItself
<1> HIDE DEF e
<1>2. i \in Inits /\ e.trans[x].init = i /\ e.rsp = s.rsp
  BY <1>1, TransField, StaysRoute DEF SameRoute, Core
<1> HIDE DEF i
<1>3. CASE s.rsp[i] # Null
  <2>1. Sound(u, [p EXCEPT ![x] = "rsp_queue"], h, L) /\ Keeps(u, e, {"trans", "rsp_queue"})
    BY <1>1, <1>2, <1>3, QueueRspSound
  <2> HIDE DEF u
  <2>2. Fine(u, h, L) /\ IsState(u)
    BY <2>1, Placed, SoundParts
  <2>3. Stays(u, e, {"trans", "rsp_queue"})
    BY <2>1, KeepsStays
  <2>4. Stays(u, s, Backs)
    BY <1>1, <2>3, StaysMore DEF Backs
  <2>5. Answering(Accepted(u, "BEGIN_RESP"), s, x, h, L)
    BY <2>2, <2>4 DEF Answering, Accepted, Result, IsResult
  <2> QED BY <1>0, <1>3, <2>5
<1>4. CASE s.rsp[i] = Null
  <2>1. x \in Pointer /\ x # Null
    BY TLMAssumption DEF Null, Pointer
  <2>2. Sound(a, p, h, L) /\ Keeps(a, e, {"rsp"})
    BY <1>1, <1>2, <2>1, SetRsp
  <2> HIDE DEF a
  <2>3. Stays(a, e, {"rsp"})
    BY <2>2, KeepsStays
  <2>4. a.trans[x].init = i
    BY <1>2, <2>3, StaysRoute DEF SameRoute
  <2>5. Delivered(r, a, x, h, L)
    BY <1>2, <2>2, <2>4, CallBeginResp
  <2> HIDE DEF r
  <2>6. IsResult(r) /\ Stays(r.s, a, {"peq", "trans", "init"})
    BY <2>5 DEF Delivered
  <2>7. Stays(r.s, s, Backs)
    <3>1. Stays(a, s, {"runnable", "rsp"})
      BY <1>1, <2>3, StaysMore
    <3> QED BY <2>6, <3>1, StaysMore DEF Backs
  <2>8. CASE r.ret = "COMPLETED"
    <3>1. PICK q \in [Trans -> Places] : Sound(r.s, q, h, L) /\ q[x] \in {"answered"}
      BY <2>5, <2>8 DEF Delivered, At
    <3>2. Sound(d, q, h, L) /\ Stays(d, r.s, {"runnable"})
      BY <3>1, NotifyStays
    <3> HIDE DEF d
    <3>3. At(d, x, {"answered"}, h, L) /\ IsState(d)
      BY <3>1, <3>2, Placed, SoundParts
    <3>4. Stays(d, s, Backs)
      BY <2>7, <3>2, StaysMore DEF Backs
    <3> DEFINE g == [r EXCEPT !.s = d]
    <3>5. IsResult(g) /\ g.s = d /\ g.ret = "COMPLETED"
      BY <2>6, <2>8, <3>3 DEF IsResult, Result
    <3>6. InterconnectBw(s, t, x, "BEGIN_RESP") = g
      BY <1>0, <1>4, <2>8
    <3> HIDE DEF g
    <3> QED BY <3>3, <3>4, <3>5, <3>6 DEF Answering
  <2>9. CASE r.ret # "COMPLETED"
    <3>1. r.ret = "ACCEPTED" /\ Fine(r.s, h, L)
      BY <2>5, <2>9 DEF Delivered
    <3>2. InterconnectBw(s, t, x, "BEGIN_RESP") = r
      BY <1>0, <1>4, <2>9
    <3> QED BY <2>6, <2>7, <3>1, <3>2 DEF Answering
  <2> QED BY <2>8, <2>9
<1> QED BY <1>3, <1>4

(* Through the checker.                                                    *)
LEMMA TargetEndReq ==
  ASSUME NEW s, NEW p, NEW h, NEW L, Sound(s, p, h, L), NEW x \in Trans, NEW t \in Targets,
         p[x] \in {"accepted", "internal"}
  PROVE  LET r == CallFromTarget(s, t, x, "END_REQ")
         IN Sound(r.s, p, h, L) /\ Stays(r.s, s, Backs)
<1> DEFINE b == BwPre(s, t, x, "END_REQ")
           f == InterconnectBw(b, t, x, "END_REQ")
           g == BwPost(f, t, x)
<1>0. CallFromTarget(s, t, x, "END_REQ") = g
  BY DEF CallFromTarget
<1>1. Same(b, s, Seen)
  BY SoundParts, BwPreSame
<1> HIDE DEF b
<1>2. Sound(b, p, h, L) /\ Stays(b, s, {})
  BY <1>1, Overseen
<1>3. IsResult(f) /\ Sound(f.s, p, h, L) /\ Stays(f.s, b, Backs)
  BY <1>2, BwEndReq
<1> HIDE DEF f
<1>4. Same(g.s, f.s, Seen)
  BY <1>3, BwPostSame
<1> HIDE DEF g
<1>5. Sound(g.s, p, h, L) /\ Stays(g.s, f.s, {})
  BY <1>3, <1>4, Overseen
<1>6. Stays(f.s, s, Backs)
  BY <1>2, <1>3, StaysMore
<1>7. Stays(g.s, s, Backs)
  BY <1>5, <1>6, StaysMore
<1> QED BY <1>0, <1>5, <1>7

LEMMA TargetBeginResp ==
  ASSUME NEW s, NEW p, NEW h, NEW L, Sound(s, p, h, L), NEW x \in Trans, NEW t \in Targets,
         p[x] = "served"
  PROVE  Answering(CallFromTarget(s, t, x, "BEGIN_RESP"), s, x, h, L)
<1> DEFINE b == BwPre(s, t, x, "BEGIN_RESP")
           f == InterconnectBw(b, t, x, "BEGIN_RESP")
           g == BwPost(f, t, x)
<1>0. CallFromTarget(s, t, x, "BEGIN_RESP") = g
  BY DEF CallFromTarget
<1>1. Same(b, s, Seen)
  BY SoundParts, BwPreSame
<1> HIDE DEF b
<1>2. Sound(b, p, h, L) /\ Stays(b, s, {})
  BY <1>1, Overseen
<1>3. Answering(f, b, x, h, L)
  BY <1>2, BwBeginResp
<1> HIDE DEF f
<1>4. IsResult(f) /\ Stays(f.s, b, Backs)
  BY <1>3 DEF Answering
<1>5. IsResult(g) /\ Same(g.s, f.s, Seen) /\ g.ret = f.ret
  BY <1>4, BwPostSame
<1> HIDE DEF g
<1>6. Stays(g.s, f.s, {}) /\ \A q, k, M : Sound(f.s, q, k, M) => Sound(g.s, q, k, M)
  BY <1>5, Overseen
<1>7. /\ Fine(f.s, h, L) => Fine(g.s, h, L)
      /\ At(f.s, x, {"answered"}, h, L) => At(g.s, x, {"answered"}, h, L)
  BY <1>6 DEF Fine, At
<1>8. Stays(f.s, s, Backs)
  BY <1>2, <1>4, StaysMore
<1>9. Stays(g.s, s, Backs)
  BY <1>6, <1>8, StaysMore
<1>10. Answering(g, s, x, h, L)
  BY <1>3, <1>5, <1>7, <1>9 DEF Answering
<1> QED BY <1>0, <1>10

-----------------------------------------------------------------------------
(* The processes of the targets.                                           *)
Room(s, t) ==
  s.targ[t].type \in {"A", "B"} => s.targ[t].stalled = Null \/ s.targ[t].n_trans <= 1

LEMMA BacksKeep ==
  ASSUME NEW s, NEW r, Stays(r, s, Backs)
  PROVE  r.targ = s.targ /\ SameTypes(r, s) /\ \A x \in Trans : SameRoute(r.trans[x], s.trans[x])
BY StaysRoute DEF Stays, Backs, Core

LEMMA SendEndReqSound ==
  ASSUME NEW s, NEW p, NEW h, NEW L, Sound(s, p, h, L), NEW x \in Trans, NEW t \in Targets,
         s.trans[x].target = t, p[x] = "accepted", s.targ[t].type \in {"A", "B"},
         s.targ[t].n_trans <= 1
  PROVE  LET r == SendEndReq(s, t, x) IN Fine(r, h, L) /\ SameTypes(r, s)
<1> DEFINE c == CallFromTarget(s, t, x, "END_REQ").s
           r == [Post(c, t, x, "internal_ph") EXCEPT !.targ[t].n_trans = @ + 1]
<1>0. SendEndReq(s, t, x) = r
  BY DEF SendEndReq
<1>1. Sound(c, p, h, L) /\ Stays(c, s, Backs)
  BY TargetEndReq
<1> HIDE DEF c
<1>2. c.targ = s.targ /\ SameTypes(c, s) /\ c.trans[x].target = t
  BY <1>1, BacksKeep DEF SameRoute
<1>3. Sound(r, [p EXCEPT ![x] = "internal"], h, L) /\ SameTypes(r, c)
  BY <1>1, <1>2, EnterSound
<1> HIDE DEF r
<1>4. Fine(r, h, L)
  BY <1>3, Placed
<1>5. SameTypes(r, s)
  BY <1>2, <1>3 DEF SameTypes
<1> QED BY <1>0, <1>4, <1>5

LEMMA UnstallSound ==
  ASSUME NEW s, NEW p, NEW h, NEW L, Sound(s, p, h, L), NEW t \in Targets,
         s.targ[t].type \in {"A", "B"}, Room(s, t), <<"stalled", t>> \notin L
  PROVE  LET r == Unstall(s, t) IN Fine(r, h, L) /\ SameTypes(r, s) /\ Room(r, t)
<1> DEFINE y == s.targ[t].stalled
           m == SendEndReq(s, t, y)
           r == [m EXCEPT !.targ[t].stalled = Null]
           M == L \cup {<<"stalled", t>>}
<1>1. CASE y = Null
  <2>1. Unstall(s, t) = s
    BY <1>1 DEF Unstall
  <2> QED BY <2>1, Placed DEF SameTypes
<1>2. CASE y # Null
  <2>0. Unstall(s, t) = r
    BY <1>2 DEF Unstall
  <2>1. /\ y \in Trans /\ s.trans[y].target = t
        /\ Sound(s, [p EXCEPT ![y] = "accepted"], h, M)
    BY <1>2, TakeStalled
  <2>2. s.targ[t].n_trans <= 1
    BY <1>2 DEF Room
  <2>3. [p EXCEPT ![y] = "accepted"][y] = "accepted"
    BY <2>1, SoundParts
  <2> HIDE DEF y, M
  <2>4. Fine(m, h, M) /\ SameTypes(m, s)
    BY <2>1, <2>2, <2>3, SendEndReqSound
  <2> HIDE DEF m
  <2>5. PICK q \in [Trans -> Places] : Sound(m, q, h, M)
    BY <2>4 DEF Fine
  <2>6. /\ Sound(r, q, h, M \ {<<"stalled", t>>}) /\ SameTypes(r, m)
        /\ r.targ[t].stalled = Null
    BY <2>5, ClearStalled
  <2> HIDE DEF r
  <2>7. M \ {<<"stalled", t>>} = L
    BY DEF M
  <2>8. Fine(r, h, L)
    BY <2>6, <2>7, Placed
  <2>9. SameTypes(r, s) /\ Room(r, t)
    BY <2>4, <2>6 DEF SameTypes, Room
  <2> QED BY <2>0, <2>8, <2>9
<1> QED BY <1>1, <1>2

LEMMA SendResponseASound ==
  ASSUME NEW s, NEW p, NEW h, NEW L, Sound(s, p, h, L), NEW x \in Trans, NEW t \in Targets,
         s.trans[x].target = t, p[x] = "served", s.targ[t].type \in {"A", "B"},
         <<"stalled", t>> \notin L
  PROVE  LET r == SendResponseA(s, t, x)
         IN Fine(r, h, L) /\ SameTypes(r, s) /\ (Room(s, t) => Room(r, t))
<1> DEFINE a == [s EXCEPT !.targ[t].response_in_progress = TRUE]
           c == CallFromTarget(a, t, x, "BEGIN_RESP")
           e == Retire(c.s, t, x)
           u == Unstall(e, t)
<1>0. SendResponseA(s, t, x) = IF c.ret = "COMPLETED" THEN u ELSE c.s
  BY DEF SendResponseA
<1>1. /\ Sound(a, p, h, L) /\ Keeps(a, s, {"targ"}) /\ SameTypes(a, s)
      /\ a.targ[t].n_trans = s.targ[t].n_trans /\ a.targ[t].stalled = s.targ[t].stalled
  <2>1. Sound(a, p, h, L) /\ Keeps(a, s, {"targ"}) /\ SameTypes(a, s)
    BY RespondSound
  <2>2. a.targ[t].n_trans = s.targ[t].n_trans
    BY RespondSound
  <2>3. a.targ[t].stalled = s.targ[t].stalled
    BY RespondSound
  <2> QED BY <2>1, <2>2, <2>3
<1> HIDE DEF a
<1>2. Answering(c, a, x, h, L)
  BY <1>1, TargetBeginResp
<1> HIDE DEF c
<1>3. /\ c.s.targ = a.targ /\ SameTypes(c.s, a)
      /\ SameRoute(c.s.trans[x], a.trans[x])
  BY <1>2, BacksKeep DEF Answering
<1>4. SameTypes(c.s, s)
  BY <1>1, <1>3 DEF SameTypes
<1>5. CASE c.ret = "COMPLETED"
  <2>1. PICK q \in [Trans -> Places] : Sound(c.s, q, h, L) /\ q[x] \in {"answered"}
    BY <1>2, <1>5 DEF Answering, At
  <2>2. c.s.trans[x].target = t
    BY <1>1, <1>3 DEF SameRoute, Keeps, SameRoutes
  <2>3. c.s.targ[t].type \in {"A", "B"}
    BY <1>4 DEF SameTypes
  <2>4. Sound(e, [q EXCEPT ![x] = "none"], h, L) /\ SameTypes(e, c.s) /\ e.targ[t].n_trans <= 1
    BY <2>1, <2>2, <2>3, RetireSound
  <2> HIDE DEF e
  <2>5. Room(e, t) /\ e.targ[t].type \in {"A", "B"}
    BY <2>3, <2>4 DEF Room, SameTypes
  <2>6. Fine(u, h, L) /\ SameTypes(u, e) /\ Room(u, t)
    BY <2>4, <2>5, UnstallSound
  <2> HIDE DEF u
  <2>7. SameTypes(u, s)
    BY <1>4, <2>4, <2>6 DEF SameTypes
  <2> QED BY <1>0, <1>5, <2>6, <2>7
<1>6. CASE c.ret # "COMPLETED"
  <2>1. Fine(c.s, h, L)
    BY <1>2, <1>6 DEF Answering
  <2>2. Room(s, t) => Room(c.s, t)
    BY <1>1, <1>3 DEF Room, SameTypes
  <2> QED BY <1>0, <1>4, <1>6, <2>1, <2>2
<1> QED BY <1>5, <1>6

LEMMA SendResponseCSound ==
  ASSUME NEW s, NEW p, NEW h, NEW L, Sound(s, p, h, L), NEW x \in Trans, NEW t \in Targets,
         s.trans[x].target = t, p[x] = "served", s.targ[t].type \in {"C", "D"}
  PROVE  LET r == SendResponseC(s, t, x) IN Fine(r, h, L) /\ SameTypes(r, s)
<1> DEFINE a == [s EXCEPT !.targ[t].response_in_progress = TRUE]
           c == CallFromTarget(a, t, x, "BEGIN_RESP")
           e == Release(c.s, x)
           u == [e EXCEPT !.targ[t].response_in_progress = FALSE]
<1>0. SendResponseC(s, t, x) = IF c.ret = "COMPLETED" THEN u ELSE c.s
  BY DEF SendResponseC
<1>1. Sound(a, p, h, L) /\ Keeps(a, s, {"targ"}) /\ SameTypes(a, s)
  BY RespondSound
<1> HIDE DEF a
<1>2. Answering(c, a, x, h, L)
  BY <1>1, TargetBeginResp
<1> HIDE DEF c
<1>3. SameTypes(c.s, a) /\ SameRoute(c.s.trans[x], a.trans[x])
  BY <1>2, BacksKeep DEF Answering
<1>4. SameTypes(c.s, s)
  BY <1>1, <1>3 DEF SameTypes
<1>5. CASE c.ret = "COMPLETED"
  <2>1. PICK q \in [Trans -> Places] : Sound(c.s, q, h, L) /\ q[x] \in {"answered"}
    BY <1>2, <1>5 DEF Answering, At
  <2>2. c.s.trans[x].target = t
    BY <1>1, <1>3 DEF SameRoute, Keeps, SameRoutes
  <2>3. c.s.targ[t].type \in {"C", "D"}
    BY <1>4 DEF SameTypes
  <2>4. ~c.s.trans[x].dont_propagate_fw
    BY <2>1, <2>2, <2>3, NotDone DEF Routed, Places, InHand
  <2>5. Fine(e, h, L) /\ Stays(e, c.s, {"trans"})
    BY <2>1, <2>2, <2>3, <2>4, GiveBack
  <2> HIDE DEF e
  <2>6. PICK k \in [Trans -> Places] : Sound(e, k, h, L)
    BY <2>5 DEF Fine
  <2>7. Sound(u, k, h, L) /\ SameTypes(u, e)
    BY <2>6, RespondSound
  <2> HIDE DEF u
  <2>8. Fine(u, h, L)
    BY <2>7, Placed
  <2>9. SameTypes(u, s)
    BY <1>4, <2>5, <2>7 DEF SameTypes, Stays
  <2> QED BY <1>0, <1>5, <2>8, <2>9
<1>6. CASE c.ret # "COMPLETED"
  <2>1. Fine(c.s, h, L)
    BY <1>2, <1>6 DEF Answering
  <2> QED BY <1>0, <1>4, <1>6, <2>1
<1> QED BY <1>5, <1>6

LEMMA SendResponseSound ==
  ASSUME NEW s, NEW p, NEW h, NEW L, Sound(s, p, h, L), NEW x \in Trans, NEW t \in Targets,
         s.trans[x].target = t, p[x] = "served", s.targ[t].type \in {"A", "B", "C"},
         <<"stalled", t>> \notin L
  PROVE  LET r == SendResponse(s, t, x)
         IN Fine(r, h, L) /\ SameTypes(r, s) /\ (Room(s, t) => Room(r, t))
<1>1. CASE s.targ[t].type \in {"A", "B"}
  <2>1. SendResponse(s, t, x) = SendResponseA(s, t, x)
    BY <1>1 DEF SendResponse, SendResponseB
  <2> QED BY <1>1, <2>1, SendResponseASound
<1>2. CASE s.targ[t].type = "C"
  <2> DEFINE r == SendResponseC(s, t, x)
  <2>1. SendResponse(s, t, x) = r
    BY <1>2 DEF SendResponse
  <2>2. Fine(r, h, L) /\ SameTypes(r, s)
    BY <1>2, SendResponseCSound
  <2> HIDE DEF r
  <2>3. Room(r, t)
    BY <1>2, <2>2 DEF Room, SameTypes
  <2> QED BY <2>1, <2>2, <2>3
<1> QED BY <1>1, <1>2

LEMMA SendNextSound ==
  ASSUME NEW s, NEW p, NEW h, NEW L, Sound(s, p, h, L), NEW t \in Targets,
         s.targ[t].type \in {"A", "B", "C"}, <<"next", t>> \notin L, <<"stalled", t>> \notin L
  PROVE  LET r == SendNext(s, t)
         IN Fine(r, h, L) /\ SameTypes(r, s) /\ (Room(s, t) => Room(r, t))
<1> DEFINE y == s.targ[t].next
           m == SendResponse(s, t, y)
           r == [m EXCEPT !.targ[t].next = Null]
           M == L \cup {<<"next", t>>}
<1>1. CASE y = Null
  <2>1. SendNext(s, t) = s
    BY <1>1 DEF SendNext
  <2> QED BY <2>1, Placed DEF SameTypes
<1>2. CASE y # Null
  <2>0. SendNext(s, t) = r
    BY <1>2 DEF SendNext
  <2>1. /\ y \in Trans /\ s.trans[y].target = t
        /\ Sound(s, [p EXCEPT ![y] = "served"], h, M)
    BY <1>2, TakeNext
  <2>2. [p EXCEPT ![y] = "served"][y] = "served" /\ <<"stalled", t>> \notin M
    BY <2>1, SoundParts
  <2>3. M \ {<<"next", t>>} = L
    OBVIOUS
  <2> HIDE DEF y, M
  <2>4. Fine(m, h, M) /\ SameTypes(m, s) /\ (Room(s, t) => Room(m, t))
    BY <2>1, <2>2, SendResponseSound
  <2> HIDE DEF m
  <2>5. PICK q \in [Trans -> Places] : Sound(m, q, h, M)
    BY <2>4 DEF Fine
  <2>6. <<"send_rsp", t>> \notin m.runnable
    <3>1. m.targ[t].type # "D" /\ Awake(m)
      BY <2>4, <2>5, SoundParts DEF SameTypes
    <3> QED BY <3>1 DEF Awake
  <2>7. /\ Sound(r, q, h, M \ {<<"next", t>>}) /\ SameTypes(r, m)
        /\ r.targ[t].n_trans = m.targ[t].n_trans /\ r.targ[t].stalled = m.targ[t].stalled
    BY <2>5, <2>6, ClearNext
  <2> HIDE DEF r
  <2>8. Fine(r, h, L)
    BY <2>3, <2>7, Placed
  <2>9. SameTypes(r, s) /\ (Room(s, t) => Room(r, t))
    BY <2>4, <2>7 DEF SameTypes, Room
  <2> QED BY <2>0, <2>8, <2>9
<1> QED BY <1>1, <1>2

(* The callbacks, for an entry that has been taken.                        *)
LEMMA PeqBeginReqASound ==
  ASSUME NEW s, NEW p, Sound(s, p, Null, {}), NEW x \in Trans, NEW t \in Targets,
         s.trans[x].target = t, p[x] = "sent", s.targ[t].type \in {"A", "B"}
  PROVE  Fine(PeqBeginReqA(s, t, x), Null, {})
<1> DEFINE a == Acquire(s, x)
           w == [a EXCEPT !.targ[t].stalled = x]
           e == SendEndReq(a, t, x)
           k == [p EXCEPT ![x] = "accepted"]
<1>0. PeqBeginReqA(s, t, x) = IF s.targ[t].n_trans = 2 THEN w ELSE e
  BY DEF PeqBeginReqA
<1>1. /\ Sound(a, p, x, {}) /\ OnlyTrans(a, s, x) /\ SameRoutes(a, s)
  BY AcquireSound
<1>2. Sound(a, k, Null, {})
  BY TakeSound
<1>3. k[x] = "accepted"
  BY SoundParts
<1> HIDE DEF a, k
<1>4. a.targ = s.targ /\ a.trans[x].target = t
  BY <1>1 DEF OnlyTrans, Unchanged, Core, SameRoutes, SameRoute
<1>5. CASE s.targ[t].n_trans = 2
  <2>1. Sound(w, [p EXCEPT ![x] = "stalled"], Null, {})
    BY <1>1, <1>4, StallSound
  <2> HIDE DEF w
  <2> QED BY <1>0, <1>5, <2>1, Placed
<1>6. CASE s.targ[t].n_trans # 2
  <2>1. a.targ[t].n_trans <= 1
    BY <1>4, <1>6, TypeField
  <2>2. Fine(e, Null, {})
    BY <1>2, <1>3, <1>4, <2>1, SendEndReqSound
  <2> HIDE DEF e
  <2> QED BY <1>0, <1>6, <2>2
<1> QED BY <1>5, <1>6

LEMMA PeqBeginReqCSound ==
  ASSUME NEW s, NEW p, Sound(s, p, Null, {}), NEW x \in Trans, NEW t \in Targets,
         s.trans[x].target = t, p[x] = "sent", s.targ[t].type = "C"
  PROVE  Fine(PeqBeginReqC(s, t, x), Null, {})
<1> DEFINE a == Acquire(s, x)
           r == Post(a, t, x, "internal_ph")
           k == [p EXCEPT ![x] = "accepted"]
<1>0. PeqBeginReqC(s, t, x) = r
  BY DEF PeqBeginReqC
<1>1. OnlyTrans(a, s, x) /\ SameRoutes(a, s)
  BY AcquireSound
<1>2. Sound(a, k, Null, {})
  BY TakeSound
<1>3. k[x] = "accepted"
  BY SoundParts
<1> HIDE DEF a, k
<1>4. a.targ = s.targ /\ a.trans[x].target = t
  BY <1>1 DEF OnlyTrans, Unchanged, Core, SameRoutes, SameRoute
<1>5. MayPost(a, k, x, t, "internal_ph")
  BY <1>3, <1>4 DEF MayPost
<1>6. Sound(r, [k EXCEPT ![x] = PlaceOf["internal_ph"]], Null, {})
  BY <1>2, <1>4, <1>5, PostSound
<1> HIDE DEF r
<1> QED BY <1>0, <1>6, Placed

LEMMA PeqEndRespASound ==
  ASSUME NEW s, NEW p, Sound(s, p, Null, {}), NEW x \in Trans, NEW t \in Targets,
         s.trans[x].target = t, p[x] = "answered", s.targ[t].type \in {"A", "B"}
  PROVE  Fine(PeqEndRespA(s, t, x), Null, {})
<1> DEFINE what == "illegal END_RESP"
           c == Require(s, s.targ[t].response_in_progress, what)
           e == Retire(c, t, x)
           n == SendNext(e, t)
           u == Unstall(n, t)
<1>0. PeqEndRespA(s, t, x) = u
  BY DEF PeqEndRespA
<1> HIDE DEF what
<1>1. Sound(c, p, Null, {}) /\ Stays(c, s, {}) /\ c.targ = s.targ
  BY RequireSound
<1> HIDE DEF c
<1>2. c.trans[x].target = t
  BY <1>1, StaysRoute DEF SameRoute
<1>3. Sound(e, [p EXCEPT ![x] = "none"], Null, {}) /\ SameTypes(e, c) /\ e.targ[t].n_trans <= 1
  BY <1>1, <1>2, RetireSound
<1> HIDE DEF e
<1>4. Room(e, t) /\ e.targ[t].type \in {"A", "B"}
  BY <1>1, <1>3 DEF Room, SameTypes
<1>5. Fine(n, Null, {}) /\ SameTypes(n, e) /\ Room(n, t)
  <2>1. <<"next", t>> \notin {} /\ <<"stalled", t>> \notin {}
    OBVIOUS
  <2>2. PICK q : Sound(e, q, Null, {})
    BY <1>3
  <2> DEFINE M == {}
  <2> HIDE DEF M
  <2>3. Sound(e, q, Null, M) /\ <<"next", t>> \notin M /\ <<"stalled", t>> \notin M
    BY <2>1, <2>2 DEF M
  <2>4. Fine(n, Null, M) /\ SameTypes(n, e) /\ (Room(e, t) => Room(n, t))
    BY <1>4, <2>3, SendNextSound
  <2> QED BY <1>4, <2>4 DEF M
<1> HIDE DEF n
<1>6. PICK q \in [Trans -> Places] : Sound(n, q, Null, {})
  BY <1>5 DEF Fine
<1>7. n.targ[t].type \in {"A", "B"}
  BY <1>4, <1>5 DEF SameTypes
<1>8. Fine(u, Null, {})
  BY <1>5, <1>6, <1>7, UnstallSound
<1> QED BY <1>0, <1>8

LEMMA PeqEndRespCSound ==
  ASSUME NEW s, NEW p, Sound(s, p, Null, {}), NEW x \in Trans, NEW t \in Targets,
         s.trans[x].target = t, p[x] = "answered", s.targ[t].type = "C"
  PROVE  Fine(PeqEndRespC(s, t, x), Null, {})
<1> DEFINE what == "illegal END_RESP"
           c == Require(s, s.targ[t].response_in_progress, what)
           e == Release(c, x)
           d == [e EXCEPT !.targ[t].response_in_progress = FALSE]
           n == SendNext(d, t)
<1>0. PeqEndRespC(s, t, x) = n
  BY DEF PeqEndRespC
<1> HIDE DEF what
<1>1. Sound(c, p, Null, {}) /\ Stays(c, s, {}) /\ c.targ = s.targ
  BY RequireSound
<1> HIDE DEF c
<1>2. c.trans[x].target = t
  BY <1>1, StaysRoute DEF SameRoute
<1>3. ~c.trans[x].dont_propagate_fw
  BY <1>1, <1>2, NotDone DEF Routed, Places, InHand
<1>4. Fine(e, Null, {}) /\ Stays(e, c, {"trans"})
  BY <1>1, <1>2, <1>3, GiveBack
<1> HIDE DEF e
<1>5. PICK q \in [Trans -> Places] : Sound(e, q, Null, {})
  BY <1>4 DEF Fine
<1>6. Sound(d, q, Null, {}) /\ SameTypes(d, e)
  BY <1>5, RespondSound
<1> HIDE DEF d
<1>7. d.targ[t].type = "C"
  BY <1>1, <1>4, <1>6 DEF SameTypes, Stays
<1>8. Fine(n, Null, {})
  BY <1>6, <1>7, SendNextSound
<1> QED BY <1>0, <1>8

LEMMA PeqInternalSound ==
  ASSUME NEW s, NEW p, Sound(s, p, Null, {}), NEW x \in Trans, NEW t \in Targets,
         s.trans[x].target = t, p[x] = "served", s.targ[t].type \in {"A", "B", "C"}
  PROVE  Fine(PeqInternal(s, t, x), Null, {})
<1> DEFINE e == Execute(s, x)
           what == "two pending responses"
           b == s.targ[t].next = Null
           c == Require(e, b, what)
           n == [c EXCEPT !.targ[t].next = x]
           m == SendResponse(e, t, x)
<1>0. e.targ = s.targ /\ Sound(e, p, Null, {}) /\ e.trans[x].target = t
  <2>1. Sound(e, p, Null, {}) /\ OnlyTrans(e, s, x) /\ SameRoutes(e, s)
    BY AnswerSound DEF Execute
  <2> HIDE DEF e
  <2> QED BY <2>1 DEF OnlyTrans, Unchanged, Core, SameRoutes, SameRoute
<1>1. PeqInternal(s, t, x) = IF s.targ[t].response_in_progress THEN n ELSE m
  BY <1>0 DEF PeqInternal
<1> HIDE DEF e, what, b
<1>2. CASE s.targ[t].response_in_progress
  <2>1. Sound(c, p, Null, {}) /\ Stays(c, e, {})
    BY <1>0, RequireSound
  <2> HIDE DEF c
  <2>2. c.trans[x].target = t
    BY <1>0, <2>1, StaysRoute DEF SameRoute
  <2>3. Sound(n, [p EXCEPT ![x] = "next"], Null, {})
    BY <2>1, <2>2, SetNextSound
  <2> HIDE DEF n
  <2> QED BY <1>1, <1>2, <2>3, Placed
<1>3. CASE ~s.targ[t].response_in_progress
  <2>1. Fine(m, Null, {})
    BY <1>0, SendResponseSound
  <2> HIDE DEF m
  <2> QED BY <1>1, <1>3, <2>1
<1> QED BY <1>2, <1>3

-----------------------------------------------------------------------------
(* The steps.  The state a process sees is that of the kernel.             *)
LEMMA SelfSound ==
  ASSUME NEW p, Sound(State(Kernel), p, Null, {}), NEW self
  PROVE  Sound(State(self), p, Null, {})
<1> DEFINE k == State(Kernel)
           r == State(self)
<1>1. IsState(r)
  BY DEF State, IsState, Fields
<1>2. Unchanged(r, k, Core \ {"runnable"})
  BY DEF State, Unchanged, Core
<1>3. \A t \in Targets : <<"send_rsp", t>> \in r.runnable => <<"send_rsp", t>> \in k.runnable
  BY DEF State, Kernel
<1> HIDE DEF k, r
<1> QED BY <1>1, <1>2, <1>3, Notified DEF k, r

(* And the kernel that of the process, when it is done.                    *)
LEMMA BecomeSound ==
  ASSUME NEW s, Fine(s, Null, {}), Become(s)
  PROVE  ATInv'
<1>1. PICK p \in [Trans -> Places] : Sound(s, p, Null, {})
  BY DEF Fine
<1> DEFINE r == State(Kernel)'
<1>2. IsState(r)
  BY DEF State, IsState, Fields
<1>3. Unchanged(r, s, Core \ {"runnable"}) /\ r.runnable \subseteq s.runnable
  BY DEF State, Unchanged, Core, Become
<1> HIDE DEF r
<1>4. Sound(r, p, Null, {})
  BY <1>1, <1>2, <1>3, Notified
<1>5. Sound(State(Kernel), p, Null, {})'
  BY <1>4 DEF r
<1> QED BY <1>5 DEF ATInv

(* An entry that is taken is in its queue or overdue.                      *)
LEMMA EntryOf ==
  ASSUME NEW h, NEW e \in Entries(h), IsABag(peq), OverdueTyped(overdue)
  PROVE  /\ e.at = h
         /\ BagIn(e, overdue.entries) => e \in DOMAIN overdue.entries /\ h \in Inits
                                         /\ e.phase = "END_REQ"
         /\ ~BagIn(e, overdue.entries) => e \in DOMAIN peq /\ e \notin later.entries
BY DEF OverdueTyped, Entries, Due, BagIn, BagToSet, IsABag, (+)

LEMMA TakenPeq ==
  ASSUME NEW e, ~BagIn(e, overdue.entries)
  PROVE  Taken(e) = Without(State(<<"peq", e.at>>), e)
<1> DEFINE s == State(<<"peq", e.at>>)
<1>1. s.peq = peq /\ LateWith(s, e) = Overtaken(e)
  BY DEF State, LateWith, Overtaken
<1>2. Hurt(s, e) = {i \in InitsB : \E f \in Overtaken(e) : f.at = i}
  BY <1>1 DEF Hurt
<1> HIDE DEF s
<1> QED BY <1>1, <1>2 DEF Taken, TakenDue, Without, s

LEMMA TakenOverdue ==
  ASSUME NEW e, BagIn(e, overdue.entries)
  PROVE  Taken(e) = Late(State(<<"peq", e.at>>), e)
BY DEF Taken, TakenLate, Late

LEMMA TargetPeqStep ==
  ASSUME ATInv, NEW t \in Targets, TargetPeq(t)
  PROVE  ATInv'
<1>1. PICK e \in Entries(t) :
        Become(CASE targ[t].type = "A" -> PeqA(Taken(e), t, e.trans, e.phase)
                 [] targ[t].type = "B" -> PeqB(Taken(e), t, e.trans, e.phase)
                 [] targ[t].type = "C" -> PeqC(Taken(e), t, e.trans, e.phase))
  BY DEF TargetPeq
<1>2. PICK p \in [Trans -> Places] : Sound(State(Kernel), p, Null, {})
  BY DEF ATInv
<1> DEFINE s == State(<<"peq", t>>)
           r == Taken(e)
           x == e.trans
           q == [p EXCEPT ![x] = PlaceAfter[e.phase]]
<1>3. Sound(s, p, Null, {})
  BY <1>2, SelfSound
<1>4. e.at = t /\ e \in DOMAIN peq /\ s.peq = peq /\ s.targ = targ /\ r = Without(s, e)
  <2>1. t \notin Inits
    BY TLMAssumption
  <2>2. s.overdue = overdue /\ s.peq = peq /\ s.targ = targ
    BY DEF State
  <2> HIDE DEF s, r
  <2>3. Typed(s)
    BY <1>3, SoundParts
  <2>4. e.at = t /\ e \in DOMAIN peq /\ ~BagIn(e, overdue.entries)
    <3>1. IsABag(peq) /\ OverdueTyped(overdue)
      BY <2>2, <2>3 DEF Typed
    <3> QED BY <1>1, <2>1, <3>1, EntryOf
  <2> QED BY <2>2, <2>4, TakenPeq DEF r, s
<1> HIDE DEF s, r
<1>5. /\ e.phase \in {"BEGIN_REQ", "internal_ph", "END_RESP"} /\ e \in Entry
      /\ s.trans[x].target = t /\ s.targ[t].type \in {"A", "B", "C"}
  <2>1. Posted(s, p) /\ e \in Entry
    BY <1>3, <1>4, SoundParts DEF Typed
  <2>2. t \notin Inits
    BY TLMAssumption
  <2> QED BY <1>4, <2>1, <2>2 DEF Posted, Entry, Phases
<1>7. x \in Trans /\ Sound(r, q, Null, {}) /\ Keeps(r, s, {"peq", "overdue"}) /\ r.targ = s.targ
  BY <1>3, <1>4, <1>5, TakenSound
<1>8. q[x] = PlaceAfter[e.phase]
  BY <1>3, <1>7, SoundParts
<1>9. q[x] = CASE e.phase = "BEGIN_REQ" -> "sent" [] e.phase = "internal_ph" -> "served"
               [] e.phase = "END_RESP" -> "answered"
  BY <1>5, <1>8 DEF PlaceAfter, Phases
<1>10. r.trans[x].target = t
  BY <1>5, <1>7 DEF Keeps, SameRoutes, SameRoute
<1> HIDE DEF q, x
<1>11. CASE targ[t].type \in {"A", "B"}
  <2>1. Become(PeqA(r, t, x, e.phase))
    BY <1>1, <1>11 DEF PeqB, x, r
  <2>2. r.targ[t].type \in {"A", "B"}
    BY <1>4, <1>7, <1>11
  <2>3. Fine(PeqA(r, t, x, e.phase), Null, {})
    <3>1. CASE e.phase = "BEGIN_REQ"
      BY <1>7, <1>9, <1>10, <2>2, <3>1, PeqBeginReqASound DEF PeqA
    <3>2. CASE e.phase = "END_RESP"
      BY <1>7, <1>9, <1>10, <2>2, <3>2, PeqEndRespASound DEF PeqA
    <3>3. CASE e.phase = "internal_ph"
      BY <1>7, <1>9, <1>10, <2>2, <3>3, PeqInternalSound DEF PeqA
    <3> QED BY <1>5, <3>1, <3>2, <3>3
  <2> QED BY <2>1, <2>3, BecomeSound
<1>12. CASE targ[t].type = "C"
  <2>1. Become(PeqC(r, t, x, e.phase))
    BY <1>1, <1>12 DEF x, r
  <2>2. r.targ[t].type = "C"
    BY <1>4, <1>7, <1>12
  <2>3. Fine(PeqC(r, t, x, e.phase), Null, {})
    <3>1. CASE e.phase = "BEGIN_REQ"
      BY <1>7, <1>9, <1>10, <2>2, <3>1, PeqBeginReqCSound DEF PeqC
    <3>2. CASE e.phase = "END_RESP"
      BY <1>7, <1>9, <1>10, <2>2, <3>2, PeqEndRespCSound DEF PeqC
    <3>3. CASE e.phase = "internal_ph"
      BY <1>7, <1>9, <1>10, <2>2, <3>3, PeqInternalSound DEF PeqC
    <3> QED BY <1>5, <3>1, <3>2, <3>3
  <2> QED BY <2>1, <2>3, BecomeSound
<1> QED BY <1>4, <1>5, <1>11, <1>12

LEMMA SendRspStep ==
  ASSUME ATInv, NEW t \in Targets, SendRsp(t)
  PROVE  ATInv'
<1>1. PICK p \in [Trans -> Places] : Sound(State(Kernel), p, Null, {})
  BY DEF ATInv
<1> DEFINE s == State(<<"send_rsp", t>>)
           x == targ[t].next
           a == [s EXCEPT !.targ[t].next = Null]
           b == [a EXCEPT !.targ[t].response_in_progress = TRUE]
           q == [p EXCEPT ![x] = "served"]
           r == CallFromTarget(b, t, x, "BEGIN_RESP")
           e == Release(r.s, x)
           d == [e EXCEPT !.targ[t].response_in_progress = FALSE]
           f == IF r.ret = "COMPLETED" THEN d ELSE r.s
<1>2. Become(f)
  <2>1. [s EXCEPT !.targ[t].next = Null, !.targ[t].response_in_progress = TRUE] = b
    OBVIOUS
  <2> DEFINE c == CallFromTarget([s EXCEPT !.targ[t].next = Null,
                                           !.targ[t].response_in_progress = TRUE],
                                 t, x, "BEGIN_RESP")
             g == [Release(c.s, x) EXCEPT !.targ[t].response_in_progress = FALSE]
  <2>2. Become(IF c.ret = "COMPLETED" THEN g ELSE c.s)
    BY Zenon DEF SendRsp
  <2>3. c = r
    BY <2>1
  <2>4. g = d
    BY <2>3
  <2> HIDE DEF c, g, r, d
  <2> QED BY <2>2, <2>3, <2>4
<1>3. targ[t].type = "D" /\ x # Null
  BY SMTT(30), <1>1, SoundParts DEF SendRsp, Awake, State, Kernel
<1>4. Sound(s, p, Null, {})
  BY <1>1, SelfSound
<1>5. s.targ = targ /\ <<"send_rsp", t>> \notin s.runnable
  BY DEF State
<1> HIDE DEF s
<1>6. x \in Trans /\ s.trans[x].target = t /\ Sound(s, q, Null, {<<"next", t>>})
  <2>1. s.targ[t].next = x
    BY <1>5
  <2>2. {} \cup {<<"next", t>>} = {<<"next", t>>}
    OBVIOUS
  <2> DEFINE y == s.targ[t].next
             k == [p EXCEPT ![y] = "served"]
  <2>3. y \in Trans /\ s.trans[y].target = t /\ Sound(s, k, Null, {} \cup {<<"next", t>>})
    BY <1>3, <1>4, <2>1, TakeNext
  <2>4. y = x /\ k = q
    BY <2>1
  <2> HIDE DEF x, q, y, k
  <2> QED BY <2>2, <2>3, <2>4
<1>7. q[x] = "served"
  BY <1>4, <1>6, SoundParts
<1> HIDE DEF q, x
<1>8. Sound(a, q, Null, {}) /\ Keeps(a, s, {"targ"}) /\ SameTypes(a, s)
  <2>1. {<<"next", t>>} \ {<<"next", t>>} = {}
    OBVIOUS
  <2> QED BY <1>5, <1>6, <2>1, ClearNext
<1> HIDE DEF a
<1>9. Sound(b, q, Null, {}) /\ Keeps(b, a, {"targ"}) /\ SameTypes(b, a)
  BY <1>8, RespondSound
<1> HIDE DEF b
<1>10. b.trans[x].target = t /\ b.targ[t].type = "D"
  BY <1>3, <1>5, <1>6, <1>8, <1>9 DEF Keeps, SameRoutes, SameRoute, SameTypes
<1>11. Answering(r, b, x, Null, {})
  BY <1>6, <1>7, <1>9, TargetBeginResp
<1> HIDE DEF r
<1>12. Fine(f, Null, {})
  <2>1. CASE r.ret = "COMPLETED"
    <3>1. PICK k \in [Trans -> Places] : Sound(r.s, k, Null, {}) /\ k[x] \in {"answered"}
      BY <1>11, <2>1 DEF Answering, At
    <3>2. r.s.targ[t].type = "D" /\ r.s.trans[x].target = t
      BY <1>6, <1>10, <1>11, BacksKeep DEF Answering, SameRoute
    <3>3. ~r.s.trans[x].dont_propagate_fw
      BY <1>6, <3>1, <3>2, NotDone DEF Routed, Places, InHand
    <3>4. Fine(e, Null, {})
      BY <1>6, <3>1, <3>2, <3>3, GiveBack
    <3> HIDE DEF e
    <3>5. PICK g \in [Trans -> Places] : Sound(e, g, Null, {})
      BY <3>4 DEF Fine
    <3>6. Sound(d, g, Null, {})
      BY <3>5, RespondSound
    <3> HIDE DEF d
    <3> QED BY <2>1, <3>6, Placed
  <2>2. CASE r.ret # "COMPLETED"
    BY <1>11, <2>2 DEF Answering
  <2> QED BY <2>1, <2>2
<1> HIDE DEF f
<1> QED BY <1>2, <1>12, BecomeSound

-----------------------------------------------------------------------------
(* The processes of the interconnect.                                      *)
LEMMA ReleaseFine ==
  ASSUME NEW s, NEW x \in Trans, NEW L, Fine(s, x, L)
  PROVE  Fine(Release(s, x), Null, L)
BY ReleaseHeld DEF Fine

LEMMA SendBwEndReq ==
  ASSUME NEW s, NEW p, NEW h, NEW L, Sound(s, p, h, L), NEW x \in Trans, p[x] = "internal"
  PROVE  Fine(SendBw(s, x, "END_REQ"), h, L)
<1> DEFINE i == s.trans[x].init
           r == CallInitiator(s, i, x, "END_REQ")
<1>1. i \in Inits
  BY TransField
<1>2. r.ret = "ACCEPTED" => SendBw(s, x, "END_REQ") = r.s
  BY DEF SendBw
<1> HIDE DEF i
<1>3. IsResult(r) /\ r.ret = "ACCEPTED" /\ Sound(r.s, p, h, L)
  BY <1>1, CallEndReq
<1> HIDE DEF r
<1> QED BY <1>2, <1>3, Placed

LEMMA SendBwBeginResp ==
  ASSUME NEW s, NEW p, NEW h, NEW L, Sound(s, p, h, L), NEW x \in Trans, p[x] = "served"
  PROVE  Fine(SendBw(s, x, "BEGIN_RESP"), h, L)
<1> DEFINE i == s.trans[x].init
           t == s.trans[x].target
           r == CallInitiator(s, i, x, "BEGIN_RESP")
           what == "no response to end"
           b == r.s.rsp[i] # Null
           c == Require(r.s, b, what)
           e == Notify(c, <<"end_rsp", i>>)
           f == CallTarget(e, t, x, "END_RESP")
           bad == "END_RESP answered by UPDATED"
           ok == f.ret # "UPDATED"
           g == Require(f.s, ok, bad)
<1>0. SendBw(s, x, "BEGIN_RESP") =
        IF r.ret = "ACCEPTED" THEN r.s ELSE IF s.trans[x].dont_propagate_fw THEN e ELSE g
  BY DEF SendBw
<1>1. i \in Inits /\ t \in Targets
  BY TransField
<1>2. s.trans[x].init = i /\ s.trans[x].target = t
  OBVIOUS
<1> HIDE DEF i, t, what, bad, b, ok
<1>3. Delivered(r, s, x, h, L)
  BY <1>1, <1>2, CallBeginResp
<1> HIDE DEF r
<1>4. CASE r.ret = "ACCEPTED"
  BY <1>0, <1>3, <1>4 DEF Delivered
<1>5. CASE r.ret # "ACCEPTED"
  <2>1. PICK q \in [Trans -> Places] : Sound(r.s, q, h, L) /\ q[x] \in {"answered"}
    BY <1>3, <1>5 DEF Delivered, At
  <2>2. Sound(c, q, h, L) /\ Stays(c, r.s, {})
    BY <2>1, RequireSound
  <2> HIDE DEF c
  <2>3. Sound(e, q, h, L) /\ e.trans = c.trans
    BY <2>2, NotifyStays
  <2> HIDE DEF e
  <2>4. SameRoute(e.trans[x], s.trans[x])
    <3>1. SameRoute(r.s.trans[x], s.trans[x])
      BY <1>3, StaysRoute DEF Delivered
    <3>2. SameRoute(e.trans[x], r.s.trans[x])
      BY <2>2, <2>3, StaysRoute
    <3> QED BY <3>1, <3>2 DEF SameRoute
  <2>5. CASE s.trans[x].dont_propagate_fw
    BY <1>0, <1>5, <2>3, <2>5, Placed
  <2>6. CASE ~s.trans[x].dont_propagate_fw
    <3>1. e.trans[x].target = t /\ ~e.trans[x].dont_propagate_fw
      BY <1>2, <2>4, <2>6 DEF SameRoute
    <3>2. Ended(f, e, h, L)
      BY <1>1, <2>1, <2>3, <3>1, CallEnd
    <3> HIDE DEF f
    <3>3. PICK k \in [Trans -> Places] : Sound(f.s, k, h, L)
      BY <3>2 DEF Ended, Fine
    <3>4. Sound(g, k, h, L)
      BY <3>3, RequireSound
    <3> HIDE DEF g
    <3> QED BY <1>0, <1>5, <2>6, <3>4, Placed
  <2> QED BY <2>5, <2>6
<1> QED BY <1>4, <1>5

(* The response of a request that waited goes to the initiator, or waits   *)
(* again.                                                                  *)
LEMMA AnswerOrQueue ==
  ASSUME NEW d, NEW p, NEW x \in Trans, Sound(d, p, x, {}), p[x] = "served", NEW i \in Inits,
         d.trans[x].init = i
  PROVE  /\ d.rsp[i] # Null => Fine(QueueRsp(d, i, x), Null, {})
         /\ Fine(Release(SendBw([d EXCEPT !.rsp[i] = x], x, "BEGIN_RESP"), x), Null, {})
<1> DEFINE u == QueueRsp(d, i, x)
           a == [d EXCEPT !.rsp[i] = x]
           b == SendBw(a, x, "BEGIN_RESP")
<1>1. d.rsp[i] # Null => Fine(u, Null, {})
  <2>1. HAVE d.rsp[i] # Null
  <2>2. Sound(u, [p EXCEPT ![x] = "rsp_queue"], x, {})
    BY <2>1, QueueRspSound
  <2> HIDE DEF u
  <2>3. Sound(u, [p EXCEPT ![x] = "rsp_queue"], Null, {})
    BY <2>2, DropHeld
  <2> QED BY <2>3, Placed
<1>2. Sound(a, p, x, {})
  <2>1. x \in Pointer /\ x # Null
    BY TLMAssumption DEF Null, Pointer
  <2> QED BY <2>1, SetRsp
<1> HIDE DEF a
<1>3. Fine(b, x, {})
  BY <1>2, SendBwBeginResp
<1> HIDE DEF b
<1>4. Fine(Release(b, x), Null, {})
  BY <1>3, ReleaseFine
<1> QED BY <1>1, <1>4 DEF a, b

LEMMA ServeReqSound ==
  ASSUME NEW s, NEW p, Sound(s, p, Null, {}), NEW t \in Targets, s.req_queue[t] # << >>
  PROVE  Fine(ServeReq(s, t), Null, {})
<1> DEFINE x == Head(s.req_queue[t])
           i == s.trans[x].init
           ok == s.trans[x].target = t
           what == "wrong target"
           c == Require(s, ok, what)
           a == [c EXCEPT !.req_queue[t] = Tail(@)]
           b == [a EXCEPT !.req[t] = x]
           r == CallTarget(b, t, x, "BEGIN_REQ")
           e == Notify(r.s, <<"end_req", t>>)
           done == r.ret = "COMPLETED"
           d == [e EXCEPT !.trans[x].dont_propagate_fw = done]
           responds == r.ret = "COMPLETED" \/ (r.ret = "UPDATED" /\ r.phase = "BEGIN_RESP")
           w == Release(SendBw([d EXCEPT !.rsp[i] = x], x, "BEGIN_RESP"), x)
           z == Release(SendBw(d, x, r.phase), x)
<1>0. ServeReq(s, t) =
        CASE r.ret = "ACCEPTED" -> Release(r.s, x)
          [] responds /\ r.s.rsp[i] # Null -> QueueRsp(d, i, x)
          [] responds /\ r.s.rsp[i] = Null -> w
          [] OTHER -> z
  <2>1. [c EXCEPT !.req_queue[t] = Tail(@), !.req[t] = x] = b
    OBVIOUS
  <2> QED BY <2>1 DEF ServeReq
<1> HIDE DEF ok, what
<1>1. Sound(c, p, Null, {}) /\ Stays(c, s, {}) /\ c.req_queue = s.req_queue
  BY RequireSound, StaysRoute DEF Core
<1> HIDE DEF c
<1>2. /\ x \in Trans /\ c.trans[x].target = t /\ Sound(a, [p EXCEPT ![x] = "sent"], x, {})
      /\ Keeps(a, c, {"req_queue"})
  <2> DEFINE y == Head(c.req_queue[t])
             g == [c EXCEPT !.req_queue[t] = Tail(@)]
             q == [p EXCEPT ![y] = "sent"]
  <2>1. y = x
    BY <1>1
  <2>2. y \in Trans /\ c.trans[y].target = t /\ Sound(g, q, y, {}) /\ Keeps(g, c, {"req_queue"})
    BY <1>1, TailReqSound
  <2>3. q = [p EXCEPT ![x] = "sent"]
    BY <2>1
  <2> HIDE DEF x, y, q
  <2> QED BY <2>1, <2>2, <2>3
<1>3. i \in Inits
  BY <1>2, TransField
<1>4. s.trans[x].init = i
  OBVIOUS
<1> DEFINE k == [p EXCEPT ![x] = "sent"]
<1>5. k[x] = "sent"
  BY <1>1, <1>2, SoundParts
<1> HIDE DEF x, i, k
<1>6. Sound(a, k, x, {})
  BY <1>2 DEF k
<1> HIDE DEF a
<1>7. Sound(b, k, x, {}) /\ Keeps(b, a, {"req"})
  <2>1. x \in Pointer /\ x # Null
    BY <1>2, TLMAssumption DEF Null, Pointer
  <2> QED BY <1>6, <2>1, SetReq
<1> HIDE DEF b
<1>8. b.trans[x].target = t /\ b.trans[x].init = i
  BY <1>1, <1>2, <1>4, <1>7, StaysRoute DEF Keeps, SameRoutes, SameRoute
<1>9. Outcome(r, b, x, x, {})
  BY <1>2, <1>5, <1>7, <1>8, CallBegin
<1> HIDE DEF r
<1>10. SameRoute(r.s.trans[x], b.trans[x]) /\ r.s.targ[t].type = b.targ[t].type
  BY <1>2, <1>9, StaysRoute DEF Outcome
<1>11. r.s.trans[x].init = i /\ r.s.trans[x].target = t
  BY <1>8, <1>10 DEF SameRoute
<1>12. CASE r.ret = "ACCEPTED"
  <2>1. Fine(r.s, x, {})
    BY <1>9, <1>12 DEF Outcome
  <2> QED BY <1>0, <1>2, <1>12, <2>1, ReleaseFine
<1>13. CASE r.ret # "ACCEPTED"
  <2>1. PICK q \in [Trans -> Places] :
          /\ Sound(r.s, q, x, {})
          /\ \/ r.ret = "UPDATED" /\ r.phase = "END_REQ" /\ q[x] = "internal"
                /\ r.s.targ[t].type # "E"
             \/ r.ret = "UPDATED" /\ r.phase = "BEGIN_RESP" /\ q[x] = "served"
                /\ r.s.targ[t].type # "E"
             \/ r.ret = "COMPLETED" /\ q[x] = "sent" /\ r.s.targ[t].type = "E"
    BY <1>8, <1>9, <1>10, <1>13 DEF Outcome, At
  <2>2. Sound(e, q, x, {}) /\ e.trans = r.s.trans /\ e.targ = r.s.targ /\ e.rsp = r.s.rsp
    <3>1. Sound(e, q, x, {}) /\ e.trans = r.s.trans /\ e.targ = r.s.targ
          /\ Stays(e, r.s, {"runnable"})
      BY <2>1, NotifyStays
    <3> HIDE DEF e
    <3> QED BY <3>1, StaysRoute DEF Core
  <2> HIDE DEF e
  <2>3. d.rsp = r.s.rsp /\ d.trans[x].init = i /\ done \in BOOLEAN
        /\ \E m \in [Trans -> Places] :
             /\ Sound(d, m, x, {})
             /\ m[x] = IF r.phase = "END_REQ" /\ ~done THEN "internal" ELSE "served"
    <3>1. CASE r.ret = "COMPLETED"
      <4> DEFINE m == [q EXCEPT ![x] = "served"]
                 y == [e EXCEPT !.trans[x].dont_propagate_fw = TRUE]
      <4>1. done /\ d = y
        BY <3>1
      <4>2. m[x] = "served" /\ m \in [Trans -> Places]
        BY <1>2, <2>1 DEF Places, InHand
      <4>5. q[x] = "sent" /\ e.targ[e.trans[x].target].type = "E"
        BY <1>11, <2>1, <2>2, <3>1
      <4>3. /\ Sound(y, m, x, {}) /\ Unchanged(y, e, Core \ {"trans"})
            /\ y.trans[x].init = e.trans[x].init
        <5>1. Sound(y, m, x, {}) /\ Unchanged(y, e, Core \ {"trans"})
          BY <1>2, <2>2, <4>5, MarkSound
        <5>2. y.trans[x].init = e.trans[x].init
          BY <1>2, <2>2, <4>5, MarkSound
        <5> QED BY <5>1, <5>2
      <4> HIDE DEF m, y
      <4>4. y.rsp = r.s.rsp
        BY <2>2, <4>3 DEF Unchanged, Core
      <4> HIDE DEF d, done
      <4> QED BY <1>11, <2>2, <4>1, <4>2, <4>3, <4>4
    <3>2. CASE r.ret = "UPDATED"
      <4> DEFINE y == [e EXCEPT !.trans[x].dont_propagate_fw = FALSE]
      <4>1. ~done /\ d = y
        BY <3>2
      <4>2. ~e.trans[x].dont_propagate_fw
        BY <1>2, <1>11, <2>1, <2>2, <3>2, NotDone DEF Routed, Places, InHand
      <4>3. Sound(y, q, x, {}) /\ Unchanged(y, e, Core)
        BY <1>2, <2>2, <4>2, NoMarkSound
      <4> HIDE DEF y
      <4>4. y.rsp = r.s.rsp /\ y.trans = e.trans
        BY <2>2, <4>3 DEF Unchanged, Core
      <4>7. done \in BOOLEAN
        OBVIOUS
      <4> HIDE DEF d, done
      <4>5. q[x] = IF r.phase = "END_REQ" /\ ~done THEN "internal" ELSE "served"
        BY <2>1, <3>2, <4>1
      <4>6. d.rsp = r.s.rsp /\ d.trans[x].init = i /\ done \in BOOLEAN /\ Sound(d, q, x, {})
        BY <1>11, <2>2, <4>1, <4>3, <4>4, <4>7
      <4> QED BY <4>5, <4>6
    <3> QED BY <2>1, <3>1, <3>2
  <2> HIDE DEF d
  <2>4. PICK m \in [Trans -> Places] :
          /\ Sound(d, m, x, {})
          /\ m[x] = IF r.phase = "END_REQ" /\ ~done THEN "internal" ELSE "served"
    BY <2>3
  <2>5. CASE responds
    <3>1. m[x] = "served"
      BY <2>4, <2>5
    <3>2. /\ d.rsp[i] # Null => Fine(QueueRsp(d, i, x), Null, {})
          /\ Fine(w, Null, {})
      BY <1>2, <1>3, <2>3, <2>4, <3>1, AnswerOrQueue
    <3> HIDE DEF w
    <3> QED BY <1>0, <1>13, <2>3, <2>5, <3>2
  <2>6. CASE ~responds
    <3>1. r.phase = "END_REQ" /\ m[x] = "internal"
      BY <2>1, <2>4, <2>6
    <3>2. ServeReq(s, t) = z
      BY <1>0, <1>13, <2>6
    <3>3. Fine(SendBw(d, x, "END_REQ"), x, {})
      BY <1>2, <2>4, <3>1, SendBwEndReq
    <3>4. Fine(Release(SendBw(d, x, "END_REQ"), x), Null, {})
      BY <1>2, <3>3, ReleaseFine
    <3> QED BY <3>1, <3>2, <3>4
  <2> QED BY <2>5, <2>6
<1> QED BY <1>12, <1>13

LEMMA EndReqStep ==
  ASSUME ATInv, NEW t \in Targets, EndReq(t)
  PROVE  ATInv'
<1>1. PICK p \in [Trans -> Places] : Sound(State(Kernel), p, Null, {})
  BY DEF ATInv
<1> DEFINE s == State(<<"end_req", t>>)
           b == s.req[t] # Null
           what == "no request ended"
           c == Require(s, b, what)
           n == [c EXCEPT !.req[t] = Null]
           m == ServeReq(c, t)
           f == IF s.req_queue[t] = << >> THEN n ELSE m
<1>2. Become(f)
  <2>1. EndReqProcess(s, t) = f
    BY Zenon DEF EndReqProcess
  <2>2. Become(EndReqProcess(s, t))
    BY DEF EndReq
  <2> HIDE DEF f
  <2> QED BY <2>1, <2>2
<1>3. Sound(s, p, Null, {})
  BY <1>1, SelfSound
<1> HIDE DEF s, b, what
<1>4. Sound(c, p, Null, {}) /\ c.req_queue = s.req_queue
  BY <1>3, RequireSound, StaysRoute DEF Core
<1> HIDE DEF c
<1>5. CASE s.req_queue[t] = << >>
  <2>1. Null \in Pointer
    BY DEF Pointer
  <2>2. Sound(n, p, Null, {})
    BY <1>4, <1>5, <2>1, SetReq
  <2> HIDE DEF n
  <2> QED BY <1>2, <1>5, <2>2, Placed, BecomeSound
<1>6. CASE s.req_queue[t] # << >>
  <2>1. Fine(m, Null, {})
    BY <1>4, <1>6, ServeReqSound
  <2> HIDE DEF m
  <2> QED BY <1>2, <1>6, <2>1, BecomeSound
<1> QED BY <1>5, <1>6

LEMMA ServeRspSound ==
  ASSUME NEW s, NEW p, Sound(s, p, Null, {}), NEW i \in Inits, s.rsp_queue[i] # << >>
  PROVE  Fine(ServeRsp(s, i), Null, {})
<1> DEFINE x == Head(s.rsp_queue[i])
           a == [s EXCEPT !.rsp_queue[i] = Tail(@)]
           e == [a EXCEPT !.rsp[i] = x]
           b == SendBw(e, x, "BEGIN_RESP")
           k == [p EXCEPT ![x] = "served"]
<1>0. ServeRsp(s, i) = Release(b, x)
  <2>1. [s EXCEPT !.rsp_queue[i] = Tail(@), !.rsp[i] = x] = e
    OBVIOUS
  <2> QED BY <2>1 DEF ServeRsp
<1>1. x \in Trans /\ Sound(a, k, x, {})
  BY TailRspSound
<1>2. k[x] = "served"
  BY <1>1, SoundParts
<1> HIDE DEF x, a, k
<1>3. Sound(e, k, x, {})
  <2>1. x \in Pointer /\ x # Null
    BY <1>1, TLMAssumption DEF Null, Pointer
  <2> QED BY <1>1, <2>1, SetRsp
<1> HIDE DEF e
<1>4. Fine(b, x, {})
  BY <1>1, <1>2, <1>3, SendBwBeginResp
<1> HIDE DEF b
<1> QED BY <1>0, <1>1, <1>4, ReleaseFine

LEMMA EndRspStep ==
  ASSUME ATInv, NEW i \in Inits, EndRsp(i)
  PROVE  ATInv'
<1>1. PICK p \in [Trans -> Places] : Sound(State(Kernel), p, Null, {})
  BY DEF ATInv
<1> DEFINE s == State(<<"end_rsp", i>>)
           b == s.rsp[i] # Null
           what == "no response ended"
           c == Require(s, b, what)
           n == [c EXCEPT !.rsp[i] = Null]
           m == ServeRsp(c, i)
           f == IF s.rsp_queue[i] = << >> THEN n ELSE m
<1>2. Become(f)
  <2>1. EndRspProcess(s, i) = f
    BY Zenon DEF EndRspProcess
  <2>2. Become(EndRspProcess(s, i))
    BY DEF EndRsp
  <2> HIDE DEF f
  <2> QED BY <2>1, <2>2
<1>3. Sound(s, p, Null, {})
  BY <1>1, SelfSound
<1> HIDE DEF s, b, what
<1>4. Sound(c, p, Null, {}) /\ c.rsp_queue = s.rsp_queue
  BY <1>3, RequireSound, StaysRoute DEF Core
<1> HIDE DEF c
<1>5. CASE s.rsp_queue[i] = << >>
  <2>1. Null \in Pointer
    BY DEF Pointer
  <2>2. Sound(n, p, Null, {})
    BY <1>4, <1>5, <2>1, SetRsp
  <2> HIDE DEF n
  <2> QED BY <1>2, <1>5, <2>2, Placed, BecomeSound
<1>6. CASE s.rsp_queue[i] # << >>
  <2>1. Fine(m, Null, {})
    BY <1>4, <1>6, ServeRspSound
  <2> HIDE DEF m
  <2> QED BY <1>2, <1>6, <2>1, BecomeSound
<1> QED BY <1>5, <1>6

-----------------------------------------------------------------------------
(* The initiators.                                                         *)
LEMMA ForgetRequest ==
  ASSUME NEW s, NEW p, NEW h, NEW L, Sound(s, p, h, L), NEW i \in Inits
  PROVE  LET r == [s EXCEPT !.init[i].req = Null]
         IN /\ Sound(r, p, h, L) /\ Keeps(r, s, {"init"}) /\ r.init[i].req = Null
            /\ \A j \in Inits : j # i => r.init[j] = s.init[j]
<1> DEFINE a == [s EXCEPT !.init[i].req = Null]
<1>1. IsState(s) /\ s.init \in [Inits -> InitT] /\ s.init[i] \in InitT
  BY SoundParts DEF Typed
<1>2. Reinits(a, s, i, [s.init[i] EXCEPT !.req = Null])
  BY <1>1, SetField DEF Pointer
<1> HIDE DEF a
<1>3. a.init[i] = [s.init[i] EXCEPT !.req = Null] /\ Reinits(a, s, i, a.init[i])
  BY <1>2 DEF Reinits
<1>4. /\ a.init[i].req = Null /\ a.init[i].pc = s.init[i].pc /\ a.init[i].cur = s.init[i].cur
      /\ a.init[i].left = s.init[i].left
  BY <1>1, <1>3 DEF InitT
<1>5. \A j \in Inits : j # i => a.init[j] = s.init[j]
  BY <1>3 DEF Reinits
<1>6. a.trans = s.trans /\ Keeps(a, s, {"init"})
  BY <1>3, ReinitKept
<1>7. Initiating(a, p)
  <2>1. Initiating(s, p)
    BY SoundParts
  <2>2. \A j \in Inits : /\ a.init[j].cur = s.init[j].cur /\ a.init[j].left = s.init[j].left
                         /\ a.init[j].req \in {Null, s.init[j].req}
                         /\ a.init[j].pc = s.init[j].pc
    BY <1>4, <1>5
  <2> QED BY <1>6, <2>1, <2>2 DEF Initiating
<1>8. Sound(a, p, h, L)
  BY <1>3, <1>7, InitiatorKept, SoundParts DEF Sound
<1> QED BY <1>4, <1>5, <1>6, <1>8 DEF a

(* What the interconnect answers to a request of initiator i.              *)
Begun(r, s, i, x, h, L) ==
  /\ IsResult(r) /\ r.s.init = s.init
  /\ \/ r.ret = "ACCEPTED" /\ Fine(r.s, h, L)
     \/ r.ret = "UPDATED" /\ r.phase = "END_REQ" /\ At(r.s, x, {"internal"}, h, L)
     \/ r.ret = "UPDATED" /\ r.phase = "BEGIN_RESP" /\ At(r.s, x, {"served"}, h, L)
        /\ r.s.trans[x].init = i
     \/ r.ret = "COMPLETED" /\ At(r.s, x, {"served"}, h, L)

LEMMA QueueAfter ==
  ASSUME NEW s, NEW p, NEW h, NEW L, Sound(s, p, h, L), NEW x \in Trans, NEW i \in Inits,
         s.trans[x].init = i, p[x] = "served", s.rsp[i] # Null
  PROVE  /\ Fine(QueueRsp(s, i, x), h, L) /\ IsState(QueueRsp(s, i, x))
         /\ QueueRsp(s, i, x).init = s.init
<1> DEFINE u == QueueRsp(s, i, x)
<1>1. Sound(u, [p EXCEPT ![x] = "rsp_queue"], h, L) /\ Keeps(u, s, {"trans", "rsp_queue"})
  BY QueueRspSound
<1> HIDE DEF u
<1>2. Fine(u, h, L) /\ IsState(u) /\ u.init = s.init
  BY <1>1, Placed, SoundParts DEF Keeps, Unchanged, Core
<1> QED BY <1>2 DEF u

Advanced(r, q, x) ==
  \/ r.phase = "END_REQ" /\ q[x] = "internal"
  \/ r.phase = "BEGIN_RESP" /\ q[x] = "served"

LEMMA AfterUpdated ==
  ASSUME NEW r, NEW q, NEW h, NEW L, IsResult(r), Sound(r.s, q, h, L), NEW x \in Trans,
         NEW i \in Inits, NEW t \in Targets, r.s.trans[x].init = i, r.ret = "UPDATED",
         Advanced(r, q, x)
  PROVE  Begun(AfterTarget(r, i, t, x, TRUE), r.s, i, x, h, L)
<1> DEFINE e == Ending(r.s, t)
           u == QueueRsp(e, i, x)
           w == [e EXCEPT !.rsp[i] = x]
           a == AfterTarget(r, i, t, x, TRUE)
<1>a. r.phase = "END_REQ" => a = Updated(e, "END_REQ")
  BY DEF AfterTarget, Ending
<1>b. r.phase = "BEGIN_RESP" =>
        a = IF r.s.rsp[i] # Null THEN Accepted(u, "BEGIN_RESP") ELSE Updated(w, "BEGIN_RESP")
  BY DEF AfterTarget, Ending
<1> HIDE DEF a
<1>0. Begun(a, r.s, i, x, h, L) => Begun(AfterTarget(r, i, t, x, TRUE), r.s, i, x, h, L)
  BY DEF a
<1>1. Sound(e, q, h, L) /\ Stays(e, r.s, {"runnable"})
  BY EndReqNoticed
<1> HIDE DEF e
<1>2. e.init = r.s.init /\ e.rsp = r.s.rsp /\ e.trans[x].init = i
  BY <1>1, StaysRoute DEF Core, SameRoute
<1>3. CASE r.phase = "END_REQ"
  <2>1. At(e, x, {"internal"}, h, L) /\ IsState(e)
    BY <1>1, <1>3, Placed, SoundParts DEF Advanced
  <2>2. Begun(Updated(e, "END_REQ"), r.s, i, x, h, L)
    BY <1>2, <2>1 DEF Begun, Updated, Result, IsResult
  <2> QED BY <1>a, <1>0, <1>3, <2>2
<1>4. CASE r.phase = "BEGIN_RESP"
  <2>0. q[x] = "served"
    BY <1>4 DEF Advanced
  <2>1. CASE r.s.rsp[i] # Null
    <3>1. Fine(u, h, L) /\ IsState(u) /\ u.init = r.s.init
      BY <1>1, <1>2, <2>0, <2>1, QueueAfter
    <3> HIDE DEF u
    <3>2. Begun(Accepted(u, "BEGIN_RESP"), r.s, i, x, h, L)
      BY <3>1 DEF Begun, Accepted, Result, IsResult
    <3> QED BY <1>b, <1>0, <1>4, <2>1, <3>2
  <2>2. CASE r.s.rsp[i] = Null
    <3>1. x \in Pointer /\ x # Null
      BY TLMAssumption DEF Null, Pointer
    <3>2. Sound(w, q, h, L) /\ Keeps(w, e, {"rsp"})
      BY <1>1, <3>1, SetRsp
    <3> HIDE DEF w
    <3>3. At(w, x, {"served"}, h, L) /\ IsState(w)
      BY <2>0, <3>2, Placed, SoundParts
    <3>4. w.init = r.s.init /\ w.trans[x].init = i
      BY <1>2, <3>2 DEF Keeps, Unchanged, Core, SameRoutes, SameRoute
    <3>5. Begun(Updated(w, "BEGIN_RESP"), r.s, i, x, h, L)
      BY <3>3, <3>4 DEF Begun, Updated, Result, IsResult
    <3> QED BY <1>b, <1>0, <1>4, <2>2, <3>5
  <2> QED BY <2>1, <2>2
<1> QED BY <1>3, <1>4 DEF Advanced

LEMMA AfterCompleted ==
  ASSUME NEW r, NEW q, NEW h, NEW L, IsResult(r), Sound(r.s, q, h, L), NEW x \in Trans,
         NEW i \in Inits, NEW t \in Targets, r.s.trans[x].init = i, r.s.trans[x].target = t,
         r.ret = "COMPLETED", q[x] = "sent", r.s.targ[t].type = "E"
  PROVE  Begun(AfterTarget(r, i, t, x, TRUE), r.s, i, x, h, L)
<1> DEFINE e == Notify(r.s, <<"end_req", t>>)
           d == [e EXCEPT !.trans[x].dont_propagate_fw = TRUE]
           u == QueueRsp(d, i, x)
           m == [q EXCEPT ![x] = "served"]
<1>0. AfterTarget(r, i, t, x, TRUE) =
        IF r.s.rsp[i] # Null THEN Accepted(u, r.phase) ELSE Completed(d, r.phase)
  BY DEF AfterTarget
<1>1. /\ Sound(e, q, h, L) /\ Stays(e, r.s, {"runnable"}) /\ e.trans = r.s.trans
      /\ e.targ = r.s.targ
  BY NotifyStays
<1> HIDE DEF e
<1>2. e.init = r.s.init /\ e.rsp = r.s.rsp
  BY <1>1, StaysRoute DEF Core
<1>3. e.trans[x].init = i /\ e.targ[e.trans[x].target].type = "E"
  BY <1>1
<1>4. Sound(d, m, h, L) /\ Unchanged(d, e, Core \ {"trans"})
  BY <1>1, <1>3, MarkSound
<1>5. d.trans[x].init = e.trans[x].init
  BY <1>1, <1>3, MarkSound
<1>6. m[x] = "served"
  BY <1>1, SoundParts
<1> HIDE DEF d, m
<1>7. d.trans[x].init = i /\ d.init = r.s.init /\ d.rsp = r.s.rsp
  BY <1>2, <1>3, <1>4, <1>5 DEF Unchanged, Core
<1>8. CASE r.s.rsp[i] # Null
  <2>1. Fine(u, h, L) /\ IsState(u) /\ u.init = r.s.init
    BY <1>4, <1>6, <1>7, <1>8, QueueAfter
  <2> HIDE DEF u
  <2>2. Begun(Accepted(u, r.phase), r.s, i, x, h, L)
    BY <2>1 DEF Begun, Accepted, Result, IsResult
  <2> QED BY <1>0, <1>8, <2>2
<1>9. CASE r.s.rsp[i] = Null
  <2>1. At(d, x, {"served"}, h, L) /\ IsState(d)
    BY <1>4, <1>6, Placed, SoundParts
  <2>2. Begun(Completed(d, r.phase), r.s, i, x, h, L)
    BY <1>7, <2>1 DEF Begun, Completed, Result, IsResult
  <2> QED BY <1>0, <1>9, <2>2
<1> QED BY <1>8, <1>9

LEMMA BeginReqSound ==
  ASSUME NEW s, NEW p, NEW h, NEW L, Sound(s, p, h, L), NEW x \in Trans, NEW i \in Inits,
         p[x] = "new", s.init[i].req = x
  PROVE  Begun(BeginReq(s, i, x), s, i, x, h, L)
<1> DEFINE t == s.trans[x].adr
           e == Route(s, x, i, t)
           u == [Acquire(e, x) EXCEPT !.req_queue[t] = Append(@, x)]
           b == [e EXCEPT !.req[t] = x]
           r == CallTarget(b, t, x, "BEGIN_REQ")
           a == AfterTarget(r, i, t, x, TRUE)
           k == [p EXCEPT ![x] = "sent"]
<1>0. BeginReq(s, i, x) = IF s.req[t] # Null THEN Accepted(u, "BEGIN_REQ") ELSE a
  BY Zenon DEF BeginReq, Route
<1>1. t \in Targets /\ x # Null
  BY TransField, TLMAssumption DEF Null
<1> HIDE DEF t
<1>2. \A j \in Inits : s.init[j].req = x => j = i
  BY <1>1, SoundParts DEF Initiating
<1>3. Sound(e, k, h, L) /\ Unchanged(e, s, Core \ {"trans"})
  BY <1>1, <1>2, RouteSound
<1>o. OnRoute(e, x, i, t)
  BY <1>1, <1>2, RouteSound
<1>6. k[x] = "sent"
  BY SoundParts
<1> HIDE DEF e, k
<1>4. e.trans[x].init = i
  BY <1>o DEF OnRoute
<1>5. e.trans[x].target = t
  BY <1>o DEF OnRoute
<1>7. e.init = s.init /\ e.req = s.req
  BY <1>3 DEF Unchanged, Core
<1>8. CASE s.req[t] # Null
  <2>1. Sound(u, [k EXCEPT ![x] = "req_queue"], h, L) /\ Keeps(u, e, {"trans", "req_queue"})
    BY <1>1, <1>3, <1>5, <1>6, <1>7, <1>8, QueueReqSound
  <2> HIDE DEF u
  <2>2. Fine(u, h, L) /\ IsState(u) /\ u.init = s.init
    BY <1>7, <2>1, Placed, SoundParts DEF Keeps, Unchanged, Core
  <2>3. Begun(Accepted(u, "BEGIN_REQ"), s, i, x, h, L)
    BY <2>2 DEF Begun, Accepted, Result, IsResult
  <2> QED BY <1>0, <1>8, <2>3
<1>9. CASE s.req[t] = Null
  <2>1. x \in Pointer
    BY DEF Pointer
  <2>2. Sound(b, k, h, L) /\ Keeps(b, e, {"req"})
    BY <1>1, <1>3, <2>1, SetReq
  <2> HIDE DEF b
  <2>3. b.trans[x].target = t /\ b.trans[x].init = i /\ b.init = s.init
    BY <1>4, <1>5, <1>7, <2>2 DEF Keeps, Unchanged, Core, SameRoutes, SameRoute
  <2>4. Outcome(r, b, x, h, L)
    BY <1>1, <1>6, <2>2, <2>3, CallBegin
  <2> HIDE DEF r
  <2>5. /\ SameRoute(r.s.trans[x], b.trans[x]) /\ r.s.targ[t].type = b.targ[t].type
        /\ r.s.init = b.init /\ IsResult(r)
    BY <1>1, <2>4, StaysRoute DEF Outcome, Core
  <2>6. r.s.trans[x].init = i /\ r.s.trans[x].target = t /\ r.s.init = s.init
    BY <2>3, <2>5 DEF SameRoute
  <2>7. CASE r.ret = "ACCEPTED"
    <3>1. a = r
      BY <2>7 DEF AfterTarget
    <3> HIDE DEF a
    <3> QED BY <1>0, <1>9, <2>4, <2>5, <2>6, <2>7, <3>1 DEF Begun, Outcome
  <2>8. CASE r.ret = "UPDATED"
    <3>1. PICK q \in [Trans -> Places] :
            Sound(r.s, q, h, L) /\ Advanced(r, q, x)
      BY <2>4, <2>8 DEF Outcome, At, Advanced
    <3>2. Begun(a, r.s, i, x, h, L)
      BY <1>1, <2>5, <2>6, <2>8, <3>1, AfterUpdated
    <3> HIDE DEF a
    <3> QED BY <1>0, <1>9, <2>6, <3>2 DEF Begun
  <2>9. CASE r.ret = "COMPLETED"
    <3>1. PICK q \in [Trans -> Places] : Sound(r.s, q, h, L) /\ q[x] = "sent"
      BY <2>4, <2>9 DEF Outcome, At
    <3>2. r.s.targ[t].type = "E"
      BY <2>3, <2>4, <2>5, <2>9 DEF Outcome
    <3>3. Begun(a, r.s, i, x, h, L)
      BY <1>1, <2>5, <2>6, <2>9, <3>1, <3>2, AfterCompleted
    <3> HIDE DEF a
    <3> QED BY <1>0, <1>9, <2>6, <3>3 DEF Begun
  <2> QED BY <2>4, <2>7, <2>8, <2>9 DEF Outcome
<1> QED BY <1>8, <1>9

(* Through the checker.                                                    *)
LEMMA CallBeginReq ==
  ASSUME NEW s, NEW p, NEW h, NEW L, Sound(s, p, h, L), NEW x \in Trans, NEW i \in Inits,
         p[x] = "new", s.init[i].req = x
  PROVE  Begun(CallFromInitiator(s, i, x, "BEGIN_REQ"), s, i, x, h, L)
<1> DEFINE b == FwPre(s, i, x, "BEGIN_REQ")
           f == BeginReq(b, i, x)
           g == FwPost(f, i, x)
<1>0. CallFromInitiator(s, i, x, "BEGIN_REQ") = g
  BY DEF CallFromInitiator, InterconnectFw
<1>1. Same(b, s, Seen)
  BY SoundParts, FwPreObserved
<1> HIDE DEF b
<1>2. Sound(b, p, h, L) /\ b.init = s.init
  BY <1>1, Overseen, StaysRoute DEF Core
<1>3. Begun(f, b, i, x, h, L)
  BY <1>2, BeginReqSound
<1> HIDE DEF f
<1>4. IsResult(f)
  BY <1>3 DEF Begun
<1>5. IsResult(g) /\ Same(g.s, f.s, Seen) /\ g.ret = f.ret /\ g.phase = f.phase
  BY <1>4, FwPostObserved
<1> HIDE DEF g
<1>6. Stays(g.s, f.s, {}) /\ \A q, k, M : Sound(f.s, q, k, M) => Sound(g.s, q, k, M)
  BY <1>5, Overseen
<1>7. /\ Fine(f.s, h, L) => Fine(g.s, h, L)
      /\ \A K : At(f.s, x, K, h, L) => At(g.s, x, K, h, L)
  BY <1>6 DEF Fine, At
<1>8. g.s.init = f.s.init /\ g.s.trans[x].init = f.s.trans[x].init
  BY <1>6, StaysRoute DEF Core, SameRoute
<1>9. Begun(g, s, i, x, h, L)
  BY <1>2, <1>3, <1>5, <1>7, <1>8 DEF Begun
<1> QED BY <1>0, <1>9

LEMMA AnsweredSound ==
  ASSUME NEW s, NEW p, NEW h, NEW L, Sound(s, p, h, L), NEW x
  PROVE  LET r == CheckTransaction(s, x) IN Sound(r, p, h, L) /\ Stays(r, s, {})
<1> DEFINE r == CheckTransaction(s, x)
<1>1. Same(r, s, Seen)
  BY SoundParts, AnsweredSame
<1> HIDE DEF r
<1>2. Sound(r, p, h, L) /\ Stays(r, s, {})
  BY <1>1, Overseen
<1> QED BY <1>2 DEF r

(* A thread sends a request, and acts on what the call returns.            *)
LEMMA SendSound ==
  ASSUME NEW s, NEW p, NEW L, Sound(s, p, Null, L), NEW x \in Trans, NEW i \in Inits,
         s.init[i].left > 0, \A j \in Inits : s.init[j].req # x,
         p[x] = "new" \/ s.init[i].cur = x
  PROVE  Fine(Send(s, i, x), Null, L)
<1> DEFINE e == [s EXCEPT !.init[i] = [pc |-> "idle", cur |-> Null, req |-> x,
                                       left |-> s.init[i].left - 1]]
           r == CallFromInitiator(e, i, x, "BEGIN_REQ")
           k == [p EXCEPT ![x] = "new"]
           u == Post(r.s, i, x, r.phase)
           f == [r.s EXCEPT !.init[i].req = Null]
           c == CheckTransaction(f, x)
           d == Release(c, x)
<1>0. Send(s, i, x) = CASE r.ret = "UPDATED" -> u [] r.ret = "COMPLETED" -> d [] OTHER -> r.s
  BY Zenon DEF Send
<1>1. Sound(e, k, Null, L) /\ e.init[i].req = x
  BY StartSound
<1>2. k[x] = "new"
  BY SoundParts
<1> HIDE DEF e, k
<1>3. Begun(r, e, i, x, Null, L)
  BY <1>1, <1>2, CallBeginReq
<1> HIDE DEF r
<1>4. x # Null /\ \A j \in Inits : e.init[j].req = x => j = i
  BY <1>1, SoundParts, TLMAssumption DEF Initiating, Null
<1>5. CASE r.ret = "UPDATED" /\ r.phase = "END_REQ"
  <2>1. PICK q \in [Trans -> Places] : Sound(r.s, q, Null, L) /\ q[x] = "internal"
    BY <1>3, <1>5 DEF Begun, At
  <2>2. Sound(u, q, Null, L)
    BY <1>5, <2>1, PostEndReq
  <2> HIDE DEF u
  <2> QED BY <1>0, <1>5, <2>2 DEF Fine
<1>6. CASE r.ret = "UPDATED" /\ r.phase = "BEGIN_RESP"
  <2>1. PICK q \in [Trans -> Places] : Sound(r.s, q, Null, L) /\ q[x] = "served"
    BY <1>3, <1>6 DEF Begun, At
  <2>2. r.s.trans[x].init = i
    BY <1>3, <1>6 DEF Begun
  <2>3. MayPost(r.s, q, x, i, r.phase) /\ r.phase # "internal_ph"
    BY <1>6, <2>1, <2>2 DEF MayPost
  <2>4. Sound(u, [q EXCEPT ![x] = PlaceOf[r.phase]], Null, L)
    BY <2>1, <2>3, PostSound
  <2> HIDE DEF u
  <2>5. Fine(u, Null, L)
    BY <2>4, SoundParts DEF Fine
  <2> QED BY <1>0, <1>6, <2>5
<1>7. CASE r.ret = "COMPLETED"
  <2>1. PICK q \in [Trans -> Places] : Sound(r.s, q, Null, L) /\ q[x] = "served"
    BY <1>3, <1>7 DEF Begun, At
  <2>2. /\ Sound(f, q, Null, L) /\ f.init[i].req = Null
        /\ \A j \in Inits : j # i => f.init[j] = r.s.init[j]
    BY <2>1, ForgetRequest
  <2> HIDE DEF f
  <2>3. \A j \in Inits : f.init[j].req # x
    BY <1>3, <1>4, <2>2 DEF Begun
  <2>4. Sound(c, q, Null, L) /\ Stays(c, f, {})
    BY <2>2, AnsweredSound
  <2> HIDE DEF c
  <2>5. \A j \in Inits : c.init[j].req # x
    BY <2>3, <2>4, StaysRoute DEF Core
  <2>6. At(d, x, {"answered"}, Null, L)
    BY <2>1, <2>4, <2>5, GiveUp
  <2> HIDE DEF d
  <2>7. Fine(d, Null, L)
    BY <2>6, AtFine
  <2> QED BY <1>0, <1>7, <2>7
<1>8. CASE r.ret = "ACCEPTED"
  BY <1>0, <1>3, <1>8 DEF Begun
<1> QED BY <1>3, <1>5, <1>6, <1>7, <1>8 DEF Begun

LEMMA LeastOf ==
  ASSUME NEW S, S \subseteq Nat, S # {}
  PROVE  \E n \in S : \A m \in S : n <= m
<1>1. IsWellFoundedOn(OpToRel(<, Nat), Nat)
  BY NatLessThanWellFounded
<1>2. PICK n \in S : \A m \in S : ~(<<m, n>> \in OpToRel(<, Nat))
  BY <1>1, WFMin
<1>3. \A m \in S : ~(m < n)
  BY <1>2 DEF OpToRel
<1> QED BY <1>3

LEMMA ThreadStep ==
  ASSUME ATInv, NEW i \in Inits, Thread(i)
  PROVE  ATInv'
<1>1. PICK p \in [Trans -> Places] : Sound(State(Kernel), p, Null, {})
  BY DEF ATInv
<1> DEFINE x == Fresh
           s == State(<<"thread", i>>)
           r(t, l) == Issue(s, x, t, l)
           b(t, l) == [r(t, l) EXCEPT !.init[i].pc = "blocked", !.init[i].cur = x]
           k == [p EXCEPT ![x] = "new"]
           o(t) == IF targ[t].type = "E" THEN BOOLEAN ELSE {FALSE}
<1>2. x \in Trans /\ trans[x].ref = 0
  <2>1. Free \subseteq Nat /\ Free # {}
    BY TLMAssumption DEF Free, Thread
  <2>2. \E y \in Free : \A z \in Free : y <= z
    BY <2>1, LeastOf
  <2>3. Fresh \in Free
    BY <2>2 DEF Fresh
  <2> QED BY <2>3 DEF Free
<1>3. init[i].left > 0 /\ \E t \in Targets : \E l \in BOOLEAN :
        Become(IF init[i].req # Null THEN b(t, l) ELSE Send(r(t, l), i, x))
  <2>1. init[i].left > 0 /\ \E t \in Targets : \E l \in o(t) :
          Become(IF init[i].req # Null THEN b(t, l) ELSE Send(r(t, l), i, x))
    BY Zenon DEF Thread, Issue
  <2>2. \A t \in Targets : o(t) \subseteq BOOLEAN
    OBVIOUS
  <2> HIDE DEF b, r, o, x
  <2> QED BY <2>1, <2>2
<1>4. PICK t \in Targets, l \in BOOLEAN :
        Become(IF init[i].req # Null THEN b(t, l) ELSE Send(r(t, l), i, x))
  BY <1>3
<1>5. s.trans[x].ref = 0 /\ s.init = init
  BY <1>2 DEF State
<1>6. Sound(s, p, Null, {})
  BY <1>1, SelfSound
<1> DEFINE a == r(t, l)
           c == b(t, l)
<1>7. Become(IF init[i].req # Null THEN c ELSE Send(a, i, x))
  BY <1>4
<1>8. c = [a EXCEPT !.init[i].pc = "blocked", !.init[i].cur = x]
  OBVIOUS
<1> HIDE DEF s, x, b, c
<1>9. /\ Sound(a, k, Null, {}) /\ a.init = s.init
      /\ \A j \in Inits : a.init[j].req # x
  <2>1. Sound(Issue(s, x, t, l), [p EXCEPT ![x] = "new"], Null, {})
    BY <1>2, <1>5, <1>6, FreshSound
  <2>2. Unasked(Issue(s, x, t, l), s, x)
    BY <1>2, <1>5, <1>6, FreshSound
  <2> QED BY <2>1, <2>2 DEF Unasked
<1>10. k[x] = "new"
  BY <1>2, <1>6, SoundParts
<1> HIDE DEF r, a, k
<1>11. a.init[i].left > 0
  BY <1>3, <1>5, <1>9
<1>12. CASE init[i].req # Null
  <2>1. Sound(c, [k EXCEPT ![x] = "cur"], Null, {})
    BY <1>2, <1>8, <1>9, <1>10, <1>11, BlockSound
  <2>2. Fine(c, Null, {})
    BY <2>1, SoundParts DEF Fine
  <2> QED BY <1>7, <1>12, <2>2, BecomeSound
<1>13. CASE init[i].req = Null
  <2>1. Fine(Send(a, i, x), Null, {})
    BY <1>2, <1>9, <1>10, <1>11, SendSound
  <2> QED BY <1>7, <1>13, <2>1, BecomeSound
<1> QED BY <1>12, <1>13

LEMMA ResumeStep ==
  ASSUME ATInv, NEW i \in Inits, Resume(i)
  PROVE  ATInv'
<1>1. PICK p \in [Trans -> Places] : Sound(State(Kernel), p, Null, {})
  BY DEF ATInv
<1> DEFINE s == State(<<"thread", i>>)
           x == init[i].cur
<1>2. Sound(s, p, Null, {})
  BY <1>1, SelfSound
<1>3. s.init = init /\ init[i].pc = "woken" /\ Become(Send(s, i, x))
  BY DEF State, Resume
<1> HIDE DEF s
<1>4. Initiating(s, p) /\ s.init[i] \in InitT
  BY <1>2, SoundParts DEF Typed
<1>5. x # Null /\ x \in Trans /\ s.init[i].left > 0 /\ p[x] = "cur"
  BY <1>3, <1>4 DEF Initiating, InitT, Pointer
<1>6. \A j \in Inits : s.init[j].req # x
  BY <1>4, <1>5 DEF Initiating
<1>7. s.init[i].cur = x
  BY <1>3
<1> HIDE DEF x
<1>8. Fine(Send(s, i, x), Null, {})
  BY <1>2, <1>5, <1>6, <1>7, SendSound
<1> QED BY <1>3, <1>8, BecomeSound

LEMMA InitiatorPeqStep ==
  ASSUME ATInv, NEW i \in Inits, InitiatorPeq(i)
  PROVE  ATInv'
<1>1. PICK p \in [Trans -> Places] : Sound(State(Kernel), p, Null, {})
  BY DEF ATInv
<1>2. PICK e \in Entries(i) :
        LET x == e.trans
            c == Require(Taken(e), e.phase \in {"END_REQ", "BEGIN_RESP"}, "illegal phase")
            s == IF EndsRequest(c, i, x, e.phase) THEN EndRequest(c, i) ELSE c
        IN Become(IF e.phase = "BEGIN_RESP"
                  THEN Release(CallFromInitiator(CheckTransaction(s, x), i, x, "END_RESP").s, x)
                  ELSE s)
  BY Zenon DEF InitiatorPeq
<1> DEFINE s == State(<<"peq", i>>)
           x == e.trans
           r == Taken(e)
           legal == e.phase \in {"END_REQ", "BEGIN_RESP"}
           what == "illegal phase"
           c == Require(r, legal, what)
           n == IF EndsRequest(c, i, x, e.phase) THEN EndRequest(c, i) ELSE c
           m == Release(CallFromInitiator(CheckTransaction(n, x), i, x, "END_RESP").s, x)
           f == IF e.phase = "BEGIN_RESP" THEN m ELSE n
<1>3. Become(f)
  BY <1>2
<1>4. Sound(s, p, Null, {})
  BY <1>1, SelfSound
<1>5. /\ e.at = i
      /\ \/ e \in DOMAIN s.peq /\ r = Without(s, e)
         \/ e \in DOMAIN s.overdue.entries /\ e.phase = "END_REQ" /\ r = Late(s, e)
  <2>1. s.overdue = overdue /\ s.peq = peq
    BY DEF State
  <2> HIDE DEF s, r
  <2>2. Typed(s)
    BY <1>4, SoundParts
  <2>3. /\ e.at = i
        /\ BagIn(e, overdue.entries) => e \in DOMAIN overdue.entries /\ e.phase = "END_REQ"
        /\ ~BagIn(e, overdue.entries) => e \in DOMAIN peq
    <3>1. IsABag(peq) /\ OverdueTyped(overdue)
      BY <2>1, <2>2 DEF Typed
    <3> QED BY <3>1, EntryOf
  <2> QED BY <2>1, <2>3, TakenPeq, TakenOverdue DEF r, s
<1> HIDE DEF s, legal, what, r, c, n, m
<1>6. e.phase \in {"END_REQ", "BEGIN_RESP"} /\ (e.phase = "BEGIN_RESP" => e \in Entry)
  <2>1. Posted(s, p) /\ (e \in DOMAIN s.peq => e \in Entry)
    BY <1>4, SoundParts DEF Typed
  <2>2. i \notin Targets
    BY TLMAssumption
  <2> QED BY <1>5, <2>1, <2>2 DEF Posted, Entry, Phases
<1>7. CASE e.phase = "END_REQ"
  <2>1. Sound(r, p, Null, {})
    BY <1>4, <1>5, <1>7, TakenEndReq, TakenLateSound
  <2>2. Sound(c, p, Null, {})
    BY <2>1, RequireSound DEF c
  <2>3. n = EndRequest(c, i)
    BY <1>7 DEF n, EndsRequest
  <2>4. Sound(EndRequest(c, i), p, Null, {})
    BY <2>2, EndRequestSound
  <2>5. Become(n) /\ Fine(n, Null, {})
    BY <1>3, <1>7, <2>3, <2>4 DEF Fine
  <2> QED BY <2>5, BecomeSound
<1>8. CASE e.phase = "BEGIN_RESP"
  <2> DEFINE q == [p EXCEPT ![x] = PlaceAfter[e.phase]]
             k == CheckTransaction(n, x)
             y == CallFromInitiator(k, i, x, "END_RESP").s
  <2>0. m = Release(y, x)
    BY DEF m
  <2>1. x \in Trans /\ Sound(r, q, Null, {}) /\ Keeps(r, s, {"peq", "overdue"})
    <3>1. e \in DOMAIN s.peq /\ r = Without(s, e) /\ e.phase # "END_REQ"
      BY <1>5, <1>8
    <3> QED BY <1>4, <3>1, TakenSound
  <2>2. q[x] = "served"
    BY <1>4, <1>8, <2>1, SoundParts DEF PlaceAfter, Phases
  <2>3. s.trans[x].init = i
    <3>1. e \in DOMAIN s.peq /\ e.at = i
      BY <1>5, <1>8
    <3> QED BY <1>4, <1>8, <3>1, SoundParts DEF Posted
  <2>4. r.trans[x].init = i
    BY <2>1, <2>3 DEF Keeps, SameRoutes, SameRoute
  <2> HIDE DEF q, x
  <2>5. Sound(c, q, Null, {}) /\ Stays(c, r, {})
    BY <2>1, RequireSound DEF c
  <2>6. c.trans[x].init = i
    BY <2>1, <2>4, <2>5, StaysRoute DEF SameRoute
  <2>7. n = IF x = c.init[i].req THEN EndRequest(c, i) ELSE c
    BY <1>8 DEF n, EndsRequest, x
  <2>8. Sound(n, q, Null, {}) /\ \A j \in Inits : n.init[j].req # x
    <3> DEFINE o == IF x = c.init[i].req THEN EndRequest(c, i) ELSE c
    <3>1. Sound(o, q, Null, {}) /\ \A j \in Inits : o.init[j].req # x
      BY <2>1, <2>2, <2>5, <2>6, RequestOver
    <3> HIDE DEF o
    <3>2. n = o
      BY <2>7 DEF o
    <3> QED BY <3>1, <3>2
  <2>9. Sound(k, q, Null, {}) /\ Stays(k, n, {})
    BY <2>8, AnsweredSound
  <2> HIDE DEF k
  <2>10. \A j \in Inits : k.init[j].req # x
    BY <2>8, <2>9, StaysRoute DEF Core
  <2>11. Sound(k, [q EXCEPT ![x] = "answered"], x, {})
    BY <2>1, <2>2, <2>9, <2>10, HandOver
  <2> DEFINE z == [q EXCEPT ![x] = "answered"]
  <2>12. z[x] = "answered" /\ Sound(k, z, x, {})
    BY <2>1, <2>9, <2>11, SoundParts
  <2> HIDE DEF z
  <2>13. Fine(y, x, {})
    BY <2>1, <2>12, FinishSound
  <2> HIDE DEF y
  <2>14. Fine(Release(y, x), Null, {})
    BY <2>1, <2>13, ReleaseFine
  <2>15. Become(m) /\ Fine(m, Null, {})
    BY <1>3, <1>8, <2>0, <2>14
  <2> QED BY <2>15, BecomeSound
<1> QED BY <1>6, <1>7, <1>8

-----------------------------------------------------------------------------
(* The induction.                                                          *)
LEMMA InitPlaced ==
  ASSUME Init
  PROVE  Sound(State(Kernel), [x \in Trans |-> "none"], Null, {})
<1> DEFINE s == State(Kernel)
           p == [x \in Trans |-> "none"]
<1>1. p \in [Trans -> Places] /\ \A x \in Trans : p[x] = "none"
  BY DEF Places, InHand
<1>2. IsState(s)
  BY DEF State, IsState, Fields
<1>3. PICK n \in Loads : s.init = [i \in Inits |-> [pc |-> "idle", cur |-> Null,
                                                   req |-> Null, left |-> n[i]]]
  BY DEF Init, State
<1>4. PICK w \in Wirings : s.targ = [t \in Targets |-> [type |-> w[t], n_trans |-> 0,
                                                        response_in_progress |-> FALSE,
                                                        next |-> Null, stalled |-> Null]]
  BY DEF Init, State
<1>5. /\ s.req = [t \in Targets |-> Null] /\ s.rsp = [i \in Inits |-> Null]
      /\ s.req_queue = [t \in Targets |-> << >>] /\ s.rsp_queue = [i \in Inits |-> << >>]
      /\ s.runnable = {} /\ s.peq = EmptyBag
      /\ s.overdue = [entries |-> EmptyBag, inits |-> {}]
  BY DEF Init, State
<1>6. s.trans = [x \in Trans |-> [ref |-> 0, status |-> "INCOMPLETE", adr |-> NoTarget,
                                  locked |-> FALSE, init |-> NoRoute, target |-> NoTarget,
                                  dont_propagate_fw |-> FALSE]]
  BY DEF Init, State
<1>7. NoRoute \in Inits /\ NoTarget \in Targets
  BY TLMAssumption DEF NoRoute, NoTarget
<1> HIDE DEF s, p
<1>8. /\ s.peq = [e \in {} |-> 1] /\ DOMAIN s.peq = {} /\ IsABag(s.peq)
      /\ s.overdue.entries = s.peq /\ s.overdue.inits = {}
  BY <1>5 DEF EmptyBag, SetToBag, IsABag
<1>9. Null \in Pointer /\ << >> \in Seq(Trans)
  BY DEF Pointer
<1>10. s.init \in [Inits -> InitT]
  <2>1. n \in [Inits -> Nat]
    BY ATAssumption
  <2> QED BY <1>3, <1>9, <2>1 DEF InitT
<1>11. s.targ \in [Targets -> TargT]
  <2>1. w \in [Targets -> Types]
    BY ATAssumption DEF Types
  <2> QED BY <1>4, <1>9, <2>1 DEF TargT
<1>12. s.trans \in [Trans -> TransT]
  BY <1>6, <1>7 DEF TransT
<1>o. OverdueTyped(s.overdue)
  BY <1>5, <1>8 DEF OverdueTyped
<1>13. Typed(s)
  BY <1>o, <1>2, <1>5, <1>8, <1>9, <1>10, <1>11, <1>12 DEF Typed
<1>14. Watched(s)
  BY <1>5 DEF Watched
<1>15. Initiating(s, p)
  BY <1>3 DEF Initiating
<1>16. Queued(s, p)
  BY <1>5 DEF Queued
<1>17. Pointed(s, p, {})
  BY <1>4 DEF Pointed
<1>18. Posted(s, p)
  BY <1>8 DEF Posted
<1>19. Counted(s, p)
  <2>1. \A t \in Targets : Pipe(s, p, t) = {}
    BY <1>1 DEF Pipe, InPipe, ByTarget
  <2> QED BY <1>4, <2>1 DEF Counted, Counts
<1>20. Referenced(s, p, Null)
  <2>1. \A x \in Trans : x # Null
    BY TLMAssumption DEF Null
  <2>2. \A done : Need("none", done) = 0
    BY DEF Need, One, ByInitiator, ByTarget, ByQueue
  <2>3. \A x \in Trans : s.trans[x].ref = 0 /\ Need(p[x], s.trans[x].dont_propagate_fw) = 0
    BY <1>1, <1>6, <2>2
  <2> QED BY <2>1, <2>3 DEF Referenced, One
<1>21. AtOnce(s, p)
  BY <1>6 DEF AtOnce
<1>22. Awake(s)
  BY <1>5 DEF Awake
<1>23. Sound(s, p, Null, {})
  BY <1>1, <1>13, <1>14, <1>15, <1>16, <1>17, <1>18, <1>19, <1>20, <1>21, <1>22 DEF Sound
<1> QED BY <1>23 DEF s, p

LEMMA InitSound ==
  ASSUME Init
  PROVE  ATInv
<1> DEFINE p == [x \in Trans |-> "none"]
<1>1. Sound(State(Kernel), p, Null, {})
  BY InitPlaced
<1>2. p \in [Trans -> Places]
  BY DEF Places, InHand
<1> HIDE DEF p
<1> QED BY <1>1, <1>2 DEF ATInv

LEMMA NextSound ==
  ASSUME ATInv, [Next]_vars
  PROVE  ATInv'
<1>1. CASE Next
  BY <1>1, ThreadStep, ResumeStep, InitiatorPeqStep, EndRspStep, TargetPeqStep, SendRspStep,
     EndReqStep DEF Next
<1>2. CASE UNCHANGED vars
  <2>1. State(Kernel)' = State(Kernel)
    BY <1>2 DEF vars, State, Kernel
  <2> QED BY <2>1 DEF ATInv
<1> QED BY <1>1, <1>2

(* The inductive invariant: every transaction has a place, and the         *)
(* pointers, queues, events and reference counts of the state agree with   *)
(* it, whichever process runs next.                                        *)
THEOREM ATSound == Spec => []ATInv
<1>1. Init => ATInv
  BY InitSound
<1>2. ATInv /\ [Next]_vars => ATInv'
  BY NextSound
<1> QED BY <1>1, <1>2, PTL DEF Spec

(* Types: no target of type A or B has more than two transactions in its   *)
(* pipeline (at_typea_target.h:90-142), no reference count falls below     *)
(* zero, and queues, pointers and the event queues hold transactions.      *)
THEOREM ATTypes == Spec => []TypeOK
<1>1. ATInv => TypeOK
  <2> SUFFICES ASSUME ATInv PROVE TypeOK
    OBVIOUS
  <2>1. PICK p \in [Trans -> Places] : Sound(State(Kernel), p, Null, {})
    BY DEF ATInv
  <2> DEFINE s == State(Kernel)
  <2>2. /\ s.init = init /\ s.targ = targ /\ s.req = req /\ s.rsp = rsp
        /\ s.req_queue = req_queue /\ s.rsp_queue = rsp_queue /\ s.trans = trans /\ s.peq = peq
        /\ s.overdue = overdue
    BY DEF State
  <2> HIDE DEF s
  <2>3. Typed(s)
    BY <2>1, SoundParts DEF s
  <2>4. \A x \in Trans : trans[x].ref \in Nat
    <3> SUFFICES ASSUME NEW x \in Trans PROVE trans[x].ref \in Nat
      OBVIOUS
    <3>1. /\ s.trans[x].ref \in Int
          /\ s.trans[x].ref >= Need(p[x], s.trans[x].dont_propagate_fw) + One(x = Null)
          /\ Need(p[x], s.trans[x].dont_propagate_fw) \in Nat /\ One(x = Null) \in Nat
      BY <2>1, TransField DEF s
    <3> QED BY <2>2, <3>1
  <2>5. init \in [Inits -> [pc : {"idle", "blocked", "woken"}, cur : Pointer,
                            req : Pointer, left : Nat]]
    BY <2>2, <2>3 DEF Typed, InitT
  <2>6. \A t \in Targets :
          /\ targ[t].type \in {"A", "B", "C", "D", "E"}
          /\ targ[t].n_trans \in 0..2 /\ targ[t].response_in_progress \in BOOLEAN
          /\ {targ[t].next, targ[t].stalled} \subseteq Pointer
    BY <2>2, <2>3 DEF Typed, TargT, Types
  <2>7. IsABag(overdue.entries) /\ overdue.inits \subseteq InitsB
    BY <2>2, <2>3 DEF Typed, OverdueTyped
  <2> QED BY <2>2, <2>3, <2>4, <2>5, <2>6, <2>7 DEF TypeOK, Typed
<1> QED BY <1>1, ATSound, PTL

(* Nothing waits in a queue of the interconnect while no transaction is in *)
(* progress there: what comes then goes on at once, and whatever ends the  *)
(* one in progress takes the next with it (at_interconnect.h:283, 384).    *)
(* Whether an end that has come is ever acted on is not said here: see     *)
(* AllServed.                                                              *)
THEOREM NoneWaitsForNone == Spec => []QueuesWatched
<1>1. ATInv => QueuesWatched
  <2> SUFFICES ASSUME ATInv PROVE QueuesWatched
    OBVIOUS
  <2>1. PICK p \in [Trans -> Places] : Sound(State(Kernel), p, Null, {})
    BY DEF ATInv
  <2>2. Watched(State(Kernel))
    BY <2>1, SoundParts
  <2> QED BY <2>2 DEF Watched, State, QueuesWatched
<1> QED BY <1>1, ATSound, PTL

(* A transaction that a queue, an event, a target or an initiator still    *)
(* refers to is not back in the pool: acquire and release are balanced     *)
(* along every route (gp_mm.h, at_interconnect.h:146-420).                 *)
THEOREM HeldReferenced == Spec => []HeldAlive
<1>1. ATInv => HeldAlive
  <2> SUFFICES ASSUME ATInv, NEW x \in Trans, trans[x].ref = 0
               PROVE  /\ \A e \in BagToSet(peq) : e.trans # x
                      /\ \A t \in Targets : x \notin {targ[t].next, targ[t].stalled}
                                   /\ \A k \in 1..Len(req_queue[t]) : req_queue[t][k] # x
                      /\ \A i \in Inits : x \notin {init[i].cur, init[i].req}
                                   /\ \A k \in 1..Len(rsp_queue[i]) : rsp_queue[i][k] # x
    BY DEF HeldAlive
  <2>1. PICK p \in [Trans -> Places] : Sound(State(Kernel), p, Null, {})
    BY DEF ATInv
  <2> DEFINE s == State(Kernel)
  <2>2. /\ s.init = init /\ s.targ = targ /\ s.req_queue = req_queue
        /\ s.rsp_queue = rsp_queue /\ s.trans = trans /\ s.peq = peq
    BY DEF State
  <2> HIDE DEF s
  <2>3. Sound(s, p, Null, {})
    BY <2>1 DEF s
  <2>4. /\ p[x] \in {"none", "answered"}
        /\ \A i \in Inits : s.init[i].req # x /\ s.init[i].cur # x
    BY <2>2, <2>3, Unreferenced
  <2>5. \A e \in BagToSet(peq) : e.trans # x
    <3>1. \A e \in DOMAIN s.peq : e \in Entry /\ Posted(s, p)
      BY <2>3, SoundParts DEF Typed
    <3>2. \A f \in Phases \ {"END_REQ"} : PlaceOf[f] \notin {"none", "answered"}
      BY DEF PlaceOf, Phases
    <3> QED BY <2>2, <2>4, <3>1, <3>2 DEF Posted, Entry, BagToSet
  <2>6. \A t \in Targets : x \notin {targ[t].next, targ[t].stalled}
    <3>1. Pointed(s, p, {}) /\ x # Null
      BY <2>3, SoundParts, TLMAssumption DEF Null
    <3> QED BY <2>2, <2>4, <3>1 DEF Pointed
  <2>7. /\ \A t \in Targets : \A k \in 1..Len(req_queue[t]) : req_queue[t][k] # x
        /\ \A i \in Inits : \A k \in 1..Len(rsp_queue[i]) : rsp_queue[i][k] # x
    <3>1. Queued(s, p)
      BY <2>3, SoundParts
    <3> QED BY <2>2, <2>4, <3>1 DEF Queued
  <2> QED BY <2>2, <2>4, <2>5, <2>6, <2>7
<1> QED BY <1>1, ATSound, PTL
=============================================================================
