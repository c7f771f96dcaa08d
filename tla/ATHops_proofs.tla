---------------------------- MODULE ATHops_proofs ----------------------------
(***************************************************************************)
(* Theorems of AT about the checkers on its hops: they report nothing, no  *)
(* assertion of a component fails, and the exclusion rules of the base     *)
(* protocol hold on each hop, for any initiators, targets, types of them,  *)
(* number of iterations and size of the pool.  Where an END_REQ has come   *)
(* too late for an initiator of type B, a second request may be in         *)
(* progress on its hop; the theorems say that nothing else comes of it.    *)
(*                                                                         *)
(* The invariant of AT_proofs says where each transaction is.  This one    *)
(* adds the phases that its two hops are in there, and what a component     *)
(* notes down of the transaction that has begun on a hop.  As there, one   *)
(* lemma for each handler says what becomes of the transaction in hand.    *)
(***************************************************************************)
EXTENDS AT_proofs, SequenceTheorems

(* What the checker of a hop says of a transaction: the phase it is in, or *)
(* "idle" before it begins and when it is over.                            *)
On(s, h, y) ==
  IF s.check[h].ph[y] \in {Unused, "END_RESP"} THEN "idle" ELSE s.check[h].ph[y]

HopPhases == {Unused, "BEGIN_REQ", "END_REQ", "BEGIN_RESP", "END_RESP"}
CheckT == [ph : [Trans -> HopPhases], req : Pointer, rsp : Pointer]
PathT == [hops : Seq(Hops), responding : BOOLEAN]

(* What has been reported (AT.Silent).                                     *)
Excused(s) == s.faults \subseteq (IF s.overdue.inits = {} THEN {} ELSE {"7.2.4 b"})

(* Nothing else has been, and what the checkers have noted down as in      *)
(* progress is.                                                            *)
Checked(s) ==
  /\ s.check \in [Hops -> CheckT] /\ s.path \in [Trans -> PathT] /\ Excused(s)
  /\ \A h \in Hops :
       /\ s.check[h].req # Null => s.check[h].ph[s.check[h].req] = "BEGIN_REQ"
       /\ s.check[h].rsp # Null => s.check[h].ph[s.check[h].rsp] = "BEGIN_RESP"

(* The way of a transaction: its phase is a on the hop of its initiator, b *)
(* on that of its target, and it is on no other.  The path it has come is  *)
(* undone by the response.                                                 *)
Stack(a, b, i, t) ==
  IF a \in {"idle", "BEGIN_RESP"} THEN << >>
  ELSE IF b \in {"BEGIN_REQ", "END_REQ"} THEN <<i, t>> ELSE <<i>>

Way(s, y, a, b) ==
  LET i == s.trans[y].init
      t == s.trans[y].target
  IN /\ On(s, i, y) = a /\ On(s, t, y) = b
     /\ \A h \in Hops : h # i /\ h # t => On(s, h, y) = "idle"
     /\ s.path[y].hops = Stack(a, b, i, t)
     /\ s.path[y].responding =>
          s.path[y].hops # << >> /\ s.trans[y].status # "INCOMPLETE"

(* The phases that go with a place.  A target of type E has nothing more   *)
(* to do with a transaction it has answered (done).                        *)
Stands(k, a, b, type, done) ==
  \/ k \in {"none", "cur", "answered", "end_resp"} /\ a = "idle" /\ b = "idle"
  \/ k = "req_queue" /\ a = "BEGIN_REQ" /\ b = "idle"
  \/ k \in {"begin_req", "stalled"} /\ a = "BEGIN_REQ" /\ b = "BEGIN_REQ"
  \/ k \in {"internal", "next"} /\ type \in {"A", "B"} /\ a = "END_REQ" /\ b = "END_REQ"
  \/ k \in {"internal", "next"} /\ type \in {"C", "D"} /\ a = "BEGIN_REQ" /\ b = "BEGIN_REQ"
  \/ k = "rsp_queue" /\ a \in {"BEGIN_REQ", "END_REQ"} /\ (b = "BEGIN_RESP" \/ (done /\ b = "idle"))
  \/ k = "begin_resp" /\ a = "BEGIN_RESP" /\ (b = "BEGIN_RESP" \/ (done /\ b = "idle"))

Trip(s, p, y) ==
  LET u == s.trans[y]
  IN /\ Way(s, y, On(s, u.init, y), On(s, u.target, y))
     /\ Stands(p[y], On(s, u.init, y), On(s, u.target, y), s.targ[u.target].type,
               u.dont_propagate_fw)
     /\ p[y] \in {"cur", "req_queue", "begin_req", "stalled", "internal"} =>
          u.status = "INCOMPLETE"
     /\ p[y] \in {"next", "rsp_queue", "begin_resp"} => u.status # "INCOMPLETE"
     /\ p[y] = "cur" => u.ref = 1

Trips(s, p, x) == \A y \in Trans : y # x => Trip(s, p, y)

(* The request that has begun on the hop of an initiator is its own, but   *)
(* for the initiators that an END_REQ has come too late for.               *)
Asked(s) ==
  \A i \in Inits :
    /\ i \notin s.overdue.inits =>
         \A y \in Trans : On(s, i, y) = "BEGIN_REQ" => s.init[i].req = y
    /\ s.init[i].pc = "woken" => s.init[i].req = Null

(* The response that has begun there is the one the interconnect knows of. *)
Answered(s) ==
  \A i \in Inits :
    /\ \A y \in Trans : On(s, i, y) = "BEGIN_RESP" =>
         s.rsp[i] = y /\ <<"end_rsp", i>> \notin s.runnable
    /\ <<"end_rsp", i>> \in s.runnable => s.rsp[i] # Null

(* So is the request that has begun on the hop of a target.                *)
Requested(s) ==
  \A t \in Targets :
    /\ \A y \in Trans : On(s, t, y) = "BEGIN_REQ" =>
         s.req[t] = y /\ <<"end_req", t>> \notin s.runnable
    /\ <<"end_req", t>> \in s.runnable => s.req[t] # Null

(* A target responds to one transaction at a time.                         *)
Responding(s, p, t, y) ==
  \/ On(s, t, y) = "BEGIN_RESP"
  \/ /\ s.trans[y].target = t
     /\ p[y] = "end_resp" \/ (p[y] = "answered" /\ ~s.trans[y].dont_propagate_fw)

Responses(s, p) ==
  \A t \in Targets :
    /\ \A y \in Trans : Responding(s, p, t, y) =>
         /\ s.targ[t].response_in_progress
         /\ \A z \in Trans : Responding(s, p, t, z) => z = y
    /\ s.targ[t].response_in_progress /\ s.targ[t].type \in {"A", "B"} =>
         \E y \in Trans : Responding(s, p, t, y)
    /\ s.targ[t].response_in_progress => s.targ[t].type # "E"
    /\ <<"send_rsp", t>> \in s.runnable => ~s.targ[t].response_in_progress

(* The end of a request is on its way to the initiator once, and the       *)
(* initiator waits for it.  The response may be underway already when      *)
(* internal_ph has come first.                                             *)
PostedEnds(s) ==
  \A e \in DOMAIN s.peq : e.phase = "END_REQ" /\ e.at \notin s.overdue.inits =>
    /\ s.peq[e] = 1 /\ e \notin DOMAIN s.overdue.entries
    /\ s.init[e.at].req = e.trans /\ On(s, e.at, e.trans) = "END_REQ"

OverdueEnds(s) ==
  \A e \in DOMAIN s.overdue.entries : e.at \notin s.overdue.inits =>
    /\ e.at \in InitsA /\ s.overdue.entries[e] = 1
    /\ s.init[e.at].req = e.trans /\ On(s, e.at, e.trans) \in {"END_REQ", "BEGIN_RESP"}

(* A response that an initiator may take in this evaluation phase is not   *)
(* one whose END_REQ is still to be taken there.  Here peq and later are   *)
(* as they were when the process that works on s began.                    *)
InOrder(s) ==
  \A e \in DOMAIN peq : e.phase = "BEGIN_RESP" /\ e \notin later.entries =>
    \A f \in DOMAIN s.overdue.entries : f.trans # e.trans

Ends(s) == PostedEnds(s) /\ OverdueEnds(s) /\ InOrder(s)

(* All of it; of x, the transaction in hand, nothing is said.              *)
Hopped(s, p, x) ==
  /\ Checked(s) /\ Trips(s, p, x) /\ Asked(s) /\ Answered(s) /\ Requested(s)
  /\ Responses(s, p) /\ Ends(s)

Whole(s, p, h, L, x) == Sound(s, p, h, L) /\ Hopped(s, p, x)

(* The inductive invariant.                                                *)
HopsInv == \E p \in [Trans -> Places] : Whole(State(Kernel), p, Null, {}, Null)
-----------------------------------------------------------------------------

(* The parts of the invariant, and its types.                              *)
LEMMA WholeParts ==
  ASSUME NEW s, NEW p, NEW h, NEW L, NEW x, Whole(s, p, h, L, x)
  PROVE  /\ Sound(s, p, h, L) /\ Hopped(s, p, x) /\ Typed(s) /\ IsState(s)
         /\ p \in [Trans -> Places]
         /\ Checked(s) /\ Trips(s, p, x) /\ Asked(s) /\ Answered(s) /\ Requested(s)
         /\ Responses(s, p) /\ Ends(s)
BY SoundParts DEF Whole, Hopped

LEMMA Apart ==
  /\ Null \notin Trans /\ \A i \in Inits : i \notin Targets
  /\ \A h \in Hops : h \in Inits \/ h \in Targets
  /\ \A h \in Inits : h \in Hops
  /\ \A h \in Targets : h \in Hops
BY TLMAssumption DEF Null, Hops

LEMMA OnType ==
  ASSUME NEW s, Checked(s), NEW h \in Hops, NEW y \in Trans
  PROVE  /\ s.check[h] \in CheckT /\ s.check[h].ph \in [Trans -> HopPhases]
         /\ s.check[h].req \in Pointer /\ s.check[h].rsp \in Pointer
         /\ s.check[h].ph[y] \in HopPhases
         /\ On(s, h, y) \in {"idle", "BEGIN_REQ", "END_REQ", "BEGIN_RESP"}
         /\ On(s, h, y) = "idle" <=> s.check[h].ph[y] \in {Unused, "END_RESP"}
         /\ On(s, h, y) = "BEGIN_REQ" <=> s.check[h].ph[y] = "BEGIN_REQ"
         /\ On(s, h, y) = "END_REQ" <=> s.check[h].ph[y] = "END_REQ"
         /\ On(s, h, y) = "BEGIN_RESP" <=> s.check[h].ph[y] = "BEGIN_RESP"
<1>1. s.check[h] \in CheckT
  BY DEF Checked
<1>2. /\ s.check[h].ph \in [Trans -> HopPhases] /\ s.check[h].req \in Pointer
      /\ s.check[h].rsp \in Pointer
  BY <1>1 DEF CheckT
<1>3. s.check[h].ph[y] \in HopPhases
  BY <1>2
<1> QED BY <1>1, <1>2, <1>3 DEF On, HopPhases, Unused

LEMMA PathType ==
  ASSUME NEW s, Checked(s), NEW y \in Trans
  PROVE  /\ s.path \in [Trans -> PathT] /\ s.path[y] \in PathT
         /\ s.path[y].hops \in Seq(Hops) /\ s.path[y].responding \in BOOLEAN
<1>1. s.path[y] \in PathT
  BY DEF Checked
<1> QED BY <1>1 DEF Checked, PathT

(* The transaction in hand is let go of and taken up.                      *)
LEMMA TakeUp ==
  ASSUME NEW s, NEW p, NEW h, NEW L, NEW x \in Trans, Whole(s, p, h, L, Null)
  PROVE  Whole(s, p, h, L, x) /\ Trip(s, p, x)
BY Apart DEF Whole, Hopped, Trips

LEMMA LetGo ==
  ASSUME NEW s, NEW p, NEW h, NEW L, NEW x \in Trans, Whole(s, p, h, L, x), Trip(s, p, x)
  PROVE  Whole(s, p, h, L, Null)
BY DEF Whole, Hopped, Trips

(* What the checkers have seen of the others stays, and so do the parts of *)
(* the invariant whose state does.                                         *)
Elsewhere(r, s, q, p, x) ==
  /\ r.check = s.check /\ r.path = s.path /\ SameTypes(r, s)
  /\ r.faults = s.faults /\ s.overdue.inits \subseteq r.overdue.inits
  /\ \A y \in Trans : y # x => q[y] = p[y] /\ r.trans[y] = s.trans[y]

LEMMA KeepExcused ==
  ASSUME NEW s, NEW r, Excused(s), r.faults = s.faults, s.overdue.inits \subseteq r.overdue.inits
  PROVE  Excused(r)
BY DEF Excused

LEMMA KeepTrips ==
  ASSUME NEW s, NEW p, NEW h, NEW L, NEW x, Whole(s, p, h, L, x), NEW r, NEW q,
         Elsewhere(r, s, q, p, x)
  PROVE  /\ Checked(r) /\ Trips(r, q, x)
         /\ \A g, y : On(r, g, y) = On(s, g, y)
<1>1. \A g, y : On(r, g, y) = On(s, g, y)
  BY DEF Elsewhere, On
<1>2. Checked(r)
  <2>1. Checked(s)
    BY WholeParts
  <2>2. Excused(r)
    BY <2>1, KeepExcused DEF Elsewhere, Checked
  <2> QED BY <2>1, <2>2 DEF Elsewhere, Checked
<1>3. ASSUME NEW y \in Trans, y # x PROVE Trip(r, q, y)
  <2>1. r.trans[y] = s.trans[y] /\ q[y] = p[y] /\ r.path = s.path
    BY <1>3 DEF Elsewhere
  <2>2. s.trans[y].target \in Targets
    BY WholeParts, TransField
  <2>3. r.targ[s.trans[y].target].type = s.targ[s.trans[y].target].type
    BY <2>2 DEF Elsewhere, SameTypes
  <2>4. Trip(s, p, y)
    BY <1>3, WholeParts DEF Trips
  <2> QED BY <1>1, <2>1, <2>3, <2>4 DEF Trip, Way
<1> QED BY <1>1, <1>2, <1>3 DEF Trips

LEMMA KeepAsked ==
  ASSUME NEW s, NEW r, Asked(s), \A g, y : On(r, g, y) = On(s, g, y), r.init = s.init,
         s.overdue.inits \subseteq r.overdue.inits
  PROVE  Asked(r)
BY DEF Asked

LEMMA KeepAnswered ==
  ASSUME NEW s, NEW r, Answered(s), \A g, y : On(r, g, y) = On(s, g, y),
         r.rsp = s.rsp, r.runnable = s.runnable
  PROVE  Answered(r)
BY DEF Answered

LEMMA KeepRequested ==
  ASSUME NEW s, NEW r, Requested(s), \A g, y : On(r, g, y) = On(s, g, y),
         r.req = s.req, r.runnable = s.runnable
  PROVE  Requested(r)
BY DEF Requested

(* The same transactions are responded to, and no other pointer of a       *)
(* target matters.                                                         *)
LEMMA KeepResponses ==
  ASSUME NEW s, NEW r, NEW p, NEW q, Responses(s, p), SameTypes(r, s),
         \A t \in Targets, y \in Trans : Responding(r, q, t, y) <=> Responding(s, p, t, y),
         \A t \in Targets : r.targ[t].response_in_progress = s.targ[t].response_in_progress,
         \A t \in Targets : <<"send_rsp", t>> \in r.runnable => <<"send_rsp", t>> \in s.runnable
  PROVE  Responses(r, q)
BY ZenonT(40) DEF Responses, SameTypes

(* No end of a request is sent.                                            *)
NoMoreEnds(r, s) ==
  \A e \in DOMAIN r.peq : e.phase = "END_REQ" => e \in DOMAIN s.peq /\ r.peq[e] = s.peq[e]

LEMMA KeepEnds ==
  ASSUME NEW s, NEW r, Ends(s), \A g, y : On(r, g, y) = On(s, g, y), r.init = s.init,
         r.overdue = s.overdue, NoMoreEnds(r, s)
  PROVE  Ends(r)
BY DEF Ends, PostedEnds, OverdueEnds, InOrder, NoMoreEnds

(* Nothing changes that a hop depends on, but for x.                       *)
Calm(r, s) ==
  /\ r.init = s.init /\ r.req = s.req /\ r.rsp = s.rsp /\ r.runnable = s.runnable
  /\ NoMoreEnds(r, s) /\ r.overdue = s.overdue
  /\ \A t \in Targets : r.targ[t].response_in_progress = s.targ[t].response_in_progress

AlikeAt(r, s, q, p, x) ==
  \A t \in Targets : Responding(r, q, t, x) <=> Responding(s, p, t, x)

LEMMA CalmHops ==
  ASSUME NEW s, NEW p, NEW h, NEW L, NEW x, Whole(s, p, h, L, x), NEW r, NEW q,
         Elsewhere(r, s, q, p, x), Calm(r, s), AlikeAt(r, s, q, p, x)
  PROVE  Hopped(r, q, x)
<1>1. Checked(r) /\ Trips(r, q, x) /\ \A g, y : On(r, g, y) = On(s, g, y)
  BY KeepTrips
<1>2. Asked(r) /\ Answered(r) /\ Requested(r) /\ Ends(r)
  <2>1. r.overdue = s.overdue
    BY DEF Calm
  <2> QED BY <1>1, <2>1, WholeParts, KeepAsked, KeepAnswered, KeepRequested, KeepEnds DEF Calm
<1>3. Responses(r, q)
  <2>1. ASSUME NEW t \in Targets, NEW y \in Trans
        PROVE  Responding(r, q, t, y) <=> Responding(s, p, t, y)
    <3>1. CASE y = x
      BY <3>1 DEF AlikeAt
    <3>2. CASE y # x
      BY <1>1, <3>2 DEF Elsewhere, Responding
    <3> QED BY <3>1, <3>2
  <2>2. SameTypes(r, s)
    BY DEF Elsewhere
  <2> QED BY <2>1, <2>2, WholeParts, KeepResponses DEF Calm
<1> QED BY <1>1, <1>2, <1>3 DEF Hopped

(* Where a transaction is told apart by what its target has to do with it. *)
Silenced == {"end_resp", "answered"}

LEMMA AlikeInHand ==
  ASSUME NEW s, NEW r, NEW p, NEW q, NEW x, r.check = s.check,
         \/ p[x] \notin Silenced /\ q[x] \notin Silenced
         \/ q[x] = p[x] /\ SameRoute(r.trans[x], s.trans[x])
         \/ p[x] = "answered" /\ q[x] = "end_resp" /\ ~s.trans[x].dont_propagate_fw
            /\ SameRoute(r.trans[x], s.trans[x])
         \/ p[x] = "end_resp" /\ q[x] = "answered" /\ ~s.trans[x].dont_propagate_fw
            /\ SameRoute(r.trans[x], s.trans[x])
  PROVE  AlikeAt(r, s, q, p, x)
<1>1. \A g, y : On(r, g, y) = On(s, g, y)
  BY DEF On
<1> QED BY <1>1 DEF AlikeAt, Responding, Silenced, SameRoute

LEMMA SameFields ==
  ASSUME NEW s, NEW r, NEW F, Same(r, s, F)
  PROVE  /\ "init" \notin F => r.init = s.init
         /\ "targ" \notin F => r.targ = s.targ /\ SameTypes(r, s)
         /\ "req" \notin F => r.req = s.req
         /\ "rsp" \notin F => r.rsp = s.rsp
         /\ "req_queue" \notin F => r.req_queue = s.req_queue
         /\ "rsp_queue" \notin F => r.rsp_queue = s.rsp_queue
         /\ "trans" \notin F => r.trans = s.trans
         /\ "peq" \notin F => r.peq = s.peq /\ NoMoreEnds(r, s)
         /\ "overdue" \notin F => r.overdue = s.overdue
         /\ "runnable" \notin F => r.runnable = s.runnable
         /\ "check" \notin F => r.check = s.check
         /\ "path" \notin F => r.path = s.path
         /\ "faults" \notin F => r.faults = s.faults
         /\ "self" \notin F => r.self = s.self
<1>1. \A f \in Fields : f \notin F => r[f] = s[f]
  BY DEF Same
<1> QED BY <1>1 DEF Fields, SameTypes, NoMoreEnds

(* The way of a transaction is that of before.                             *)
Along(r, s, x) ==
  /\ r.check = s.check /\ r.path = s.path
  /\ r.trans[x].init = s.trans[x].init /\ r.trans[x].target = s.trans[x].target
  /\ r.trans[x].status = s.trans[x].status \/ r.trans[x].status # "INCOMPLETE"

LEMMA AlongWay ==
  ASSUME NEW s, NEW r, NEW x, Along(r, s, x), NEW a, NEW b, Way(s, x, a, b)
  PROVE  Way(r, x, a, b)
BY DEF Along, Way, On

(* A record of a transaction is written.                                   *)
LEMMA RewriteHops ==
  ASSUME NEW s, NEW p, NEW h, NEW L, NEW x, Whole(s, p, h, L, x), NEW r, NEW u,
         Rewrites(r, s, x, u), NEW q, \A y \in Trans : y # x => q[y] = p[y],
         AlikeAt(r, s, q, p, x)
  PROVE  Hopped(r, q, x)
<1>1. Same(r, s, {"trans"}) /\ \A y \in Trans : y # x => r.trans[y] = s.trans[y]
  BY DEF Rewrites, Replaced
<1>2. Elsewhere(r, s, q, p, x) /\ Calm(r, s)
  BY <1>1, SameFields DEF Elsewhere, Calm
<1> QED BY <1>2, CalmHops

LEMMA AcquireRewrites ==
  ASSUME NEW s, Typed(s), NEW x \in Trans
  PROVE  Rewrites(Acquire(s, x), s, x, [s.trans[x] EXCEPT !.ref = s.trans[x].ref + 1])
<1>1. IsState(s) /\ s.trans \in [Trans -> TransT] /\ s.trans[x].ref + 1 \in Int
  BY DEF Typed, TransT
<1>2. Acquire(s, x) = [s EXCEPT !.trans[x].ref = s.trans[x].ref + 1]
  BY DEF Acquire
<1>3. \A v \in Int : Rewrites([s EXCEPT !.trans[x].ref = v], s, x, [s.trans[x] EXCEPT !.ref = v])
  BY <1>1, SetOne
<1> QED BY <1>1, <1>2, <1>3, Zenon

LEMMA ReleaseRewrites ==
  ASSUME NEW s, Typed(s), NEW x \in Trans, s.trans[x].ref > 0
  PROVE  Rewrites(Release(s, x), s, x, [s.trans[x] EXCEPT !.ref = s.trans[x].ref - 1])
<1>1. IsState(s) /\ s.trans \in [Trans -> TransT] /\ s.trans[x].ref - 1 \in Int
  BY DEF Typed, TransT
<1>2. Release(s, x) = [s EXCEPT !.trans[x].ref = s.trans[x].ref - 1]
  BY DEF Release, Require
<1>3. \A v \in Int : Rewrites([s EXCEPT !.trans[x].ref = v], s, x, [s.trans[x] EXCEPT !.ref = v])
  BY <1>1, SetOne
<1> QED BY <1>1, <1>2, <1>3, Zenon

LEMMA AnswerRewrites ==
  ASSUME NEW s, Typed(s), NEW x \in Trans, NEW w \in {"OK", "ERROR"},
         s.trans[x].ref > 0, s.trans[x].status = "INCOMPLETE"
  PROVE  Rewrites(Answer(s, x, w), s, x, [s.trans[x] EXCEPT !.status = w])
<1>1. IsState(s) /\ s.trans \in [Trans -> TransT] /\ w \in {"INCOMPLETE", "OK", "ERROR"}
  BY DEF Typed
<1>2. Answer(s, x, w) = [s EXCEPT !.trans[x].status = w]
  BY DEF Answer, Require
<1>3. \A v \in {"INCOMPLETE", "OK", "ERROR"} :
        Rewrites([s EXCEPT !.trans[x].status = v], s, x, [s.trans[x] EXCEPT !.status = v])
  BY <1>1, SetOne
<1> QED BY <1>1, <1>2, <1>3, Zenon

(* What the record of x is then.                                           *)
LEMMA RefWritten ==
  ASSUME NEW s, Typed(s), NEW x \in Trans, NEW r, NEW n,
         Rewrites(r, s, x, [s.trans[x] EXCEPT !.ref = n])
  PROVE  /\ r.trans[x].ref = n /\ r.trans[x].status = s.trans[x].status
         /\ SameRoute(r.trans[x], s.trans[x]) /\ Along(r, s, x)
<1>1. s.trans[x] \in TransT
  BY DEF Typed
<1>2. Same(r, s, {"trans"}) /\ r.trans[x] = [s.trans[x] EXCEPT !.ref = n]
  BY DEF Rewrites, Replaced
<1>3. r.check = s.check /\ r.path = s.path
  BY <1>2, SameFields
<1> QED BY <1>1, <1>2, <1>3 DEF TransT, SameRoute, Along

LEMMA StatusWritten ==
  ASSUME NEW s, Typed(s), NEW x \in Trans, NEW r, NEW w, w # "INCOMPLETE",
         Rewrites(r, s, x, [s.trans[x] EXCEPT !.status = w])
  PROVE  /\ r.trans[x].ref = s.trans[x].ref /\ r.trans[x].status # "INCOMPLETE"
         /\ SameRoute(r.trans[x], s.trans[x]) /\ Along(r, s, x)
<1>1. s.trans[x] \in TransT
  BY DEF Typed
<1>2. Same(r, s, {"trans"}) /\ r.trans[x] = [s.trans[x] EXCEPT !.status = w]
  BY DEF Rewrites, Replaced
<1>3. r.check = s.check /\ r.path = s.path
  BY <1>2, SameFields
<1> QED BY <1>1, <1>2, <1>3 DEF TransT, SameRoute, Along

-----------------------------------------------------------------------------
(* What becomes of the record of the transaction in hand.                  *)
LEMMA AlikeRoute ==
  ASSUME NEW s, NEW r, NEW p, NEW q, NEW x, AlikeAt(s, s, q, p, x), r.check = s.check,
         SameRoute(r.trans[x], s.trans[x])
  PROVE  AlikeAt(r, s, q, p, x)
<1>1. \A g, y : On(r, g, y) = On(s, g, y)
  BY DEF On
<1> QED BY <1>1 DEF AlikeAt, Responding, SameRoute

LEMMA RecountHops ==
  ASSUME NEW s, NEW p, NEW h, NEW L, NEW x \in Trans, Whole(s, p, h, L, x), NEW r, NEW n,
         Rewrites(r, s, x, [s.trans[x] EXCEPT !.ref = n]), NEW q,
         \A y \in Trans : y # x => q[y] = p[y], AlikeAt(s, s, q, p, x)
  PROVE  Hopped(r, q, x)
<1>1. Typed(s)
  BY WholeParts
<1>2. SameRoute(r.trans[x], s.trans[x]) /\ Along(r, s, x)
  BY <1>1, RefWritten
<1>3. AlikeAt(r, s, q, p, x)
  BY <1>2, AlikeRoute DEF Along
<1> QED BY <1>3, RewriteHops

LEMMA AlikeItself ==
  ASSUME NEW s, NEW p, NEW x
  PROVE  AlikeAt(s, s, p, p, x)
BY DEF AlikeAt

(* x is the same transaction as before.                                    *)
Still(r, s, x) == Along(r, s, x) /\ r.trans[x].status = s.trans[x].status

LEMMA StillAll ==
  ASSUME NEW s, NEW r, NEW F, Same(r, s, F),
         "check" \notin F /\ "path" \notin F /\ "trans" \notin F
  PROVE  \A x : Still(r, s, x)
<1>1. r.check = s.check /\ r.path = s.path /\ r.trans = s.trans
  BY SameFields
<1> QED BY <1>1 DEF Still, Along

LEMMA AcquireWhole ==
  ASSUME NEW s, NEW p, NEW h, NEW L, NEW x \in Trans, Whole(s, p, h, L, x)
  PROVE  LET r == Acquire(s, x)
         IN /\ Whole(r, p, h, L, x) /\ (h = Null => Whole(r, p, x, L, x))
            /\ Same(r, s, {"trans"}) /\ Still(r, s, x) /\ Stays(r, s, {"trans"})
            /\ r.trans[x].ref = s.trans[x].ref + 1
<1> DEFINE r == Acquire(s, x)
           n == s.trans[x].ref + 1
<1>0. Sound(s, p, h, L) /\ Typed(s)
  BY WholeParts
<1>1. Rewrites(r, s, x, [s.trans[x] EXCEPT !.ref = n])
  BY <1>0, AcquireRewrites
<1>2. Sound(r, p, h, L) /\ (h = Null => Sound(r, p, x, L)) /\ OnlyTrans(r, s, x) /\ SameRoutes(r, s)
  BY <1>0, AcquireSound
<1> HIDE DEF r, n
<1>3. Hopped(r, p, x)
  BY <1>1, AlikeItself, RecountHops
<1>4. r.trans[x].ref = n /\ r.trans[x].status = s.trans[x].status /\ Along(r, s, x)
  <2>1. Rewrites(r, s, x, [s.trans[x] EXCEPT !.ref = n]) =>
          /\ r.trans[x].ref = n /\ r.trans[x].status = s.trans[x].status
          /\ SameRoute(r.trans[x], s.trans[x]) /\ Along(r, s, x)
    BY <1>0, RefWritten
  <2> QED BY <1>1, <2>1
<1>5. Same(r, s, {"trans"})
  BY <1>1 DEF Rewrites
<1>6. Stays(r, s, {"trans"})
  BY <1>2, KeepsStays DEF OnlyTrans, Keeps
<1> QED BY <1>2, <1>3, <1>4, <1>5, <1>6 DEF Whole, Still, r, n

(* The target takes the request: it holds a reference.                     *)
LEMMA TakeWhole ==
  ASSUME NEW s, NEW p, NEW h, NEW L, NEW x \in Trans, Whole(s, p, h, L, x), p[x] = "sent",
         NEW k \in {"accepted", "served"},
         k = "served" => s.targ[s.trans[x].target].type = "D"
  PROVE  LET r == Acquire(s, x)
         IN Whole(r, [p EXCEPT ![x] = k], h, L, x)
<1> DEFINE r == Acquire(s, x)
           n == s.trans[x].ref + 1
           q == [p EXCEPT ![x] = k]
<1>0. Sound(s, p, h, L) /\ Typed(s) /\ p \in [Trans -> Places]
  BY WholeParts
<1>1. Rewrites(r, s, x, [s.trans[x] EXCEPT !.ref = n])
  BY <1>0, AcquireRewrites
<1>2. Sound(r, q, h, L)
  BY <1>0, TakeSound
<1>3. q[x] = k /\ \A y \in Trans : y # x => q[y] = p[y]
  BY <1>0
<1> HIDE DEF r, n, q
<1>4. AlikeAt(s, s, q, p, x)
  BY <1>3, AlikeInHand DEF Silenced
<1>5. Hopped(r, q, x)
  BY <1>1, <1>3, <1>4, RecountHops
<1> QED BY <1>2, <1>5 DEF Whole, r, q

(* A target answers a transaction that has no answer yet.                  *)
LEMMA AnswerWhole ==
  ASSUME NEW s, NEW p, NEW h, NEW L, NEW x \in Trans, Whole(s, p, h, L, x), NEW w \in {"OK", "ERROR"},
         s.trans[x].ref > 0, s.trans[x].status = "INCOMPLETE"
  PROVE  LET r == Answer(s, x, w)
         IN /\ Whole(r, p, h, L, x) /\ Same(r, s, {"trans"}) /\ Along(r, s, x)
            /\ Stays(r, s, {"trans"}) /\ r.trans[x].status # "INCOMPLETE"
            /\ r.trans[x].ref = s.trans[x].ref
<1> DEFINE r == Answer(s, x, w)
<1>0. Sound(s, p, h, L) /\ Typed(s) /\ w # "INCOMPLETE"
  BY WholeParts
<1>1. Rewrites(r, s, x, [s.trans[x] EXCEPT !.status = w])
  BY <1>0, AnswerRewrites
<1>2. Sound(r, p, h, L) /\ OnlyTrans(r, s, x) /\ SameRoutes(r, s)
  BY <1>0, AnswerSound
<1> HIDE DEF r
<1>3. /\ r.trans[x].ref = s.trans[x].ref /\ r.trans[x].status # "INCOMPLETE"
      /\ SameRoute(r.trans[x], s.trans[x]) /\ Along(r, s, x)
  BY <1>0, <1>1, StatusWritten
<1>4. Hopped(r, p, x)
  <2>1. AlikeAt(r, s, p, p, x)
    BY <1>3, AlikeItself, AlikeRoute DEF Along
  <2> QED BY <1>1, <2>1, RewriteHops
<1>5. Same(r, s, {"trans"})
  BY <1>1 DEF Rewrites
<1>6. Stays(r, s, {"trans"})
  BY <1>2, KeepsStays DEF OnlyTrans, Keeps
<1> QED BY <1>2, <1>3, <1>4, <1>5, <1>6 DEF Whole, r

(* Its target responds to x, or is through with it.                        *)
Responded(s, x) ==
  On(s, s.trans[x].target, x) = "BEGIN_RESP" \/ s.trans[x].dont_propagate_fw

LEMMA AlikeAnswered ==
  ASSUME NEW s, NEW p, NEW q, NEW x, p[x] = "served", q[x] = "answered", Responded(s, x)
  PROVE  AlikeAt(s, s, q, p, x)
BY DEF AlikeAt, Responding, Responded

(* The initiator is through with x, and gives its reference back.          *)
LEMMA GiveUpWhole ==
  ASSUME NEW s, NEW p, NEW h, NEW L, NEW x \in Trans, Whole(s, p, h, L, x), p[x] = "served",
         \A j \in Inits : s.init[j].req # x, Responded(s, x)
  PROVE  LET r == Release(s, x)
         IN /\ Whole(r, [p EXCEPT ![x] = "answered"], h, L, x)
            /\ Same(r, s, {"trans"}) /\ Still(r, s, x) /\ Stays(r, s, {"trans"})
<1> DEFINE r == Release(s, x)
           q == [p EXCEPT ![x] = "answered"]
           n == s.trans[x].ref - 1
<1>0. Sound(s, p, h, L) /\ Typed(s) /\ p \in [Trans -> Places]
  BY WholeParts
<1>1. Sound(r, q, h, L)
  <2>1. /\ "served" \in InHand \ {"accepted", "new"} /\ "answered" \in InHand
        /\ "served" \in Routed /\ "served" \in InPipe /\ "answered" \in InPipe
    BY DEF InHand, Routed, Places, InPipe, ByTarget
  <2>2. \A d : Need("answered", d) + 1 <= Need("served", d)
    BY DEF Need, One, ByInitiator, ByTarget, ByQueue
  <2> QED BY <1>0, <2>1, <2>2, ReleaseInHand
<1>2. s.trans[x].ref > 0
  <2>1. \A d : Need("served", d) >= 1
    BY DEF Need, One, ByInitiator, ByTarget, ByQueue
  <2> QED BY <1>0, <2>1, TransField
<1>3. Rewrites(r, s, x, [s.trans[x] EXCEPT !.ref = n])
  BY <1>0, <1>2, ReleaseRewrites
<1>4. Stays(r, s, {"trans"})
  BY <1>0, ReleaseStays
<1>5. q[x] = "answered" /\ \A y \in Trans : y # x => q[y] = p[y]
  BY <1>0
<1> HIDE DEF r, q, n
<1>6. AlikeAt(s, s, q, p, x)
  BY <1>5, AlikeAnswered
<1>7. Hopped(r, q, x)
  BY <1>3, <1>5, <1>6, RecountHops
<1>8. r.trans[x].status = s.trans[x].status /\ Along(r, s, x)
  <2>1. Rewrites(r, s, x, [s.trans[x] EXCEPT !.ref = n]) =>
          /\ r.trans[x].ref = n /\ r.trans[x].status = s.trans[x].status
          /\ SameRoute(r.trans[x], s.trans[x]) /\ Along(r, s, x)
    BY <1>0, RefWritten
  <2> QED BY <1>3, <2>1
<1>9. Same(r, s, {"trans"})
  BY <1>3 DEF Rewrites
<1> QED BY <1>1, <1>4, <1>7, <1>8, <1>9 DEF Whole, Still, r, q

LEMMA HandOverWhole ==
  ASSUME NEW s, NEW p, NEW L, NEW x \in Trans, Whole(s, p, Null, L, x), p[x] = "served",
         \A j \in Inits : s.init[j].req # x, Responded(s, x)
  PROVE  Whole(s, [p EXCEPT ![x] = "answered"], x, L, x)
<1> DEFINE q == [p EXCEPT ![x] = "answered"]
<1>0. Sound(s, p, Null, L) /\ p \in [Trans -> Places]
  BY WholeParts
<1>1. Sound(s, q, x, L)
  BY <1>0, HandOver
<1>2. q[x] = "answered" /\ \A y \in Trans : y # x => q[y] = p[y]
  BY <1>0
<1> HIDE DEF q
<1>3. AlikeAt(s, s, q, p, x)
  BY <1>2, AlikeAnswered
<1>4. Elsewhere(s, s, q, p, x) /\ Calm(s, s)
  BY <1>2 DEF Elsewhere, Calm, SameTypes, NoMoreEnds
<1>5. Hopped(s, q, x)
  BY <1>3, <1>4, CalmHops
<1> QED BY <1>1, <1>5 DEF Whole, q

LEMMA DropHeldWhole ==
  ASSUME NEW s, NEW p, NEW h, NEW L, NEW x, Whole(s, p, h, L, x)
  PROVE  Whole(s, p, Null, L, x)
BY DropHeld DEF Whole

(* The reference that the running process holds is given back, of a        *)
(* transaction that is let go of.                                          *)
LEMMA ReleaseHeldWhole ==
  ASSUME NEW s, NEW p, NEW L, NEW x \in Trans, Whole(s, p, x, L, Null)
  PROVE  Whole(Release(s, x), p, Null, L, Null)
<1> DEFINE r == Release(s, x)
           n == s.trans[x].ref - 1
<1>0. Sound(s, p, x, L) /\ Typed(s) /\ Whole(s, p, x, L, x) /\ Trip(s, p, x)
  BY WholeParts, TakeUp
<1>1. Sound(r, p, Null, L)
  BY <1>0, ReleaseHeld
<1>2. s.trans[x].ref > 0 /\ (p[x] = "cur" => s.trans[x].ref > 1)
  <2>1. s.trans[x].ref >= Need(p[x], s.trans[x].dont_propagate_fw) + One(x = x)
    BY <1>0, TransField
  <2>2. One(x = x) = 1 /\ Need(p[x], s.trans[x].dont_propagate_fw) \in Nat
    BY <1>0, TransField DEF One
  <2>3. \A d : Need("cur", d) = 1
    BY DEF Need, One, ByInitiator, ByTarget, ByQueue
  <2>4. s.trans[x].ref \in Int
    BY <1>0, TransField
  <2> QED BY <2>1, <2>2, <2>3, <2>4
<1>3. Rewrites(r, s, x, [s.trans[x] EXCEPT !.ref = n])
  BY <1>0, <1>2, ReleaseRewrites
<1> HIDE DEF r, n
<1>4. Hopped(r, p, x)
  BY <1>0, <1>3, AlikeItself, RecountHops
<1>5. r.trans[x].status = s.trans[x].status /\ Along(r, s, x) /\ SameRoute(r.trans[x], s.trans[x])
  <2>1. Rewrites(r, s, x, [s.trans[x] EXCEPT !.ref = n]) =>
          /\ r.trans[x].ref = n /\ r.trans[x].status = s.trans[x].status
          /\ SameRoute(r.trans[x], s.trans[x]) /\ Along(r, s, x)
    BY <1>0, RefWritten
  <2> QED BY <1>3, <2>1
<1>6. r.targ = s.targ
  BY <1>3, SameFields DEF Rewrites
<1>7. p[x] # "cur"
  BY <1>0, <1>2 DEF Trip
<1>8. Trip(r, p, x)
  BY <1>0, <1>5, <1>6, <1>7, AlongWay DEF Trip, Along, On, SameRoute
<1> QED BY <1>1, <1>4, <1>8, LetGo DEF Whole, r

(* The target has completed the request at once.                           *)
LEMMA MarkWhole ==
  ASSUME NEW s, NEW p, NEW h, NEW L, NEW x \in Trans, Whole(s, p, h, L, x), p[x] = "sent",
         s.targ[s.trans[x].target].type = "E"
  PROVE  LET r == [s EXCEPT !.trans[x].dont_propagate_fw = TRUE]
         IN /\ Whole(r, [p EXCEPT ![x] = "served"], h, L, x)
            /\ Same(r, s, {"trans"}) /\ Still(r, s, x) /\ SameTypes(r, s)
            /\ r.trans[x].dont_propagate_fw /\ r.trans[x].ref = s.trans[x].ref
<1> DEFINE r == [s EXCEPT !.trans[x].dont_propagate_fw = TRUE]
           q == [p EXCEPT ![x] = "served"]
           u == [s.trans[x] EXCEPT !.dont_propagate_fw = TRUE]
<1>0. /\ Sound(s, p, h, L) /\ p \in [Trans -> Places]
      /\ IsState(s) /\ s.trans \in [Trans -> TransT] /\ s.trans[x] \in TransT
  BY WholeParts, TransField
<1>1. Rewrites(r, s, x, u)
  BY <1>0, SetOne
<1>2. Sound(r, q, h, L)
  BY <1>0, MarkSound
<1>3. q[x] = "served" /\ \A y \in Trans : y # x => q[y] = p[y]
  BY <1>0
<1> HIDE DEF r, q
<1>4. Same(r, s, {"trans"}) /\ r.trans[x] = u
  BY <1>1 DEF Rewrites, Replaced
<1>5. /\ r.trans[x].dont_propagate_fw /\ r.trans[x].ref = s.trans[x].ref
      /\ r.trans[x].status = s.trans[x].status /\ r.trans[x].init = s.trans[x].init
      /\ r.trans[x].target = s.trans[x].target
  BY <1>0, <1>4 DEF TransT
<1>6. Still(r, s, x) /\ SameTypes(r, s) /\ r.check = s.check
  BY <1>4, <1>5, SameFields DEF Still, Along
<1>7. Hopped(r, q, x)
  <2>1. AlikeAt(r, s, q, p, x)
    BY <1>3, <1>6, AlikeInHand DEF Silenced
  <2> QED BY <1>1, <1>3, <2>1, RewriteHops
<1> QED BY <1>2, <1>4, <1>5, <1>6, <1>7 DEF Whole, r, q

(* It has not: nothing changes.                                            *)
LEMMA NoMarkItself ==
  ASSUME NEW s, NEW p, NEW h, NEW L, Sound(s, p, h, L), NEW x \in Trans,
         ~s.trans[x].dont_propagate_fw
  PROVE  [s EXCEPT !.trans[x].dont_propagate_fw = FALSE] = s
<1> DEFINE r == [s EXCEPT !.trans[x].dont_propagate_fw = FALSE]
           v == [s.trans EXCEPT ![x].dont_propagate_fw = FALSE]
<1>1. /\ IsState(s) /\ s.trans \in [Trans -> TransT] /\ s.trans[x] \in TransT
      /\ s.trans[x].dont_propagate_fw = FALSE
  BY SoundParts, TransField
<1>2. [s.trans[x] EXCEPT !.dont_propagate_fw = FALSE] = s.trans[x]
  BY <1>1 DEF TransT
<1>3. v = s.trans
  BY <1>1, <1>2
<1>4. r = [s EXCEPT !.trans = v]
  OBVIOUS
<1> HIDE DEF v
<1> QED BY <1>1, <1>3, <1>4 DEF IsState, Fields

(* x has begun nowhere, or on the hop of its initiator only.               *)
Unbegun(s, x) ==
  /\ \A h \in Hops : On(s, h, x) = "idle"
  /\ s.path[x].hops = << >> /\ ~s.path[x].responding

Started(s, x, i) ==
  /\ On(s, i, x) = "BEGIN_REQ" /\ \A h \in Hops : h # i => On(s, h, x) = "idle"
  /\ s.path[x].hops = <<i>> /\ ~s.path[x].responding

AskedBy(s, x, i) == \A j \in Inits : s.init[j].req = x => j = i

LEMMA RouteWhole ==
  ASSUME NEW s, NEW p, NEW h, NEW L, NEW x \in Trans, Whole(s, p, h, L, x), NEW i \in Inits,
         NEW t \in Targets, p[x] = "new", AskedBy(s, x, i), Started(s, x, i)
  PROVE  LET r == Route(s, x, i, t)
         IN /\ Whole(r, [p EXCEPT ![x] = "sent"], h, L, x)
            /\ Same(r, s, {"trans"}) /\ OnRoute(r, x, i, t)
            /\ Way(r, x, "BEGIN_REQ", "idle") /\ r.trans[x].status = s.trans[x].status
<1> DEFINE r == Route(s, x, i, t)
           q == [p EXCEPT ![x] = "sent"]
<1>0. Sound(s, p, h, L) /\ p \in [Trans -> Places] /\ Typed(s)
  BY WholeParts
<1>1. Rewrites(r, s, x, r.trans[x]) /\ r.trans[x].status = s.trans[x].status /\ OnRoute(r, x, i, t)
  BY <1>0, RouteRewrites
<1>2. Sound(r, q, h, L)
  BY <1>0, RouteSound DEF AskedBy
<1>3. q[x] = "sent" /\ \A y \in Trans : y # x => q[y] = p[y]
  BY <1>0
<1> HIDE DEF r, q
<1>4. Same(r, s, {"trans"})
  BY <1>1 DEF Rewrites
<1>5. r.check = s.check /\ r.path = s.path /\ \A g : On(r, g, x) = On(s, g, x)
  BY <1>4, SameFields DEF On
<1>6. Hopped(r, q, x)
  <2>1. AlikeAt(r, s, q, p, x)
    BY <1>3, <1>5, AlikeInHand DEF Silenced
  <2> QED BY <1>1, <1>3, <2>1, RewriteHops
<1>7. Way(r, x, "BEGIN_REQ", "idle")
  <2>1. i # t /\ t \in Hops
    BY Apart
  <2> QED BY <1>1, <1>5, <2>1 DEF Way, Started, OnRoute, Stack
<1> QED BY <1>1, <1>2, <1>4, <1>6, <1>7 DEF Whole, r, q

(* A free transaction has begun nowhere.                                   *)
LEMMA TripUnbegun ==
  ASSUME NEW s, NEW p, NEW x \in Trans, Trip(s, p, x), Checked(s),
         p[x] \in {"none", "cur", "answered"}
  PROVE  Unbegun(s, x)
<1>1. On(s, s.trans[x].init, x) = "idle" /\ On(s, s.trans[x].target, x) = "idle"
  BY DEF Trip, Stands
<1>2. Way(s, x, "idle", "idle")
  BY <1>1 DEF Trip
<1> QED BY <1>2, PathType DEF Way, Stack, Unbegun

LEMMA IssueWhole ==
  ASSUME NEW s, NEW p, NEW L, NEW x \in Trans, Whole(s, p, Null, L, Null), s.trans[x].ref = 0,
         NEW t \in Targets, NEW l \in BOOLEAN
  PROVE  LET r == Issue(s, x, t, l)
         IN /\ Whole(r, [p EXCEPT ![x] = "new"], Null, L, x) /\ Unasked(r, s, x)
            /\ Same(r, s, {"trans"}) /\ Unbegun(r, x)
            /\ r.trans[x].status = "INCOMPLETE" /\ r.trans[x].ref = 1
<1> DEFINE r == Issue(s, x, t, l)
           q == [p EXCEPT ![x] = "new"]
<1>0. /\ Sound(s, p, Null, L) /\ p \in [Trans -> Places] /\ Typed(s) /\ Checked(s)
      /\ Whole(s, p, Null, L, x) /\ Trip(s, p, x)
  BY WholeParts, TakeUp
<1>1. /\ Rewrites(r, s, x, r.trans[x]) /\ r.trans[x].ref = 1
      /\ r.trans[x].status = "INCOMPLETE" /\ SameRoute(r.trans[x], s.trans[x])
  BY <1>0, IssueRewrites
<1>2. Sound(r, q, Null, L) /\ Unasked(r, s, x)
  BY <1>0, FreshSound
<1>3. q[x] = "new" /\ \A y \in Trans : y # x => q[y] = p[y]
  BY <1>0
<1> HIDE DEF r, q
<1>4. Same(r, s, {"trans"})
  BY <1>1 DEF Rewrites
<1>5. r.check = s.check /\ r.path = s.path /\ \A g : On(r, g, x) = On(s, g, x)
  BY <1>4, SameFields DEF On
<1>6. p[x] \in {"none", "answered"} /\ (p[x] = "answered" => s.trans[x].dont_propagate_fw)
  <2>1. p[x] \in {"none", "answered"}
    BY <1>0, Unreferenced
  <2>2. s.trans[x].ref >= Need(p[x], s.trans[x].dont_propagate_fw) + One(x = Null)
    BY <1>0, TransField
  <2>3. Need("answered", FALSE) = 1 /\ One(x = Null) \in Nat
    BY DEF Need, One, ByInitiator, ByTarget, ByQueue
  <2>4. s.trans[x].dont_propagate_fw \in BOOLEAN
    BY <1>0, TransField
  <2>5. ASSUME p[x] = "answered", s.trans[x].dont_propagate_fw = FALSE PROVE FALSE
    <3>1. Need(p[x], s.trans[x].dont_propagate_fw) = 1
      BY <2>3, <2>5
    <3> QED BY <2>2, <2>3, <3>1, <1>0
  <2> QED BY <2>1, <2>4, <2>5
<1>7. Unbegun(s, x)
  BY <1>0, <1>6, TripUnbegun
<1>8. Unbegun(r, x)
  BY <1>5, <1>7 DEF Unbegun
<1>9. AlikeAt(r, s, q, p, x)
  BY <1>3, <1>5, <1>6 DEF AlikeAt, Responding
<1>10. Hopped(r, q, x)
  BY <1>0, <1>1, <1>3, <1>9, RewriteHops
<1> QED BY <1>1, <1>2, <1>4, <1>8, <1>10 DEF Whole, r, q

-----------------------------------------------------------------------------
(* What a checker notes down of x on its hop: the phase v, and the path w. *)
Noted(r, s, h, c) ==
  /\ Same(r, s, {"check"}) /\ r.check \in [Hops -> CheckT] /\ r.check[h] = c
  /\ \A g \in Hops : g # h => r.check[g] = s.check[g]

LEMMA Note ==
  ASSUME NEW s, IsState(s), s.check \in [Hops -> CheckT], NEW h \in Hops, NEW c \in CheckT
  PROVE  Noted([s EXCEPT !.check = [s.check EXCEPT ![h] = c]], s, h, c)
<1> DEFINE v == [s.check EXCEPT ![h] = c]
           r == [s EXCEPT !.check = v]
<1>1. v \in [Hops -> CheckT] /\ v[h] = c /\ \A g \in Hops : g # h => v[g] = s.check[g]
  OBVIOUS
<1> HIDE DEF v
<1>2. Same(r, s, {"check"}) /\ r.check = v
  BY DEF Same, IsState, Fields
<1> HIDE DEF r
<1>3. Noted(r, s, h, c)
  BY <1>1, <1>2 DEF Noted
<1> QED BY <1>3 DEF r, v

LEMMA NoteOne ==
  ASSUME NEW s, IsState(s), s.check \in [Hops -> CheckT], NEW h \in Hops
  PROVE  /\ \A v \in Pointer : Noted([s EXCEPT !.check[h].req = v], s, h, [s.check[h] EXCEPT !.req = v])
         /\ \A v \in Pointer : Noted([s EXCEPT !.check[h].rsp = v], s, h, [s.check[h] EXCEPT !.rsp = v])
         /\ \A x \in Trans, v \in HopPhases :
              Noted([s EXCEPT !.check[h].ph[x] = v], s, h, [s.check[h] EXCEPT !.ph[x] = v])
<1>1. ASSUME NEW v \in Pointer
      PROVE  Noted([s EXCEPT !.check[h].req = v], s, h, [s.check[h] EXCEPT !.req = v])
  <2> DEFINE w == [s.check[h] EXCEPT !.req = v]
  <2>1. [s EXCEPT !.check[h].req = v] = [s EXCEPT !.check = [s.check EXCEPT ![h] = w]]
    OBVIOUS
  <2>2. w \in CheckT
    BY <1>1 DEF CheckT
  <2> HIDE DEF w
  <2>3. Noted([s EXCEPT !.check = [s.check EXCEPT ![h] = w]], s, h, w)
    BY <2>2, Note
  <2> QED BY <2>1, <2>3 DEF w
<1>2. ASSUME NEW v \in Pointer
      PROVE  Noted([s EXCEPT !.check[h].rsp = v], s, h, [s.check[h] EXCEPT !.rsp = v])
  <2> DEFINE w == [s.check[h] EXCEPT !.rsp = v]
  <2>1. [s EXCEPT !.check[h].rsp = v] = [s EXCEPT !.check = [s.check EXCEPT ![h] = w]]
    OBVIOUS
  <2>2. w \in CheckT
    BY <1>2 DEF CheckT
  <2> HIDE DEF w
  <2>3. Noted([s EXCEPT !.check = [s.check EXCEPT ![h] = w]], s, h, w)
    BY <2>2, Note
  <2> QED BY <2>1, <2>3 DEF w
<1>3. ASSUME NEW x \in Trans, NEW v \in HopPhases
      PROVE  Noted([s EXCEPT !.check[h].ph[x] = v], s, h, [s.check[h] EXCEPT !.ph[x] = v])
  <2> DEFINE w == [s.check[h] EXCEPT !.ph[x] = v]
  <2>1. [s EXCEPT !.check[h].ph[x] = v] = [s EXCEPT !.check = [s.check EXCEPT ![h] = w]]
    OBVIOUS
  <2>2. w \in CheckT
    <3>1. s.check[h] \in CheckT
      OBVIOUS
    <3> QED BY <1>3, <3>1 DEF CheckT
  <2> HIDE DEF w
  <2>3. Noted([s EXCEPT !.check = [s.check EXCEPT ![h] = w]], s, h, w)
    BY <2>2, Note
  <2> QED BY <2>1, <2>3 DEF w
<1> QED BY <1>1, <1>2, <1>3

(* The phase of x is v, and the request and the response in progress are   *)
(* y and z.                                                                *)
Phased(r, s, h, x, v, y, z) ==
  /\ Same(r, s, {"check"}) /\ r.check \in [Hops -> CheckT]
  /\ r.check[h].ph[x] = v /\ r.check[h].req = y /\ r.check[h].rsp = z
  /\ \A w \in Trans : w # x => r.check[h].ph[w] = s.check[h].ph[w]
  /\ \A g \in Hops : g # h => r.check[g] = s.check[g]

NoteAll(s, h, x, v, y, z) ==
  [s EXCEPT !.check[h].req = y, !.check[h].rsp = z, !.check[h].ph[x] = v]

LEMMA PhaseNoted ==
  ASSUME NEW s, IsState(s), s.check \in [Hops -> CheckT], NEW h \in Hops, NEW x \in Trans,
         NEW v \in HopPhases
  PROVE  /\ \A y \in Pointer : Phased([s EXCEPT !.check[h].req = y, !.check[h].ph[x] = v],
                                      s, h, x, v, y, s.check[h].rsp)
         /\ \A z \in Pointer : Phased([s EXCEPT !.check[h].rsp = z, !.check[h].ph[x] = v],
                                      s, h, x, v, s.check[h].req, z)
         /\ \A y, z \in Pointer : Phased(NoteAll(s, h, x, v, y, z), s, h, x, v, y, z)
<1>0. s.check[h] \in CheckT
  OBVIOUS
<1>1. ASSUME NEW y \in Pointer
      PROVE  Phased([s EXCEPT !.check[h].req = y, !.check[h].ph[x] = v],
                    s, h, x, v, y, s.check[h].rsp)
  <2> DEFINE a == [s EXCEPT !.check[h].req = y]
             b == [a EXCEPT !.check[h].ph[x] = v]
  <2>1. [s EXCEPT !.check[h].req = y, !.check[h].ph[x] = v] = b
    OBVIOUS
  <2>2. Noted(a, s, h, [s.check[h] EXCEPT !.req = y])
    BY <1>1, NoteOne
  <2> HIDE DEF a
  <2>3. IsState(a) /\ a.check \in [Hops -> CheckT]
    BY <2>2, SameState DEF Noted
  <2>4. Noted(b, a, h, [a.check[h] EXCEPT !.ph[x] = v])
    BY <2>3, NoteOne
  <2> HIDE DEF b
  <2>5. Same(b, s, {"check"})
    BY <2>2, <2>4, SameTwice DEF Noted
  <2>6. Phased(b, s, h, x, v, y, s.check[h].rsp)
    BY <1>0, <2>2, <2>4, <2>5 DEF Noted, Phased, CheckT
  <2> QED BY <2>1, <2>6
<1>2. ASSUME NEW z \in Pointer
      PROVE  Phased([s EXCEPT !.check[h].rsp = z, !.check[h].ph[x] = v],
                    s, h, x, v, s.check[h].req, z)
  <2> DEFINE a == [s EXCEPT !.check[h].rsp = z]
             b == [a EXCEPT !.check[h].ph[x] = v]
  <2>1. [s EXCEPT !.check[h].rsp = z, !.check[h].ph[x] = v] = b
    OBVIOUS
  <2>2. Noted(a, s, h, [s.check[h] EXCEPT !.rsp = z])
    BY <1>2, NoteOne
  <2> HIDE DEF a
  <2>3. IsState(a) /\ a.check \in [Hops -> CheckT]
    BY <2>2, SameState DEF Noted
  <2>4. Noted(b, a, h, [a.check[h] EXCEPT !.ph[x] = v])
    BY <2>3, NoteOne
  <2> HIDE DEF b
  <2>5. Same(b, s, {"check"})
    BY <2>2, <2>4, SameTwice DEF Noted
  <2>6. Phased(b, s, h, x, v, s.check[h].req, z)
    BY <1>0, <2>2, <2>4, <2>5 DEF Noted, Phased, CheckT
  <2> QED BY <2>1, <2>6
<1>3. ASSUME NEW y \in Pointer, NEW z \in Pointer
      PROVE  Phased(NoteAll(s, h, x, v, y, z), s, h, x, v, y, z)
  <2> DEFINE a == [s EXCEPT !.check[h].req = y]
             b == [a EXCEPT !.check[h].rsp = z, !.check[h].ph[x] = v]
  <2>1. NoteAll(s, h, x, v, y, z) = b
    BY DEF NoteAll
  <2>2. Noted(a, s, h, [s.check[h] EXCEPT !.req = y])
    BY <1>3, NoteOne
  <2> HIDE DEF a
  <2>3. IsState(a) /\ a.check \in [Hops -> CheckT] /\ a.check[h].req = y
    BY <1>0, <2>2, SameState DEF Noted, CheckT
  <2> DEFINE c == [a EXCEPT !.check[h].rsp = z]
             d == [c EXCEPT !.check[h].ph[x] = v]
  <2>4. b = d
    OBVIOUS
  <2>5. Noted(c, a, h, [a.check[h] EXCEPT !.rsp = z])
    BY <1>3, <2>3, NoteOne
  <2> HIDE DEF c
  <2>6. IsState(c) /\ c.check \in [Hops -> CheckT]
    BY <2>5, SameState DEF Noted
  <2>7. Noted(d, c, h, [c.check[h] EXCEPT !.ph[x] = v])
    BY <2>6, NoteOne
  <2> HIDE DEF d
  <2>8. Same(d, s, {"check"})
    BY <2>2, <2>5, <2>7, SameTwice DEF Noted
  <2>9. Phased(d, s, h, x, v, y, z)
    BY <1>0, <2>2, <2>5, <2>7, <2>8 DEF Noted, Phased, CheckT
  <2> QED BY <2>1, <2>4, <2>9
<1> QED BY <1>1, <1>2, <1>3

(* The path of x.                                                          *)
Tracked(r, s, x, w) ==
  /\ Same(r, s, {"path"}) /\ r.path \in [Trans -> PathT] /\ r.path[x] = w
  /\ \A y \in Trans : y # x => r.path[y] = s.path[y]

LEMMA Track ==
  ASSUME NEW s, IsState(s), s.path \in [Trans -> PathT], NEW x \in Trans, NEW w \in PathT
  PROVE  Tracked([s EXCEPT !.path[x] = w], s, x, w)
<1> DEFINE v == [s.path EXCEPT ![x] = w]
           r == [s EXCEPT !.path = v]
<1>0. [s EXCEPT !.path[x] = w] = r
  OBVIOUS
<1>1. v \in [Trans -> PathT] /\ v[x] = w /\ \A y \in Trans : y # x => v[y] = s.path[y]
  OBVIOUS
<1> HIDE DEF v
<1>2. Same(r, s, {"path"}) /\ r.path = v
  BY DEF Same, IsState, Fields
<1> HIDE DEF r
<1>3. Tracked(r, s, x, w)
  BY <1>1, <1>2 DEF Tracked
<1> QED BY <1>0, <1>3

Trace(hops, b) == [hops |-> hops, responding |-> b]

LEMMA ShortPaths ==
  ASSUME NEW g, NEW h
  PROVE  /\ Append(<< >>, h) = <<h>> /\ Append(<<g>>, h) = <<g, h>>
         /\ <<h>> # << >> /\ Len(<<h>>) = 1 /\ Len(<<g, h>>) = 2
         /\ SubSeq(<<h>>, 1, 0) = << >> /\ SubSeq(<<g, h>>, 1, 1) = <<g>>
<1> DEFINE S == {g, h}
<1>0. /\ << >> \in Seq(S) /\ <<h>> \in Seq(S) /\ <<g>> \in Seq(S) /\ <<g, h>> \in Seq(S)
      /\ Len(<<h>>) = 1 /\ Len(<<g, h>>) = 2 /\ Len(<<g>>) = 1 /\ Len(<< >>) = 0
      /\ <<h>>[1] = h /\ <<g>>[1] = g /\ <<g, h>>[1] = g /\ <<g, h>>[2] = h
      /\ g \in S /\ h \in S
  OBVIOUS
<1> HIDE DEF S
<1>1. Append(<< >>, h) = <<h>>
  <2> DEFINE q == Append(<< >>, h)
  <2>1. q \in Seq(S) /\ Len(q) = 1 /\ q[1] = h
    BY <1>0, AppendProperties
  <2> HIDE DEF q
  <2>2. \A k \in 1..Len(q) : q[k] = <<h>>[k]
    BY <1>0, <2>1
  <2> QED BY <1>0, <2>1, <2>2, SeqEqual DEF q
<1>2. Append(<<g>>, h) = <<g, h>>
  <2> DEFINE q == Append(<<g>>, h)
  <2>1. q \in Seq(S) /\ Len(q) = 2 /\ q[1] = g /\ q[2] = h
    BY <1>0, AppendProperties
  <2> HIDE DEF q
  <2>2. \A k \in 1..Len(q) : q[k] = <<g, h>>[k]
    BY <1>0, <2>1
  <2> QED BY <1>0, <2>1, <2>2, SeqEqual DEF q
<1>3. <<h>> # << >> /\ Len(<<h>>) = 1 /\ Len(<<g, h>>) = 2
  BY <1>0
<1>4. SubSeq(<<h>>, 1, 0) = << >>
  BY SubSeqEmpty
<1>5. SubSeq(<<g, h>>, 1, 1) = <<g>>
  <2> DEFINE q == SubSeq(<<g, h>>, 1, 1)
  <2>1. q \in Seq(S) /\ Len(q) = 1 /\ q[1] = g
    <3>1. \A k \in 1..1 : <<g, h>>[k] \in S
      BY <1>0
    <3> QED BY <1>0, <3>1, SubSeqProperties
  <2> HIDE DEF q
  <2>2. \A k \in 1..Len(q) : q[k] = <<g>>[k]
    BY <1>0, <2>1
  <2> QED BY <1>0, <2>1, <2>2, SeqEqual DEF q
<1> QED BY <1>1, <1>2, <1>3, <1>4, <1>5

(* A transaction starts on the hop of its initiator or of its target.      *)
LEMMA InitialState ==
  ASSUME NEW s, IsState(s), Checked(s), NEW h \in Hops, NEW x \in Trans,
         s.trans[x].status = "INCOMPLETE", ~s.path[x].responding, NEW g \in Hops,
         (s.path[x].hops = << >> /\ ~(s.trans[x].ref > 1)) \/ s.path[x].hops = <<g>>
  PROVE  LET r == CheckInitialState(s, h, x)
         IN /\ s.path[x].hops = << >> => Tracked(r, s, x, Trace(<<h>>, FALSE))
            /\ s.path[x].hops = <<g>> => Tracked(r, s, x, Trace(<<g, h>>, FALSE))
<1> DEFINE r == CheckInitialState(s, h, x)
           w == Trace(Append(s.path[x].hops, h), FALSE)
<1>1. s.path \in [Trans -> PathT] /\ s.path[x] \in PathT
  BY PathType
<1>2. r = [s EXCEPT !.path[x].hops = Append(s.path[x].hops, h)]
  <2>1. ~(s.trans[x].ref > 1 /\ s.path[x].hops = << >>)
    BY ShortPaths
  <2> QED BY <2>1 DEF CheckInitialState, Report, Require
<1>3. [s EXCEPT !.path[x].hops = Append(s.path[x].hops, h)]
        = [s EXCEPT !.path[x] = [s.path[x] EXCEPT !.hops = Append(s.path[x].hops, h)]]
  OBVIOUS
<1>4. [s.path[x] EXCEPT !.hops = Append(s.path[x].hops, h)] = w /\ w \in PathT
  <2>1. Append(s.path[x].hops, h) \in Seq(Hops)
    BY <1>1 DEF PathT
  <2>2. s.path[x].responding = FALSE
    BY <1>1 DEF PathT
  <2>3. ASSUME NEW P \in PathT, NEW a
        PROVE  [P EXCEPT !.hops = a] = [hops |-> a, responding |-> P.responding]
    BY DEF PathT
  <2>4. [s.path[x] EXCEPT !.hops = Append(s.path[x].hops, h)] = w
    BY <1>1, <2>2, <2>3 DEF Trace
  <2>5. w \in PathT
    BY <2>1 DEF PathT, Trace
  <2> QED BY <2>4, <2>5
<1>5. /\ s.path[x].hops = << >> => w = Trace(<<h>>, FALSE)
      /\ s.path[x].hops = <<g>> => w = Trace(<<g, h>>, FALSE)
  BY ShortPaths
<1> HIDE DEF w, r
<1>6. Tracked([s EXCEPT !.path[x] = w], s, x, w)
  BY <1>1, <1>4, Track
<1>7. r = [s EXCEPT !.path[x] = w]
  BY <1>2, <1>3, <1>4
<1>8. Tracked(r, s, x, w)
  BY <1>6, <1>7
<1> QED BY <1>5, <1>8 DEF r

(* The response leaves the hop.                                            *)
LEMMA ResponsePath ==
  ASSUME NEW s, IsState(s), Checked(s), NEW h \in Hops, NEW x \in Trans, NEW g \in Hops
  PROVE  LET r == CheckResponsePath(s, h, x)
         IN /\ s.path[x].hops = <<h>> => Tracked(r, s, x, Trace(<< >>, FALSE))
            /\ s.path[x].hops = <<g, h>> => Tracked(r, s, x, Trace(<<g>>, TRUE))
<1> DEFINE r == CheckResponsePath(s, h, x)
<1>1. s.path \in [Trans -> PathT] /\ s.path[x] \in PathT
  BY PathType
<1>2. ASSUME s.path[x].hops = <<h>> PROVE Tracked(r, s, x, Trace(<< >>, FALSE))
  <2> DEFINE w == Trace(<< >>, FALSE)
             q == [hops |-> SubSeq(s.path[x].hops, 1, Len(s.path[x].hops) - 1),
                   responding |-> Len(s.path[x].hops) > 1]
  <2>1. q = w
    <3>1. Len(<<h>>) = 1 /\ SubSeq(<<h>>, 1, 0) = << >>
      BY ShortPaths
    <3>2. q = [hops |-> SubSeq(<<h>>, 1, 1 - 1), responding |-> 1 > 1]
      BY <1>2, <3>1
    <3>3. 1 - 1 = 0 /\ 2 - 1 = 1 /\ (1 > 1) = FALSE /\ (2 > 1) = TRUE
      OBVIOUS
    <3> QED BY <3>1, <3>2, <3>3, Zenon DEF Trace
  <2>2. s.path[x].hops # << >> /\ s.path[x].hops[Len(s.path[x].hops)] = h
    BY <1>2, ShortPaths
  <2>3. r = [s EXCEPT !.path[x] = q]
    BY <2>2 DEF CheckResponsePath, Report, Require
  <2>4. w \in PathT
    BY DEF PathT, Trace
  <2> HIDE DEF w, q, r
  <2>5. Tracked([s EXCEPT !.path[x] = w], s, x, w)
    BY <1>1, <2>4, Track
  <2>6. Tracked(r, s, x, w)
    BY <2>1, <2>3, <2>5
  <2> QED BY <2>6 DEF w
<1>3. ASSUME s.path[x].hops = <<g, h>> PROVE Tracked(r, s, x, Trace(<<g>>, TRUE))
  <2> DEFINE w == Trace(<<g>>, TRUE)
             q == [hops |-> SubSeq(s.path[x].hops, 1, Len(s.path[x].hops) - 1),
                   responding |-> Len(s.path[x].hops) > 1]
  <2>1. q = w
    <3>1. Len(<<g, h>>) = 2 /\ SubSeq(<<g, h>>, 1, 1) = <<g>>
      BY ShortPaths
    <3>2. q = [hops |-> SubSeq(<<g, h>>, 1, 2 - 1), responding |-> 2 > 1]
      BY <1>3, <3>1
    <3>3. 1 - 1 = 0 /\ 2 - 1 = 1 /\ (1 > 1) = FALSE /\ (2 > 1) = TRUE
      OBVIOUS
    <3> QED BY <3>1, <3>2, <3>3, Zenon DEF Trace
  <2>2. s.path[x].hops # << >> /\ s.path[x].hops[Len(s.path[x].hops)] = h
    BY <1>3, ShortPaths
  <2>3. r = [s EXCEPT !.path[x] = q]
    BY <2>2 DEF CheckResponsePath, Report, Require
  <2>4. w \in PathT
    BY DEF PathT, Trace
  <2> HIDE DEF w, q, r
  <2>5. Tracked([s EXCEPT !.path[x] = w], s, x, w)
    BY <1>1, <2>4, Track
  <2>6. Tracked(r, s, x, w)
    BY <2>1, <2>3, <2>5
  <2> QED BY <2>6 DEF w
<1> QED BY <1>2, <1>3

(* Both: what the checker of hop h does when x enters the phase v.         *)
Stamped(r, s, h, x, v, w) ==
  /\ Same(r, s, Seen) /\ Checked(r)
  /\ r.check[h].ph[x] = v /\ \A y \in Trans : y # x => r.check[h].ph[y] = s.check[h].ph[y]
  /\ \A g \in Hops : g # h => r.check[g] = s.check[g]
  /\ r.path[x] = w /\ \A y \in Trans : y # x => r.path[y] = s.path[y]

LEMMA StampNoted ==
  ASSUME NEW s, Checked(s), NEW h \in Hops, NEW x \in Trans, NEW r, NEW v \in HopPhases,
         NEW y, NEW z, Phased(r, s, h, x, v, y, z),
         y # Null => y \in Trans /\ r.check[h].ph[y] = "BEGIN_REQ",
         z # Null => z \in Trans /\ r.check[h].ph[z] = "BEGIN_RESP"
  PROVE  Stamped(r, s, h, x, v, s.path[x])
<1>1. r.path = s.path /\ r.faults = s.faults /\ Same(r, s, {"check"})
  BY SameFields DEF Phased
<1>2. Same(r, s, Seen)
  BY <1>1, SameMore DEF Seen
<1>3. Checked(r)
  <2>1. r.overdue = s.overdue
    BY <1>1, SameFields
  <2>2. Excused(r)
    BY <1>1, <2>1, KeepExcused DEF Checked
  <2> QED BY <1>1, <2>2 DEF Checked, Phased
<1> QED BY <1>1, <1>2, <1>3 DEF Phased, Stamped

LEMMA StampTracked ==
  ASSUME NEW s, Checked(s), NEW h \in Hops, NEW x \in Trans, NEW r, NEW w, Tracked(r, s, x, w)
  PROVE  /\ Checked(r) /\ IsState(r) /\ r.check = s.check /\ r.faults = s.faults
         /\ r.trans = s.trans /\ r.overdue = s.overdue
<1>1. r.check = s.check /\ r.faults = s.faults /\ r.trans = s.trans /\ r.overdue = s.overdue
  BY SameFields DEF Tracked
<1>2. Excused(r)
  BY <1>1, KeepExcused DEF Checked
<1> QED BY <1>1, <1>2, SameState DEF Checked, Tracked

LEMMA StampBoth ==
  ASSUME NEW s, NEW h \in Hops, NEW x \in Trans, NEW a, NEW r, NEW v, NEW w, NEW u,
         \/ Tracked(a, s, x, w) /\ Stamped(r, a, h, x, v, a.path[x])
         \/ Stamped(a, s, h, x, v, u) /\ Tracked(r, a, x, w) /\ Checked(r)
  PROVE  Stamped(r, s, h, x, v, w)
<1>1. Same(r, s, Seen)
  <2>1. \A c, d : Same(c, d, {"path"}) => Same(c, d, Seen)
    BY SameMore DEF Seen
  <2>2. Same(r, a, Seen) /\ Same(a, s, Seen)
    BY <2>1 DEF Tracked, Stamped
  <2> QED BY <2>2, SameTwice
<1>2. CASE Tracked(a, s, x, w) /\ Stamped(r, a, h, x, v, a.path[x])
  <2>1. a.check = s.check
    BY <1>2, SameFields DEF Tracked
  <2> QED BY <1>1, <1>2, <2>1 DEF Tracked, Stamped
<1>3. CASE Stamped(a, s, h, x, v, u) /\ Tracked(r, a, x, w) /\ Checked(r)
  <2>1. r.check = a.check
    BY <1>3, SameFields DEF Tracked
  <2> QED BY <1>1, <1>3, <2>1 DEF Tracked, Stamped
<1> QED BY <1>2, <1>3

-----------------------------------------------------------------------------
(* The checkers, one lemma for each event that x has on hop h.             *)
LEMMA StampBegin ==
  ASSUME NEW s, IsState(s), Checked(s), NEW h \in Hops, NEW x \in Trans, Null \notin Trans,
         s.trans[x].ref # 0, s.trans[x].status = "INCOMPLETE", ~s.path[x].responding,
         NEW g \in Hops,
         (s.path[x].hops = << >> /\ ~(s.trans[x].ref > 1)) \/ s.path[x].hops = <<g>>,
         On(s, h, x) = "idle", s.check[h].req = Null \/ h \in s.overdue.inits
  PROVE  LET r == FwPre(s, h, x, "BEGIN_REQ")
         IN /\ s.path[x].hops = << >> => Stamped(r, s, h, x, "BEGIN_REQ", Trace(<<h>>, FALSE))
            /\ s.path[x].hops = <<g>> => Stamped(r, s, h, x, "BEGIN_REQ", Trace(<<g, h>>, FALSE))
<1> DEFINE a == CheckInitialState(s, h, x)
           d == Report(a, a.check[h].req # Null, "7.2.4 b")
           b == [d EXCEPT !.check[h].req = x, !.check[h].ph[x] = "BEGIN_REQ"]
           r == FwPre(s, h, x, "BEGIN_REQ")
           v == "BEGIN_REQ"
<1>1. /\ s.path[x].hops = << >> => Tracked(a, s, x, Trace(<<h>>, FALSE))
      /\ s.path[x].hops = <<g>> => Tracked(a, s, x, Trace(<<g, h>>, FALSE))
  BY InitialState
<1>2. s.check[h].ph[x] \in {Unused, "END_RESP"}
  BY OnType
<1> HIDE DEF a
<1>3. \A w : Tracked(a, s, x, w) =>
        /\ Checked(a) /\ IsState(a) /\ a.check = s.check /\ a.faults = s.faults
        /\ a.trans = s.trans /\ a.overdue = s.overdue
  BY StampTracked
<1>4. Checked(a) /\ IsState(a) /\ a.check = s.check /\ a.overdue = s.overdue
  BY <1>1, <1>3
<1>5. r = b
  <2>1. Report(s, s.trans[x].ref = 0, "6.5 s") = s
    BY DEF Report, Require
  <2>2. Report(a, a.check[h].ph[x] \in {"BEGIN_REQ", "END_REQ", "BEGIN_RESP"}, "7.2.3 i") = a
    BY <1>2, <1>4 DEF Report, Require, Unused
  <2>4. Report(a, s.check[h].ph[x] \in {"BEGIN_REQ", "END_REQ", "BEGIN_RESP"}, "7.2.3 i") = a
    BY <1>4, <2>2
  <2>5. Report(a, s.check[h].req # Null, "7.2.4 b") = d
    BY <1>4 DEF d
  <2> QED BY <2>1, <2>4, <2>5, Zenon DEF FwPre, a
<1>d. /\ Same(d, a, {"faults"}) /\ Checked(d) /\ IsState(d) /\ d.check = a.check
      /\ d.path = a.path
  <2>1. Same(d, a, {"faults"}) /\ IsState(d)
    BY <1>4, Reported, SameState DEF Report
  <2>2. d.check = a.check /\ d.path = a.path /\ d.overdue = a.overdue
    <3>1. "check" \notin {"faults"} /\ "path" \notin {"faults"} /\ "overdue" \notin {"faults"}
      OBVIOUS
    <3> HIDE DEF d
    <3> QED BY <2>1, <3>1, SameFields
  <2>3. d = a \/ (d.faults = a.faults \cup {"7.2.4 b"} /\ h \in s.overdue.inits)
    BY <1>4 DEF Report, Require, IsState, Fields
  <2>4. a.overdue.inits # {} \/ d = a
    BY <1>4, <2>3
  <2> HIDE DEF d
  <2> QED BY ZenonT(40), <1>4, <2>1, <2>2, <2>3, <2>4 DEF Checked, Excused
<1> HIDE DEF d
<1>6. Stamped(b, d, h, x, v, d.path[x])
  <2>1. d.check \in [Hops -> CheckT] /\ d.check[h] \in CheckT /\ v \in HopPhases /\ x \in Pointer
    BY <1>d DEF Checked, HopPhases, Pointer
  <2> HIDE DEF v
  <2>2. \A y \in Pointer : Phased([d EXCEPT !.check[h].req = y, !.check[h].ph[x] = v],
                                  d, h, x, v, y, d.check[h].rsp)
    BY <1>d, <2>1, PhaseNoted
  <2>3. Phased([d EXCEPT !.check[h].req = x, !.check[h].ph[x] = v], d, h, x, v, x, d.check[h].rsp)
    BY <2>1, <2>2
  <2>4. Phased(b, d, h, x, v, x, d.check[h].rsp)
    BY <2>3 DEF v
  <2> HIDE DEF b
  <2>5. ASSUME d.check[h].rsp # Null
        PROVE  d.check[h].rsp \in Trans /\ b.check[h].ph[d.check[h].rsp] = "BEGIN_RESP"
    <3>1. d.check[h].rsp \in Trans
      BY <2>1, <2>5 DEF CheckT, Pointer
    <3>2. d.check[h].ph[d.check[h].rsp] = "BEGIN_RESP"
      BY <1>d, <2>5 DEF Checked
    <3>3. d.check[h].rsp # x
      BY <1>2, <1>4, <1>d, <3>2 DEF Unused
    <3> QED BY <2>4, <3>1, <3>2, <3>3 DEF Phased
  <2>6. b.check[h].ph[x] = "BEGIN_REQ"
    BY <2>4 DEF Phased, v
  <2> QED BY <1>d, <2>1, <2>4, <2>5, <2>6, StampNoted
<1>e. Stamped(b, a, h, x, v, a.path[x])
  <2>1. Same(b, a, Seen)
    <3>1. Same(d, a, Seen)
      BY <1>d, SameMore DEF Seen
    <3>2. Same(b, d, Seen)
      BY <1>6 DEF Stamped
    <3> QED BY <3>1, <3>2, SameTwice
  <2> QED BY <1>6, <1>d, <2>1 DEF Stamped
<1>7. \A w : Tracked(a, s, x, w) => Stamped(b, s, h, x, v, w)
  BY <1>e, StampBoth
<1> HIDE DEF b, r
<1>8. \A w : Tracked(a, s, x, w) => Stamped(r, s, h, x, v, w)
  BY <1>5, <1>7
<1> QED BY <1>1, <1>8 DEF r

LEMMA StampEnd ==
  ASSUME NEW s, IsState(s), Checked(s), NEW h \in Hops, NEW x \in Trans,
         s.trans[x].ref # 0, On(s, h, x) = "BEGIN_RESP"
  PROVE  Stamped(FwPre(s, h, x, "END_RESP"), s, h, x, "END_RESP", s.path[x])
<1> DEFINE b == [s EXCEPT !.check[h].rsp = Null, !.check[h].ph[x] = "END_RESP"]
           r == FwPre(s, h, x, "END_RESP")
           v == "END_RESP"
           n == Null
<1>1. s.check[h].ph[x] = "BEGIN_RESP"
  BY OnType
<1>2. r = b
  BY <1>1 DEF FwPre, Report, Require
<1>3. /\ s.check \in [Hops -> CheckT] /\ s.check[h] \in CheckT /\ v \in HopPhases
      /\ n \in Pointer /\ n = Null
  BY DEF Checked, HopPhases, Pointer
<1> HIDE DEF v, n
<1>4. \A z \in Pointer : Phased([s EXCEPT !.check[h].rsp = z, !.check[h].ph[x] = v],
                                s, h, x, v, s.check[h].req, z)
  BY <1>3, PhaseNoted
<1>5. Phased([s EXCEPT !.check[h].rsp = n, !.check[h].ph[x] = v], s, h, x, v, s.check[h].req, n)
  BY <1>3, <1>4
<1>6. Phased(b, s, h, x, v, s.check[h].req, n)
  BY <1>5 DEF v, n
<1> HIDE DEF b, r
<1>7. ASSUME s.check[h].req # Null
      PROVE  s.check[h].req \in Trans /\ b.check[h].ph[s.check[h].req] = "BEGIN_REQ"
  <2>1. s.check[h].req \in Trans
    BY <1>3, <1>7 DEF CheckT, Pointer
  <2>2. s.check[h].ph[s.check[h].req] = "BEGIN_REQ"
    BY <1>7 DEF Checked
  <2>3. s.check[h].req # x
    BY <1>1, <2>2
  <2> QED BY <1>6, <2>1, <2>2, <2>3 DEF Phased
<1>8. Stamped(b, s, h, x, v, s.path[x])
  BY <1>3, <1>6, <1>7, StampNoted
<1> QED BY <1>2, <1>8 DEF r, v

LEMMA StampEndReq ==
  ASSUME NEW s, IsState(s), Checked(s), NEW h \in Hops, NEW x \in Trans,
         On(s, h, x) = "BEGIN_REQ"
  PROVE  Stamped(ResponseChecks(s, h, x, "END_REQ"), s, h, x, "END_REQ", s.path[x])
<1> DEFINE b == [s EXCEPT !.check[h].req = Null, !.check[h].ph[x] = "END_REQ"]
           r == ResponseChecks(s, h, x, "END_REQ")
           v == "END_REQ"
           n == Null
<1>1. s.check[h].ph[x] = "BEGIN_REQ"
  BY OnType
<1>2. r = b
  BY <1>1 DEF ResponseChecks, Report, Require
<1>3. /\ s.check \in [Hops -> CheckT] /\ s.check[h] \in CheckT /\ v \in HopPhases
      /\ n \in Pointer /\ n = Null
  BY DEF Checked, HopPhases, Pointer
<1> HIDE DEF v, n
<1>4. \A y \in Pointer : Phased([s EXCEPT !.check[h].req = y, !.check[h].ph[x] = v],
                                s, h, x, v, y, s.check[h].rsp)
  BY <1>3, PhaseNoted
<1>5. Phased([s EXCEPT !.check[h].req = n, !.check[h].ph[x] = v], s, h, x, v, n, s.check[h].rsp)
  BY <1>3, <1>4
<1>6. Phased(b, s, h, x, v, n, s.check[h].rsp)
  BY <1>5 DEF v, n
<1> HIDE DEF b, r
<1>7. ASSUME s.check[h].rsp # Null
      PROVE  s.check[h].rsp \in Trans /\ b.check[h].ph[s.check[h].rsp] = "BEGIN_RESP"
  <2>1. s.check[h].rsp \in Trans
    BY <1>3, <1>7 DEF CheckT, Pointer
  <2>2. s.check[h].ph[s.check[h].rsp] = "BEGIN_RESP"
    BY <1>7 DEF Checked
  <2>3. s.check[h].rsp # x
    BY <1>1, <2>2
  <2> QED BY <1>6, <2>1, <2>2, <2>3 DEF Phased
<1>8. Stamped(b, s, h, x, v, s.path[x])
  BY <1>3, <1>6, <1>7, StampNoted
<1> QED BY <1>2, <1>8 DEF r, v

LEMMA StampBeginResp ==
  ASSUME NEW s, IsState(s), Checked(s), NEW h \in Hops, NEW x \in Trans, Null \notin Trans,
         On(s, h, x) \in {"BEGIN_REQ", "END_REQ"}, s.check[h].rsp = Null, NEW g \in Hops
  PROVE  LET r == ResponseChecks(s, h, x, "BEGIN_RESP")
         IN /\ s.path[x].hops = <<h>> => Stamped(r, s, h, x, "BEGIN_RESP", Trace(<< >>, FALSE))
            /\ s.path[x].hops = <<g, h>> => Stamped(r, s, h, x, "BEGIN_RESP", Trace(<<g>>, TRUE))
<1> DEFINE m == IF s.check[h].req = x THEN Null ELSE s.check[h].req
           b == NoteAll(s, h, x, "BEGIN_RESP", m, x)
           r == ResponseChecks(s, h, x, "BEGIN_RESP")
           v == "BEGIN_RESP"
<1>1. s.check[h].ph[x] \in {"BEGIN_REQ", "END_REQ"}
  BY OnType
<1>2. r = CheckResponsePath(b, h, x)
  BY <1>1 DEF ResponseChecks, Report, Require, NoteAll
<1>3. /\ s.check \in [Hops -> CheckT] /\ s.check[h] \in CheckT /\ v \in HopPhases
      /\ m \in Pointer /\ x \in Pointer /\ v = "BEGIN_RESP"
  BY DEF Checked, HopPhases, Pointer, CheckT
<1>4. m # Null => m = s.check[h].req /\ m # x
  OBVIOUS
<1> HIDE DEF v, m
<1>5. \A y, z \in Pointer : Phased(NoteAll(s, h, x, v, y, z), s, h, x, v, y, z)
  BY <1>3, PhaseNoted
<1>6. Phased(NoteAll(s, h, x, v, m, x), s, h, x, v, m, x)
  BY <1>3, <1>5
<1>7. Phased(b, s, h, x, v, m, x)
  BY <1>6 DEF v
<1> HIDE DEF b, r
<1>8. ASSUME m # Null
      PROVE  m \in Trans /\ b.check[h].ph[m] = "BEGIN_REQ"
  <2>1. m \in Trans
    BY <1>3, <1>8 DEF Pointer
  <2>2. s.check[h].ph[m] = "BEGIN_REQ"
    BY <1>4, <1>8 DEF Checked
  <2> QED BY <1>4, <1>7, <1>8, <2>1, <2>2 DEF Phased
<1>9. Stamped(b, s, h, x, v, s.path[x])
  <2>1. b.check[h].ph[x] = "BEGIN_RESP"
    BY <1>3, <1>7 DEF Phased
  <2> QED BY <1>3, <1>7, <1>8, <2>1, StampNoted
<1>10. IsState(b) /\ Checked(b) /\ b.path[x] = s.path[x]
  BY <1>9, SameState DEF Stamped
<1> DEFINE c == CheckResponsePath(b, h, x)
<1>11. /\ s.path[x].hops = <<h>> => Tracked(c, b, x, Trace(<< >>, FALSE))
       /\ s.path[x].hops = <<g, h>> => Tracked(c, b, x, Trace(<<g>>, TRUE))
  BY <1>10, ResponsePath
<1> HIDE DEF c
<1>12. ASSUME NEW w, Tracked(c, b, x, w) PROVE Stamped(c, s, h, x, v, w)
  <2>1. Checked(c)
    BY <1>10, <1>12, StampTracked
  <2> QED BY <1>9, <1>12, <2>1, StampBoth
<1> QED BY <1>2, <1>3, <1>11, <1>12 DEF r, c

(* TLM_COMPLETED: the checker forgets the transaction.                     *)
Forgotten(s, h, x) == [s EXCEPT !.check[h].req = Null, !.check[h].ph[x] = Unused]

LEMMA StampForgotten ==
  ASSUME NEW s, IsState(s), Checked(s), NEW h \in Hops, NEW x \in Trans,
         On(s, h, x) # "BEGIN_RESP"
  PROVE  Stamped(Forgotten(s, h, x), s, h, x, Unused, s.path[x])
<1> DEFINE b == Forgotten(s, h, x)
           n == Null
<1>1. s.check[h].ph[x] # "BEGIN_RESP"
  BY OnType
<1>3. /\ s.check \in [Hops -> CheckT] /\ s.check[h] \in CheckT /\ Unused \in HopPhases
      /\ n \in Pointer /\ n = Null
  BY DEF Checked, HopPhases, Pointer
<1> HIDE DEF n
<1>4. \A y \in Pointer : Phased([s EXCEPT !.check[h].req = y, !.check[h].ph[x] = Unused],
                                s, h, x, Unused, y, s.check[h].rsp)
  BY <1>3, PhaseNoted
<1>5. Phased([s EXCEPT !.check[h].req = n, !.check[h].ph[x] = Unused],
             s, h, x, Unused, n, s.check[h].rsp)
  BY <1>3, <1>4
<1>6. Phased(b, s, h, x, Unused, n, s.check[h].rsp)
  BY <1>5 DEF n, Forgotten
<1> HIDE DEF b
<1>7. ASSUME s.check[h].rsp # Null
      PROVE  s.check[h].rsp \in Trans /\ b.check[h].ph[s.check[h].rsp] = "BEGIN_RESP"
  <2>1. s.check[h].rsp \in Trans
    BY <1>3, <1>7 DEF CheckT, Pointer
  <2>2. s.check[h].ph[s.check[h].rsp] = "BEGIN_RESP"
    BY <1>7 DEF Checked
  <2>3. s.check[h].rsp # x
    BY <1>1, <2>2
  <2> QED BY <1>6, <2>1, <2>2, <2>3 DEF Phased
<1> QED BY <1>3, <1>6, <1>7, StampNoted DEF b

(* The request is completed, and the response has left the hop with it.    *)
LEMMA StampCompleted ==
  ASSUME NEW s, IsState(s), Checked(s), NEW h \in Hops, NEW x \in Trans,
         On(s, h, x) = "BEGIN_REQ", NEW g \in Hops
  PROVE  LET r == Forgotten(CheckResponsePath(s, h, x), h, x)
         IN /\ s.path[x].hops = <<h>> => Stamped(r, s, h, x, Unused, Trace(<< >>, FALSE))
            /\ s.path[x].hops = <<g, h>> => Stamped(r, s, h, x, Unused, Trace(<<g>>, TRUE))
<1> DEFINE c == CheckResponsePath(s, h, x)
           r == Forgotten(c, h, x)
<1>1. /\ s.path[x].hops = <<h>> => Tracked(c, s, x, Trace(<< >>, FALSE))
      /\ s.path[x].hops = <<g, h>> => Tracked(c, s, x, Trace(<<g>>, TRUE))
  BY ResponsePath
<1> HIDE DEF c
<1>2. ASSUME NEW w, Tracked(c, s, x, w) PROVE Stamped(r, s, h, x, Unused, w)
  <2>1. Checked(c) /\ IsState(c) /\ c.check = s.check
    BY <1>2, StampTracked
  <2>2. On(c, h, x) # "BEGIN_RESP"
    BY <2>1 DEF On
  <2>3. Stamped(r, c, h, x, Unused, c.path[x])
    BY <2>1, <2>2, StampForgotten
  <2> QED BY <1>2, <2>3, StampBoth
<1> HIDE DEF r
<1>3. /\ s.path[x].hops = <<h>> => Stamped(r, s, h, x, Unused, Trace(<< >>, FALSE))
      /\ s.path[x].hops = <<g, h>> => Stamped(r, s, h, x, Unused, Trace(<<g>>, TRUE))
  BY <1>1, <1>2
<1> QED BY <1>3 DEF r, c

(* The response is completed.                                              *)
LEMMA StampOver ==
  ASSUME NEW s, IsState(s), Checked(s), NEW h \in Hops, NEW x \in Trans,
         On(s, h, x) = "BEGIN_RESP"
  PROVE  Stamped([s EXCEPT !.check[h].rsp = Null, !.check[h].ph[x] = Unused], s, h, x, Unused,
                 s.path[x])
<1> DEFINE b == [s EXCEPT !.check[h].rsp = Null, !.check[h].ph[x] = Unused]
           n == Null
<1>1. s.check[h].ph[x] = "BEGIN_RESP"
  BY OnType
<1>3. /\ s.check \in [Hops -> CheckT] /\ s.check[h] \in CheckT /\ Unused \in HopPhases
      /\ n \in Pointer /\ n = Null
  BY DEF Checked, HopPhases, Pointer
<1> HIDE DEF n
<1>4. \A z \in Pointer : Phased([s EXCEPT !.check[h].rsp = z, !.check[h].ph[x] = Unused],
                                s, h, x, Unused, s.check[h].req, z)
  BY <1>3, PhaseNoted
<1>5. Phased([s EXCEPT !.check[h].rsp = n, !.check[h].ph[x] = Unused],
             s, h, x, Unused, s.check[h].req, n)
  BY <1>3, <1>4
<1>6. Phased(b, s, h, x, Unused, s.check[h].req, n)
  BY <1>5 DEF n
<1> HIDE DEF b
<1>7. ASSUME s.check[h].req # Null
      PROVE  s.check[h].req \in Trans /\ b.check[h].ph[s.check[h].req] = "BEGIN_REQ"
  <2>1. s.check[h].req \in Trans
    BY <1>3, <1>7 DEF CheckT, Pointer
  <2>2. s.check[h].ph[s.check[h].req] = "BEGIN_REQ"
    BY <1>7 DEF Checked
  <2>3. s.check[h].req # x
    BY <1>1, <2>2
  <2> QED BY <1>6, <2>1, <2>2, <2>3 DEF Phased
<1> QED BY <1>3, <1>6, <1>7, StampNoted DEF b

-----------------------------------------------------------------------------
(* No end of the request of x is too late for an initiator.                *)
InTime(s, h, x) ==
  h \in s.overdue.inits
    \/ \A e \in DOMAIN s.overdue.entries : ~(e.at = h /\ e.trans = x)

LEMMA EndsInTime ==
  ASSUME NEW s, Ends(s), NEW h, NEW x,
         On(s, h, x) \in {"idle", "BEGIN_REQ"} \/ h \notin InitsA
  PROVE  InTime(s, h, x)
BY DEF Ends, OverdueEnds, InTime

(* What x may enter: the components have noted it down.                    *)
MayStamp(s, p, h, x, v) ==
  /\ h \in Inits =>
       /\ v = "BEGIN_REQ" => s.init[h].req = x
       /\ v = "BEGIN_RESP" => s.rsp[h] = x /\ <<"end_rsp", h>> \notin s.runnable
       /\ v # "END_REQ" => On(s, h, x) # "END_REQ" \/ p[x] = "served"
       /\ v \in {"END_REQ", "BEGIN_RESP"} \/ InTime(s, h, x)
  /\ h \in Targets => (v = "BEGIN_REQ" => s.req[h] = x /\ <<"end_req", h>> \notin s.runnable)

(* At a target.                                                            *)
MayRespond(s, p, h, x, v) ==
  h \in Targets =>
    /\ v = "BEGIN_RESP" =>
         s.targ[h].response_in_progress /\ \A y \in Trans : Responding(s, p, h, y) => y = x
    /\ v # "BEGIN_RESP" /\ On(s, h, x) = "BEGIN_RESP" =>
         \/ s.targ[h].type \notin {"A", "B"}
         \/ s.trans[x].target = h /\ p[x] = "answered" /\ ~s.trans[x].dont_propagate_fw

(* All but what is said of the responses of the targets.                   *)
Hopping(s, p, x) ==
  Checked(s) /\ Trips(s, p, x) /\ Asked(s) /\ Answered(s) /\ Requested(s) /\ Ends(s)

LEMMA StampOn ==
  ASSUME NEW s, NEW r, NEW h \in Hops, NEW x \in Trans, NEW v, NEW w, Stamped(r, s, h, x, v, w)
  PROVE  /\ On(r, h, x) = IF v \in {Unused, "END_RESP"} THEN "idle" ELSE v
         /\ \A g \in Hops, y \in Trans : g # h \/ y # x => On(r, g, y) = On(s, g, y)
<1>1. /\ r.check[h].ph[x] = v /\ \A y \in Trans : y # x => r.check[h].ph[y] = s.check[h].ph[y]
      /\ \A g \in Hops : g # h => r.check[g] = s.check[g]
  BY DEF Stamped
<1> QED BY <1>1 DEF On

LEMMA StampParts ==
  ASSUME NEW s, NEW p, NEW k, NEW L, Sound(s, p, k, L), NEW x \in Trans, Hopping(s, p, x),
         NEW h \in Hops, NEW v, NEW w, NEW r, Stamped(r, s, h, x, v, w), MayStamp(s, p, h, x, v)
  PROVE  Hopping(r, p, x) /\ Sound(r, p, k, L)
<1>0. Same(r, s, Seen) /\ Checked(r) /\ \A y \in Trans : y # x => r.path[y] = s.path[y]
  BY DEF Stamped
<1>1. /\ r.init = s.init /\ r.targ = s.targ /\ r.req = s.req /\ r.rsp = s.rsp
      /\ r.trans = s.trans /\ r.peq = s.peq /\ r.runnable = s.runnable /\ r.overdue = s.overdue
  BY <1>0, SameFields DEF Seen
<1>2. /\ On(r, h, x) = IF v \in {Unused, "END_RESP"} THEN "idle" ELSE v
      /\ \A g \in Hops, y \in Trans : g # h \/ y # x => On(r, g, y) = On(s, g, y)
  BY StampOn
<1>3. Sound(r, p, k, L)
  BY <1>0, ObservedSound
<1>4. On(r, h, x) \in {"BEGIN_REQ", "END_REQ", "BEGIN_RESP"} => v = On(r, h, x)
  BY <1>2
<1>5. Asked(r)
  BY <1>1, <1>2, <1>4, Apart DEF Asked, Hopping, MayStamp
<1>6. Answered(r)
  <2>1. ASSUME NEW i \in Inits, NEW y \in Trans, On(r, i, y) = "BEGIN_RESP"
        PROVE  s.rsp[i] = y /\ <<"end_rsp", i>> \notin s.runnable
    <3>1. i \in Hops
      BY Apart
    <3>2. CASE i = h /\ y = x
      BY <1>4, <2>1, <3>2, Apart DEF MayStamp
    <3>3. CASE ~(i = h /\ y = x)
      <4>1. On(s, i, y) = "BEGIN_RESP"
        BY <1>2, <2>1, <3>1, <3>3
      <4> QED BY <4>1 DEF Hopping, Answered
    <3> QED BY <3>2, <3>3
  <2> QED BY ZenonT(40), <1>1, <2>1 DEF Answered, Hopping
<1>7. Requested(r)
  <2>1. ASSUME NEW i \in Targets, NEW y \in Trans, On(r, i, y) = "BEGIN_REQ"
        PROVE  s.req[i] = y /\ <<"end_req", i>> \notin s.runnable
    <3>1. i \in Hops
      BY Apart
    <3>2. CASE i = h /\ y = x
      BY <1>4, <2>1, <3>2, Apart DEF MayStamp
    <3>3. CASE ~(i = h /\ y = x)
      <4>1. On(s, i, y) = "BEGIN_REQ"
        BY <1>2, <2>1, <3>1, <3>3
      <4> QED BY <4>1 DEF Hopping, Requested
    <3> QED BY <3>2, <3>3
  <2> QED BY ZenonT(40), <1>1, <2>1 DEF Requested, Hopping
<1>8. Trips(r, p, x)
  <2>1. ASSUME NEW y \in Trans, y # x PROVE Trip(r, p, y)
    <3>1. Trip(s, p, y) /\ r.path[y] = s.path[y]
      BY <1>0, <2>1 DEF Hopping, Trips
    <3>2. s.trans[y].init \in Hops /\ s.trans[y].target \in Hops
      BY TransField, Apart
    <3>3. \A g \in Hops : On(r, g, y) = On(s, g, y)
      BY <1>2, <2>1
    <3> QED BY <1>1, <3>1, <3>2, <3>3 DEF Trip, Way
  <2> QED BY <2>1 DEF Trips
<1>9. PostedEnds(r)
  <2>1. ASSUME NEW e \in DOMAIN r.peq, e.phase = "END_REQ", e.at \notin r.overdue.inits
        PROVE  /\ r.peq[e] = 1 /\ e \notin DOMAIN r.overdue.entries
               /\ r.init[e.at].req = e.trans /\ On(r, e.at, e.trans) = "END_REQ"
    <3>1. /\ s.peq[e] = 1 /\ s.init[e.at].req = e.trans /\ On(s, e.at, e.trans) = "END_REQ"
          /\ e \notin DOMAIN s.overdue.entries
      BY <1>1, <2>1 DEF Hopping, Ends, PostedEnds
    <3>2. e \in Entry /\ e.at \in Inits /\ p[e.trans] \in {"accepted", "internal"}
      BY <1>1, <2>1, SoundParts DEF Posted, Typed
    <3>3. e.at \in Hops /\ e.trans \in Trans
      BY <3>2 DEF Entry
    <3>4. CASE e.at = h /\ e.trans = x
      <4>1. v = "END_REQ"
        BY <3>1, <3>2, <3>4 DEF MayStamp
      <4> QED BY <1>1, <1>2, <3>1, <3>4, <4>1 DEF Unused
    <3>5. CASE ~(e.at = h /\ e.trans = x)
      BY <1>1, <1>2, <3>1, <3>3, <3>5
    <3> QED BY <3>4, <3>5
  <2> QED BY <2>1 DEF PostedEnds
<1>10. OverdueEnds(r)
  <2>1. ASSUME NEW e \in DOMAIN r.overdue.entries, e.at \notin r.overdue.inits
        PROVE  /\ e.at \in InitsA /\ r.overdue.entries[e] = 1
               /\ r.init[e.at].req = e.trans /\ On(r, e.at, e.trans) \in {"END_REQ", "BEGIN_RESP"}
    <3>1. /\ e.at \in InitsA /\ s.overdue.entries[e] = 1 /\ s.init[e.at].req = e.trans
          /\ On(s, e.at, e.trans) \in {"END_REQ", "BEGIN_RESP"}
      BY <1>1, <2>1 DEF Hopping, Ends, OverdueEnds
    <3>2. e \in Entry
      <4>1. OverdueTyped(s.overdue)
        BY SoundParts DEF Typed
      <4> QED BY <1>1, <2>1, <4>1 DEF OverdueTyped
    <3>3. e.at \in Hops /\ e.trans \in Trans
      BY <3>2 DEF Entry
    <3>4. CASE e.at = h /\ e.trans = x
      <4>1. v \in {"END_REQ", "BEGIN_RESP"}
        BY <1>1, <2>1, <3>1, <3>4, Apart DEF MayStamp, InTime, Inits
      <4> QED BY <1>1, <1>2, <3>1, <3>4, <4>1 DEF Unused
    <3>5. CASE ~(e.at = h /\ e.trans = x)
      BY <1>1, <1>2, <3>1, <3>3, <3>5
    <3> QED BY <3>4, <3>5
  <2> QED BY <2>1 DEF OverdueEnds
<1>11. InOrder(r)
  BY <1>1 DEF Hopping, Ends, InOrder
<1> QED BY <1>0, <1>3, <1>5, <1>6, <1>7, <1>8, <1>9, <1>10, <1>11 DEF Hopping, Ends

LEMMA StampHops ==
  ASSUME NEW s, NEW p, NEW k, NEW L, NEW x \in Trans, Whole(s, p, k, L, x),
         NEW h \in Hops, NEW v, NEW w, NEW r, Stamped(r, s, h, x, v, w),
         MayStamp(s, p, h, x, v), MayRespond(s, p, h, x, v)
  PROVE  Whole(r, p, k, L, x)
<1>1. Hopping(r, p, x) /\ Sound(r, p, k, L)
  BY WholeParts, StampParts DEF Hopping
<1>2. Responses(r, p)
  <2>1. r.targ = s.targ /\ r.trans = s.trans /\ r.runnable = s.runnable
    BY SameFields DEF Stamped, Seen
  <2>2. /\ On(r, h, x) = IF v \in {Unused, "END_RESP"} THEN "idle" ELSE v
        /\ \A g \in Hops, y \in Trans : g # h \/ y # x => On(r, g, y) = On(s, g, y)
    BY StampOn
  <2>3. Responses(s, p)
    BY WholeParts
  <2>4. ASSUME NEW t \in Targets
        PROVE  /\ \A y \in Trans : Responding(r, p, t, y) =>
                    /\ r.targ[t].response_in_progress
                    /\ \A z \in Trans : Responding(r, p, t, z) => z = y
               /\ r.targ[t].response_in_progress /\ r.targ[t].type \in {"A", "B"} =>
                    \E y \in Trans : Responding(r, p, t, y)
               /\ r.targ[t].response_in_progress => r.targ[t].type # "E"
               /\ <<"send_rsp", t>> \in r.runnable => ~r.targ[t].response_in_progress
    <3>0. t \in Hops
      BY Apart
    <3>1. CASE t = h /\ v = "BEGIN_RESP"
      <4>1. s.targ[t].response_in_progress /\ \A y \in Trans : Responding(s, p, t, y) => y = x
        BY <3>1 DEF MayRespond
      <4>2. \A y \in Trans : Responding(r, p, t, y) => y = x
        BY <2>1, <2>2, <3>0, <3>1, <4>1 DEF Responding
      <4>3. Responding(r, p, t, x)
        BY <2>2, <3>1 DEF Responding, Unused
      <4> QED BY <2>1, <2>3, <4>1, <4>2, <4>3 DEF Responses
    <3>2. CASE ~(t = h /\ v = "BEGIN_RESP")
      <4>1. \A y \in Trans : Responding(r, p, t, y) => Responding(s, p, t, y)
        BY <2>1, <2>2, <3>0, <3>2 DEF Responding
      <4>2. s.targ[t].type \in {"A", "B"} =>
              \A y \in Trans : Responding(s, p, t, y) => Responding(r, p, t, y)
        BY <2>1, <2>2, <3>0, <3>2 DEF Responding, MayRespond
      <4> QED BY <2>1, <2>3, <4>1, <4>2 DEF Responses
    <3> QED BY <3>1, <3>2
  <2> QED BY <2>4 DEF Responses
<1> QED BY <1>1, <1>2 DEF Whole, Hopped, Hopping

-----------------------------------------------------------------------------
(* The way of x after it has entered a phase on a hop.                     *)
PhaseOn(v) == IF v \in {Unused, "END_RESP"} THEN "idle" ELSE v
Marked(r, s) == Same(r, s, Seen)

LEMMA StampWay ==
  ASSUME NEW s, NEW p, NEW k, NEW L, Sound(s, p, k, L), NEW x \in Trans, NEW a, NEW b,
         Way(s, x, a, b), NEW h \in Hops, NEW v, NEW w, NEW r, Stamped(r, s, h, x, v, w),
         w.responding => w.hops # << >> /\ s.trans[x].status # "INCOMPLETE"
  PROVE  LET i == s.trans[x].init
             t == s.trans[x].target
         IN /\ h = i /\ w.hops = Stack(PhaseOn(v), b, i, t) => Way(r, x, PhaseOn(v), b)
            /\ h = t /\ w.hops = Stack(a, PhaseOn(v), i, t) => Way(r, x, a, PhaseOn(v))
            /\ Marked(r, s)
<1> DEFINE i == s.trans[x].init
           t == s.trans[x].target
<1>1. i \in Inits /\ t \in Targets /\ i \in Hops /\ t \in Hops /\ i # t
  BY TransField, Apart
<1>2. Marked(r, s) /\ r.trans = s.trans /\ r.path[x] = w
  BY SameFields DEF Stamped, Marked, Seen
<1>3. /\ On(r, h, x) = PhaseOn(v)
      /\ \A g \in Hops : g # h => On(r, g, x) = On(s, g, x)
  BY StampOn DEF PhaseOn
<1> QED BY <1>1, <1>2, <1>3 DEF Way

LEMMA WayStarted ==
  ASSUME NEW s, NEW x \in Trans, Unbegun(s, x), NEW h \in Hops, NEW r,
         Stamped(r, s, h, x, "BEGIN_REQ", Trace(<<h>>, FALSE))
  PROVE  Started(r, x, h) /\ Marked(r, s)
<1> DEFINE v == "BEGIN_REQ"
           w == Trace(<<h>>, FALSE)
<1>0. Stamped(r, s, h, x, v, w)
  OBVIOUS
<1>1. /\ On(r, h, x) = "BEGIN_REQ"
      /\ \A g \in Hops : g # h => On(r, g, x) = On(s, g, x)
  <2>1. v = "BEGIN_REQ"
    OBVIOUS
  <2> HIDE DEF v, w
  <2>2. /\ On(r, h, x) = IF v \in {Unused, "END_RESP"} THEN "idle" ELSE v
        /\ \A g \in Hops, y \in Trans : g # h \/ y # x => On(r, g, y) = On(s, g, y)
    BY <1>0, StampOn
  <2> QED BY <2>1, <2>2 DEF Unused
<1> QED BY <1>1 DEF Started, Unbegun, Stamped, Trace, Marked

(* The request begins on the hop of the initiator.                         *)
LEMMA BeginAtInit ==
  ASSUME NEW s, NEW p, NEW k, NEW L, NEW x \in Trans, Whole(s, p, k, L, x), NEW i \in Inits,
         Unbegun(s, x), s.init[i].req = x, s.trans[x].status = "INCOMPLETE", s.trans[x].ref = 1
  PROVE  LET r == FwPre(s, i, x, "BEGIN_REQ")
         IN Whole(r, p, k, L, x) /\ Started(r, x, i) /\ Marked(r, s)
<1> DEFINE r == FwPre(s, i, x, "BEGIN_REQ")
           v == "BEGIN_REQ"
<1>1. i \in Hops /\ Null \notin Trans /\ i \notin Targets
  BY Apart
<1>2. Checked(s) /\ IsState(s) /\ Asked(s)
  BY WholeParts
<1>3. s.check[i].req = Null \/ i \in s.overdue.inits
  <2>1. SUFFICES ASSUME s.check[i].req # Null, i \notin s.overdue.inits PROVE FALSE
    OBVIOUS
  <2>2. s.check[i].req \in Trans
    BY <1>1, <1>2, <2>1, OnType DEF Pointer
  <2>3. On(s, i, s.check[i].req) = "BEGIN_REQ"
    BY <1>1, <1>2, <2>1, <2>2, OnType DEF Checked
  <2>4. s.check[i].req = x
    BY <1>2, <2>1, <2>2, <2>3 DEF Asked
  <2> QED BY <1>1, <2>3, <2>4 DEF Unbegun
<1>4. Stamped(r, s, i, x, v, Trace(<<i>>, FALSE))
  <2>1. s.path[x].hops = << >> /\ ~(s.trans[x].ref > 1) /\ s.trans[x].ref # 0
    BY DEF Unbegun
  <2>2. ~s.path[x].responding /\ On(s, i, x) = "idle"
    BY <1>1 DEF Unbegun
  <2> QED BY <1>1, <1>2, <1>3, <2>1, <2>2, StampBegin
<1> HIDE DEF r
<1>5. MayStamp(s, p, i, x, v) /\ MayRespond(s, p, i, x, v)
  <2>1. InTime(s, i, x)
    BY <1>1, WholeParts, EndsInTime DEF Unbegun
  <2> QED BY <1>1, <2>1 DEF MayStamp, MayRespond, Unbegun
<1>6. Started(r, x, i) /\ Marked(r, s)
  BY <1>1, <1>4, WayStarted
<1> HIDE DEF v
<1>7. Whole(r, p, k, L, x)
  BY <1>1, <1>4, <1>5, StampHops
<1> QED BY <1>6, <1>7 DEF r

(* It begins on the hop of the target.                                     *)
LEMMA BeginAtTarget ==
  ASSUME NEW s, NEW p, NEW k, NEW L, NEW x \in Trans, Whole(s, p, k, L, x), NEW t \in Targets,
         s.trans[x].target = t, Way(s, x, "BEGIN_REQ", "idle"), s.req[t] = x,
         <<"end_req", t>> \notin s.runnable, s.trans[x].status = "INCOMPLETE", s.trans[x].ref # 0
  PROVE  LET r == FwPre(s, t, x, "BEGIN_REQ")
         IN Whole(r, p, k, L, x) /\ Way(r, x, "BEGIN_REQ", "BEGIN_REQ") /\ Marked(r, s)
<1> DEFINE r == FwPre(s, t, x, "BEGIN_REQ")
           v == "BEGIN_REQ"
           i == s.trans[x].init
<1>1. t \in Hops /\ Null \notin Trans /\ t \notin Inits
  BY Apart
<1>2. Checked(s) /\ IsState(s) /\ Requested(s) /\ Sound(s, p, k, L)
  BY WholeParts
<1>3. i \in Hops
  BY <1>2, TransField, Apart
<1>4. s.check[t].req = Null
  <2>1. SUFFICES ASSUME s.check[t].req # Null PROVE FALSE
    OBVIOUS
  <2>2. s.check[t].req \in Trans
    BY <1>1, <1>2, <2>1, OnType DEF Pointer
  <2>3. On(s, t, s.check[t].req) = "BEGIN_REQ"
    BY <1>1, <1>2, <2>1, <2>2, OnType DEF Checked
  <2>4. s.check[t].req = x
    BY <1>2, <2>2, <2>3 DEF Requested
  <2> QED BY <2>3, <2>4 DEF Way
<1>5. s.path[x].hops = <<i>> /\ ~s.path[x].responding /\ On(s, t, x) = "idle"
  BY <1>2, PathType DEF Way, Stack
<1>6. Stamped(r, s, t, x, v, Trace(<<i, t>>, FALSE))
  BY <1>1, <1>2, <1>3, <1>4, <1>5, StampBegin
<1> HIDE DEF r
<1>7. MayStamp(s, p, t, x, v) /\ MayRespond(s, p, t, x, v)
  BY <1>1, <1>5 DEF MayStamp, MayRespond
<1>8. PhaseOn(v) = "BEGIN_REQ" /\ Trace(<<i, t>>, FALSE).hops = Stack("BEGIN_REQ", PhaseOn(v), i, t)
      /\ ~Trace(<<i, t>>, FALSE).responding
  BY DEF PhaseOn, Unused, Stack, Trace
<1> HIDE DEF v, i
<1>9. Whole(r, p, k, L, x)
  BY <1>1, <1>6, <1>7, StampHops
<1>10. Way(r, x, "BEGIN_REQ", PhaseOn(v)) /\ Marked(r, s)
  <2> DEFINE a == "BEGIN_REQ"
             b == "idle"
             w == Trace(<<i, t>>, FALSE)
  <2>1. Way(s, x, a, b) /\ Stamped(r, s, t, x, v, w) /\ w.hops = Stack(a, PhaseOn(v), i, t)
        /\ ~w.responding
    BY <1>6, <1>8
  <2> HIDE DEF a, b, w
  <2>2. Way(r, x, a, PhaseOn(v)) /\ Marked(r, s)
    BY <1>1, <1>2, <2>1, StampWay DEF i
  <2> QED BY <2>2 DEF a
<1> QED BY <1>8, <1>9, <1>10 DEF r

(* The response ends on the hop of the initiator.                          *)
LEMMA EndAtInit ==
  ASSUME NEW s, NEW p, NEW k, NEW L, NEW x \in Trans, Whole(s, p, k, L, x), NEW i \in Inits,
         s.trans[x].init = i, NEW b, Way(s, x, "BEGIN_RESP", b), s.trans[x].ref # 0,
         InTime(s, i, x)
  PROVE  LET r == FwPre(s, i, x, "END_RESP")
         IN Whole(r, p, k, L, x) /\ Way(r, x, "idle", b) /\ Marked(r, s)
<1> DEFINE r == FwPre(s, i, x, "END_RESP")
           v == "END_RESP"
           w == s.path[x]
           a == "BEGIN_RESP"
           t == s.trans[x].target
<1>1. i \in Hops /\ i \notin Targets
  BY Apart
<1>2. Checked(s) /\ IsState(s) /\ Sound(s, p, k, L)
  BY WholeParts
<1>3. Stamped(r, s, i, x, v, w)
  BY <1>1, <1>2, StampEnd DEF Way
<1>4. MayStamp(s, p, i, x, v) /\ MayRespond(s, p, i, x, v)
  BY <1>1 DEF MayStamp, MayRespond, Way
<1>5. /\ PhaseOn(v) = "idle" /\ w.hops = Stack(PhaseOn(v), b, i, t) /\ Way(s, x, a, b)
      /\ w.responding => w.hops # << >> /\ s.trans[x].status # "INCOMPLETE"
  BY DEF PhaseOn, Stack, Way
<1> HIDE DEF r, v, w, a
<1>6. Whole(r, p, k, L, x)
  BY <1>1, <1>3, <1>4, StampHops
<1>7. Way(r, x, PhaseOn(v), b) /\ Marked(r, s)
  BY <1>1, <1>2, <1>3, <1>5, StampWay
<1> QED BY <1>5, <1>6, <1>7 DEF r

(* It ends on the hop of the target.                                       *)
LEMMA EndAtTarget ==
  ASSUME NEW s, NEW p, NEW k, NEW L, NEW x \in Trans, Whole(s, p, k, L, x), NEW t \in Targets,
         s.trans[x].target = t, Way(s, x, "idle", "BEGIN_RESP"), s.trans[x].ref # 0,
         p[x] = "answered", ~s.trans[x].dont_propagate_fw
  PROVE  LET r == FwPre(s, t, x, "END_RESP")
         IN Whole(r, p, k, L, x) /\ Way(r, x, "idle", "idle") /\ Marked(r, s)
<1> DEFINE r == FwPre(s, t, x, "END_RESP")
           v == "END_RESP"
           w == s.path[x]
           a == "idle"
           b == "BEGIN_RESP"
           i == s.trans[x].init
<1>1. t \in Hops /\ t \notin Inits
  BY Apart
<1>2. Checked(s) /\ IsState(s) /\ Sound(s, p, k, L)
  BY WholeParts
<1>3. Stamped(r, s, t, x, v, w)
  BY <1>1, <1>2, StampEnd DEF Way
<1>4. MayStamp(s, p, t, x, v) /\ MayRespond(s, p, t, x, v)
  BY <1>1 DEF MayStamp, MayRespond, Way
<1>5. /\ PhaseOn(v) = "idle" /\ w.hops = Stack(a, PhaseOn(v), i, t) /\ Way(s, x, a, b)
      /\ w.responding => w.hops # << >> /\ s.trans[x].status # "INCOMPLETE" /\ a = "idle"
  BY DEF PhaseOn, Stack, Way
<1>6. a = "idle"
  OBVIOUS
<1> HIDE DEF r, v, w, a, b
<1>7. Whole(r, p, k, L, x)
  BY <1>1, <1>3, <1>4, StampHops
<1>8. Way(r, x, a, PhaseOn(v)) /\ Marked(r, s)
  BY <1>1, <1>2, <1>3, <1>5, StampWay
<1> QED BY <1>5, <1>6, <1>7, <1>8 DEF r

(* The request ends on the hop of the initiator.                           *)
LEMMA EndReqAtInit ==
  ASSUME NEW s, NEW p, NEW k, NEW L, NEW x \in Trans, Whole(s, p, k, L, x), NEW i \in Inits,
         s.trans[x].init = i, Way(s, x, "BEGIN_REQ", "END_REQ")
  PROVE  LET r == ResponseChecks(s, i, x, "END_REQ")
         IN Whole(r, p, k, L, x) /\ Way(r, x, "END_REQ", "END_REQ") /\ Marked(r, s)
<1> DEFINE r == ResponseChecks(s, i, x, "END_REQ")
           v == "END_REQ"
           w == s.path[x]
           a == "BEGIN_REQ"
           b == "END_REQ"
           t == s.trans[x].target
<1>1. i \in Hops /\ i \notin Targets
  BY Apart
<1>2. Checked(s) /\ IsState(s) /\ Sound(s, p, k, L)
  BY WholeParts
<1>3. Stamped(r, s, i, x, v, w)
  BY <1>1, <1>2, StampEndReq DEF Way
<1>4. MayStamp(s, p, i, x, v) /\ MayRespond(s, p, i, x, v)
  BY <1>1 DEF MayStamp, MayRespond, Way
<1>5. /\ PhaseOn(v) = "END_REQ" /\ w.hops = Stack(PhaseOn(v), b, i, t) /\ Way(s, x, a, b)
      /\ w.responding => w.hops # << >> /\ s.trans[x].status # "INCOMPLETE"
  BY DEF PhaseOn, Stack, Way, Unused
<1>6. b = "END_REQ"
  OBVIOUS
<1> HIDE DEF r, v, w, a, b
<1>7. Whole(r, p, k, L, x)
  BY <1>1, <1>3, <1>4, StampHops
<1>8. Way(r, x, PhaseOn(v), b) /\ Marked(r, s)
  BY <1>1, <1>2, <1>3, <1>5, StampWay
<1> QED BY <1>5, <1>6, <1>7, <1>8 DEF r

(* It ends on the hop of the target.                                       *)
LEMMA EndReqAtTarget ==
  ASSUME NEW s, NEW p, NEW k, NEW L, NEW x \in Trans, Whole(s, p, k, L, x), NEW t \in Targets,
         s.trans[x].target = t, Way(s, x, "BEGIN_REQ", "BEGIN_REQ")
  PROVE  LET r == ResponseChecks(s, t, x, "END_REQ")
         IN Whole(r, p, k, L, x) /\ Way(r, x, "BEGIN_REQ", "END_REQ") /\ Marked(r, s)
<1> DEFINE r == ResponseChecks(s, t, x, "END_REQ")
           v == "END_REQ"
           w == s.path[x]
           a == "BEGIN_REQ"
           b == "BEGIN_REQ"
           i == s.trans[x].init
<1>1. t \in Hops /\ t \notin Inits
  BY Apart
<1>2. Checked(s) /\ IsState(s) /\ Sound(s, p, k, L)
  BY WholeParts
<1>3. Stamped(r, s, t, x, v, w)
  BY <1>1, <1>2, StampEndReq DEF Way
<1>4. MayStamp(s, p, t, x, v) /\ MayRespond(s, p, t, x, v)
  BY <1>1 DEF MayStamp, MayRespond, Way
<1>5. /\ PhaseOn(v) = "END_REQ" /\ w.hops = Stack(a, PhaseOn(v), i, t) /\ Way(s, x, a, b)
      /\ w.responding => w.hops # << >> /\ s.trans[x].status # "INCOMPLETE"
  BY DEF PhaseOn, Stack, Way, Unused
<1>6. a = "BEGIN_REQ"
  OBVIOUS
<1> HIDE DEF r, v, w, a, b
<1>7. Whole(r, p, k, L, x)
  BY <1>1, <1>3, <1>4, StampHops
<1>8. Way(r, x, a, PhaseOn(v)) /\ Marked(r, s)
  BY <1>1, <1>2, <1>3, <1>5, StampWay
<1> QED BY <1>5, <1>6, <1>7, <1>8 DEF r

(* The response begins on the hop of the initiator.                        *)
LEMMA RespAtInit ==
  ASSUME NEW s, NEW p, NEW k, NEW L, NEW x \in Trans, Whole(s, p, k, L, x), NEW i \in Inits,
         s.trans[x].init = i, NEW a \in {"BEGIN_REQ", "END_REQ"},
         NEW b \in {"BEGIN_RESP", "idle"}, Way(s, x, a, b), s.rsp[i] = x,
         <<"end_rsp", i>> \notin s.runnable, p[x] = "served"
  PROVE  LET r == ResponseChecks(s, i, x, "BEGIN_RESP")
         IN Whole(r, p, k, L, x) /\ Way(r, x, "BEGIN_RESP", b) /\ Marked(r, s)
<1> DEFINE r == ResponseChecks(s, i, x, "BEGIN_RESP")
           v == "BEGIN_RESP"
           w == Trace(<< >>, FALSE)
           t == s.trans[x].target
<1>1. i \in Hops /\ i \notin Targets /\ Null \notin Trans
  BY Apart
<1>2. Checked(s) /\ IsState(s) /\ Sound(s, p, k, L) /\ Answered(s)
  BY WholeParts
<1>3. s.check[i].rsp = Null
  <2>1. SUFFICES ASSUME s.check[i].rsp # Null PROVE FALSE
    OBVIOUS
  <2>2. s.check[i].rsp \in Trans
    BY <1>1, <1>2, <2>1, OnType DEF Pointer
  <2>3. On(s, i, s.check[i].rsp) = "BEGIN_RESP"
    BY <1>1, <1>2, <2>1, <2>2, OnType DEF Checked
  <2>4. s.check[i].rsp = x
    BY <1>2, <2>2, <2>3 DEF Answered
  <2> QED BY <2>3, <2>4 DEF Way
<1>4. s.path[x].hops = <<i>> /\ On(s, i, x) \in {"BEGIN_REQ", "END_REQ"}
  BY DEF Way, Stack
<1>5. Stamped(r, s, i, x, v, w)
  BY <1>1, <1>2, <1>3, <1>4, StampBeginResp
<1>6. MayStamp(s, p, i, x, v) /\ MayRespond(s, p, i, x, v)
  BY <1>1 DEF MayStamp, MayRespond
<1>7. PhaseOn(v) = "BEGIN_RESP" /\ w.hops = Stack(PhaseOn(v), b, i, t) /\ ~w.responding
  BY DEF PhaseOn, Stack, Unused, Trace
<1> HIDE DEF r, v, w
<1>8. Whole(r, p, k, L, x)
  BY <1>1, <1>5, <1>6, StampHops
<1>9. Way(r, x, PhaseOn(v), b) /\ Marked(r, s)
  BY <1>1, <1>2, <1>5, <1>7, StampWay
<1> QED BY <1>7, <1>8, <1>9 DEF r

(* The request is completed on the hop of the initiator.                   *)
LEMMA DoneAtInit ==
  ASSUME NEW s, NEW p, NEW k, NEW L, NEW x \in Trans, Whole(s, p, k, L, x), NEW i \in Inits,
         s.trans[x].init = i, Way(s, x, "BEGIN_REQ", "idle")
  PROVE  LET r == Forgotten(CheckResponsePath(s, i, x), i, x)
         IN Whole(r, p, k, L, x) /\ Way(r, x, "idle", "idle") /\ Marked(r, s)
<1> DEFINE r == Forgotten(CheckResponsePath(s, i, x), i, x)
           v == Unused
           w == Trace(<< >>, FALSE)
           a == "BEGIN_REQ"
           b == "idle"
           t == s.trans[x].target
<1>1. i \in Hops /\ i \notin Targets /\ Null \notin Trans
  BY Apart
<1>2. Checked(s) /\ IsState(s) /\ Sound(s, p, k, L)
  BY WholeParts
<1>3. s.path[x].hops = <<i>> /\ On(s, i, x) = "BEGIN_REQ"
  BY DEF Way, Stack
<1>4. Stamped(r, s, i, x, v, w)
  BY <1>1, <1>2, <1>3, StampCompleted
<1>n. InTime(s, i, x)
  BY <1>3, WholeParts, EndsInTime
<1>5. MayStamp(s, p, i, x, v) /\ MayRespond(s, p, i, x, v)
  BY <1>1, <1>3, <1>n DEF MayStamp, MayRespond, Unused
<1>6. /\ PhaseOn(v) = "idle" /\ w.hops = Stack(PhaseOn(v), b, i, t) /\ ~w.responding
      /\ Way(s, x, a, b)
  BY DEF PhaseOn, Stack, Unused, Trace
<1>7. b = "idle"
  OBVIOUS
<1> HIDE DEF r, v, w, a, b
<1>8. Whole(r, p, k, L, x)
  BY <1>1, <1>4, <1>5, StampHops
<1>9. Way(r, x, PhaseOn(v), b) /\ Marked(r, s)
  BY <1>1, <1>2, <1>4, <1>6, StampWay
<1> QED BY <1>6, <1>7, <1>8, <1>9 DEF r

(* It is completed on the hop of the target.                               *)
LEMMA DoneAtTarget ==
  ASSUME NEW s, NEW p, NEW k, NEW L, NEW x \in Trans, Whole(s, p, k, L, x), NEW t \in Targets,
         s.trans[x].target = t, Way(s, x, "BEGIN_REQ", "BEGIN_REQ"),
         s.trans[x].status # "INCOMPLETE"
  PROVE  LET r == Forgotten(CheckResponsePath(s, t, x), t, x)
         IN Whole(r, p, k, L, x) /\ Way(r, x, "BEGIN_REQ", "idle") /\ Marked(r, s)
<1> DEFINE r == Forgotten(CheckResponsePath(s, t, x), t, x)
           v == Unused
           i == s.trans[x].init
           w == Trace(<<i>>, TRUE)
           a == "BEGIN_REQ"
           b == "BEGIN_REQ"
<1>1. t \in Hops /\ t \notin Inits /\ Null \notin Trans
  BY Apart
<1>2. Checked(s) /\ IsState(s) /\ Sound(s, p, k, L) /\ i \in Hops
  BY WholeParts, TransField, Apart
<1>3. s.path[x].hops = <<i, t>> /\ On(s, t, x) = "BEGIN_REQ"
  BY DEF Way, Stack
<1>4. Stamped(r, s, t, x, v, w)
  BY <1>1, <1>2, <1>3, StampCompleted
<1>5. MayStamp(s, p, t, x, v) /\ MayRespond(s, p, t, x, v)
  BY <1>1, <1>3 DEF MayStamp, MayRespond, Unused
<1>6. /\ PhaseOn(v) = "idle" /\ w.hops = Stack(a, PhaseOn(v), i, t) /\ w.hops # << >>
      /\ Way(s, x, a, b)
  BY DEF PhaseOn, Stack, Unused, Trace
<1>7. a = "BEGIN_REQ"
  OBVIOUS
<1> HIDE DEF r, v, w, a, b
<1>8. Whole(r, p, k, L, x)
  BY <1>1, <1>4, <1>5, StampHops
<1>9. Way(r, x, a, PhaseOn(v)) /\ Marked(r, s)
  BY <1>1, <1>2, <1>4, <1>6, StampWay
<1> QED BY <1>6, <1>7, <1>8, <1>9 DEF r

(* TLM_COMPLETED where the transaction is over already.                    *)
LEMMA DoneAgain ==
  ASSUME NEW s, NEW p, NEW k, NEW L, NEW x \in Trans, Whole(s, p, k, L, x), NEW h \in Hops,
         h \in {s.trans[x].init, s.trans[x].target}, NEW a, NEW b, Way(s, x, a, b),
         On(s, h, x) = "idle"
  PROVE  LET r == Forgotten(s, h, x)
         IN Whole(r, p, k, L, x) /\ Way(r, x, a, b) /\ Marked(r, s)
<1> DEFINE r == Forgotten(s, h, x)
           v == Unused
           w == s.path[x]
           i == s.trans[x].init
           t == s.trans[x].target
<1>2. Checked(s) /\ IsState(s) /\ Sound(s, p, k, L)
  BY WholeParts
<1>3. Stamped(r, s, h, x, v, w)
  BY <1>2, StampForgotten
<1>n. InTime(s, h, x)
  BY WholeParts, EndsInTime
<1>4. MayStamp(s, p, h, x, v) /\ MayRespond(s, p, h, x, v)
  BY <1>n DEF MayStamp, MayRespond, Unused
<1>5. /\ PhaseOn(v) = "idle" /\ w.hops = Stack(a, b, i, t)
      /\ w.responding => w.hops # << >> /\ s.trans[x].status # "INCOMPLETE"
      /\ On(s, i, x) = a /\ On(s, t, x) = b
  BY DEF PhaseOn, Way
<1> HIDE DEF r, v, w
<1>6. Whole(r, p, k, L, x)
  BY <1>3, <1>4, StampHops
<1>7. /\ h = i /\ w.hops = Stack(PhaseOn(v), b, i, t) => Way(r, x, PhaseOn(v), b)
      /\ h = t /\ w.hops = Stack(a, PhaseOn(v), i, t) => Way(r, x, a, PhaseOn(v))
      /\ Marked(r, s)
  BY <1>2, <1>3, <1>5, StampWay
<1> QED BY <1>5, <1>6, <1>7 DEF r

(* The response is completed: the checker forgets the transaction.         *)
Cleared(s, h, x) == [s EXCEPT !.check[h].rsp = Null, !.check[h].ph[x] = Unused]

LEMMA OverAtInit ==
  ASSUME NEW s, NEW p, NEW k, NEW L, NEW x \in Trans, Whole(s, p, k, L, x), NEW i \in Inits,
         i \in InitsB, s.trans[x].init = i, NEW b, Way(s, x, "BEGIN_RESP", b)
  PROVE  LET r == Cleared(s, i, x)
         IN Whole(r, p, k, L, x) /\ Way(r, x, "idle", b) /\ Marked(r, s)
<1> DEFINE r == Cleared(s, i, x)
           v == Unused
           w == s.path[x]
           a == "BEGIN_RESP"
           t == s.trans[x].target
<1>1. i \in Hops /\ i \notin Targets
  BY Apart
<1>2. Checked(s) /\ IsState(s) /\ Sound(s, p, k, L)
  BY WholeParts
<1>3. Stamped(r, s, i, x, v, w)
  BY <1>1, <1>2, StampOver DEF Way, Cleared
<1>n. InTime(s, i, x)
  <2>1. i \notin InitsA
    BY TLMAssumption
  <2> QED BY <2>1, WholeParts, EndsInTime
<1>4. MayStamp(s, p, i, x, v) /\ MayRespond(s, p, i, x, v)
  BY <1>1, <1>n DEF MayStamp, MayRespond, Way, Unused
<1>5. /\ PhaseOn(v) = "idle" /\ w.hops = Stack(PhaseOn(v), b, i, t) /\ Way(s, x, a, b)
      /\ w.responding => w.hops # << >> /\ s.trans[x].status # "INCOMPLETE"
  BY DEF PhaseOn, Stack, Way
<1> HIDE DEF r, v, w, a
<1>6. Whole(r, p, k, L, x)
  BY <1>1, <1>3, <1>4, StampHops
<1>7. Way(r, x, PhaseOn(v), b) /\ Marked(r, s)
  BY <1>1, <1>2, <1>3, <1>5, StampWay
<1> QED BY <1>5, <1>6, <1>7 DEF r

LEMMA OverAtTarget ==
  ASSUME NEW s, NEW p, NEW k, NEW L, NEW x \in Trans, Whole(s, p, k, L, x), NEW t \in Targets,
         s.trans[x].target = t, Way(s, x, "idle", "BEGIN_RESP"),
         p[x] = "answered", ~s.trans[x].dont_propagate_fw
  PROVE  LET r == Cleared(s, t, x)
         IN Whole(r, p, k, L, x) /\ Way(r, x, "idle", "idle") /\ Marked(r, s)
<1> DEFINE r == Cleared(s, t, x)
           v == Unused
           w == s.path[x]
           a == "idle"
           b == "BEGIN_RESP"
           i == s.trans[x].init
<1>1. t \in Hops /\ t \notin Inits
  BY Apart
<1>2. Checked(s) /\ IsState(s) /\ Sound(s, p, k, L)
  BY WholeParts
<1>3. Stamped(r, s, t, x, v, w)
  BY <1>1, <1>2, StampOver DEF Way, Cleared
<1>4. MayStamp(s, p, t, x, v) /\ MayRespond(s, p, t, x, v)
  BY <1>1 DEF MayStamp, MayRespond, Way, Unused
<1>5. /\ PhaseOn(v) = "idle" /\ w.hops = Stack(a, PhaseOn(v), i, t) /\ Way(s, x, a, b)
      /\ w.responding => w.hops # << >> /\ s.trans[x].status # "INCOMPLETE" /\ a = "idle"
  BY DEF PhaseOn, Stack, Way
<1>6. a = "idle"
  OBVIOUS
<1> HIDE DEF r, v, w, a, b
<1>7. Whole(r, p, k, L, x)
  BY <1>1, <1>3, <1>4, StampHops
<1>8. Way(r, x, a, PhaseOn(v)) /\ Marked(r, s)
  BY <1>1, <1>2, <1>3, <1>5, StampWay
<1> QED BY <1>5, <1>6, <1>7, <1>8 DEF r

(* The response begins on the hop of the target, which responds to x from  *)
(* now on.                                                                 *)
Responder(s, t) == [s EXCEPT !.targ[t].response_in_progress = TRUE]

LEMMA RespAtTarget ==
  ASSUME NEW s, NEW p, NEW k, NEW L, NEW x \in Trans, Whole(s, p, k, L, x), NEW t \in Targets,
         s.trans[x].target = t, NEW a \in {"BEGIN_REQ", "END_REQ"},
         NEW b \in {"BEGIN_REQ", "END_REQ"}, Way(s, x, a, b), p[x] = "served",
         s.trans[x].status # "INCOMPLETE", ~s.targ[t].response_in_progress,
         <<"send_rsp", t>> \notin s.runnable, s.targ[t].type # "E"
  PROVE  LET r == ResponseChecks(Responder(s, t), t, x, "BEGIN_RESP")
         IN /\ Whole(r, p, k, L, x) /\ Way(r, x, a, "BEGIN_RESP")
            /\ Becomes(Responder(s, t), s, t, s.targ[t].n_trans, TRUE, s.targ[t].next, s.targ[t].stalled)
            /\ Marked(r, Responder(s, t))
<1> DEFINE c == Responder(s, t)
           r == ResponseChecks(c, t, x, "BEGIN_RESP")
           v == "BEGIN_RESP"
           i == s.trans[x].init
           w == Trace(<<i>>, TRUE)
<1>1. t \in Hops /\ t \notin Inits /\ Null \notin Trans
  BY Apart
<1>2. /\ Checked(s) /\ IsState(s) /\ Sound(s, p, k, L) /\ Responses(s, p) /\ Typed(s) /\ i \in Hops
      /\ Asked(s) /\ Answered(s) /\ Requested(s) /\ Ends(s)
  BY WholeParts, TransField, Apart
<1>3. Becomes(c, s, t, s.targ[t].n_trans, TRUE, s.targ[t].next, s.targ[t].stalled)
  <2>1. \A e \in BOOLEAN : Becomes([s EXCEPT !.targ[t].response_in_progress = e], s, t,
                               s.targ[t].n_trans, e, s.targ[t].next, s.targ[t].stalled)
    BY ZenonT(40), <1>2, SetResponding DEF Typed
  <2> QED BY <2>1, Zenon DEF Responder
<1>4. Sound(c, p, k, L)
  <2>1. \A e \in BOOLEAN : Sound([s EXCEPT !.targ[t].response_in_progress = e], p, k, L)
    BY <1>2, RespondSound
  <2> QED BY <2>1, Zenon DEF Responder
<1> HIDE DEF c
<1>5. /\ Same(c, s, {"targ"}) /\ SameTypes(c, s) /\ c.targ[t].response_in_progress
      /\ \A u \in Targets : u # t => c.targ[u] = s.targ[u]
  BY <1>3 DEF Becomes
<1>6. /\ c.check = s.check /\ c.path = s.path /\ c.faults = s.faults /\ c.trans = s.trans
      /\ c.init = s.init /\ c.req = s.req /\ c.rsp = s.rsp /\ c.peq = s.peq
      /\ c.runnable = s.runnable /\ c.overdue = s.overdue
  BY <1>5, SameFields
<1>7. Hopping(c, p, x)
  <2>1. Elsewhere(c, s, p, p, x)
    BY <1>5, <1>6 DEF Elsewhere
  <2>2. Checked(c) /\ Trips(c, p, x) /\ \A g, y : On(c, g, y) = On(s, g, y)
    BY <2>1, KeepTrips
  <2>3. NoMoreEnds(c, s)
    BY <1>6 DEF NoMoreEnds
  <2> QED BY <1>2, <1>6, <2>2, <2>3, KeepAsked, KeepAnswered, KeepRequested, KeepEnds DEF Hopping
<1>8. c.check[t].rsp = Null
  <2>1. SUFFICES ASSUME s.check[t].rsp # Null PROVE FALSE
    BY <1>6
  <2>2. s.check[t].rsp \in Trans
    BY <1>1, <1>2, <2>1, OnType DEF Pointer
  <2>3. On(s, t, s.check[t].rsp) = "BEGIN_RESP"
    BY <1>1, <1>2, <2>1, <2>2, OnType DEF Checked
  <2>4. Responding(s, p, t, s.check[t].rsp)
    BY <2>3 DEF Responding
  <2> QED BY <1>2, <2>2, <2>4 DEF Responses
<1>9. Way(c, x, a, b) /\ Checked(c) /\ IsState(c) /\ c.trans[x].target = t /\ c.trans[x].init = i
  BY SMTT(30), <1>5, <1>6, <1>7, SameState DEF Way, On, Hopping
<1>10. c.path[x].hops = <<i, t>> /\ On(c, t, x) \in {"BEGIN_REQ", "END_REQ"}
  BY <1>9 DEF Way, Stack
<1>11. Stamped(r, c, t, x, v, w)
  BY <1>1, <1>2, <1>8, <1>9, <1>10, StampBeginResp
<1>12. MayStamp(c, p, t, x, v) /\ v = "BEGIN_RESP"
  BY <1>1 DEF MayStamp
<1>13. /\ PhaseOn(v) = "BEGIN_RESP" /\ w.hops = Stack(a, PhaseOn(v), i, t) /\ w.hops # << >>
  BY DEF PhaseOn, Stack, Unused, Trace
<1> HIDE DEF r, v, w, i
<1>14. Hopping(r, p, x) /\ Sound(r, p, k, L)
  BY <1>1, <1>4, <1>7, <1>11, <1>12, StampParts
<1>15. Way(r, x, a, PhaseOn(v)) /\ Marked(r, c)
  <2>1. c.trans[x].status # "INCOMPLETE" /\ c.trans[x].target = t /\ c.trans[x].init = i
    BY <1>6, <1>9
  <2> QED BY <1>1, <1>4, <1>9, <1>11, <1>13, <2>1, StampWay
<1>16. Responses(r, p)
  <2>1. r.targ = c.targ /\ r.trans = s.trans /\ r.runnable = s.runnable
    BY <1>6, <1>15, SameFields DEF Marked, Seen
  <2>2. /\ On(r, t, x) = PhaseOn(v)
        /\ \A g \in Hops, y \in Trans : g # t \/ y # x => On(r, g, y) = On(c, g, y)
    BY <1>1, <1>11, StampOn DEF PhaseOn
  <2>3. \A g, y : On(c, g, y) = On(s, g, y)
    BY <1>6 DEF On
  <2>4. \A y \in Trans : Responding(r, p, t, y) <=> y = x
    <3>1. \A y \in Trans : ~Responding(s, p, t, y)
      BY <1>2 DEF Responses
    <3>2. Responding(r, p, t, x)
      BY <1>13, <2>2 DEF Responding
    <3>3. \A y \in Trans : y # x /\ Responding(r, p, t, y) => Responding(s, p, t, y)
      BY <1>1, <2>1, <2>2, <2>3 DEF Responding
    <3> QED BY <3>1, <3>2, <3>3
  <2>5. ASSUME NEW u \in Targets
        PROVE  /\ \A y \in Trans : Responding(r, p, u, y) =>
                    /\ r.targ[u].response_in_progress
                    /\ \A z \in Trans : Responding(r, p, u, z) => z = y
               /\ r.targ[u].response_in_progress /\ r.targ[u].type \in {"A", "B"} =>
                    \E y \in Trans : Responding(r, p, u, y)
               /\ r.targ[u].response_in_progress => r.targ[u].type # "E"
               /\ <<"send_rsp", u>> \in r.runnable => ~r.targ[u].response_in_progress
    <3>1. CASE u = t
      BY <1>5, <2>1, <2>4, <3>1 DEF SameTypes
    <3>2. CASE u # t
      <4>1. u \in Hops
        BY Apart
      <4>2. \A y \in Trans : Responding(r, p, u, y) <=> Responding(s, p, u, y)
        BY <2>1, <2>2, <2>3, <3>2, <4>1 DEF Responding
      <4>3. r.targ[u] = s.targ[u]
        BY <1>5, <2>1, <3>2
      <4> QED BY <1>2, <2>1, <4>2, <4>3 DEF Responses
    <3> QED BY <3>1, <3>2
  <2> QED BY <2>5 DEF Responses
<1>17. Whole(r, p, k, L, x)
  BY <1>14, <1>16 DEF Whole, Hopped, Hopping
<1> QED BY <1>3, <1>13, <1>15, <1>17 DEF r, c

-----------------------------------------------------------------------------
(* What a process does with x that no hop depends on: the event queues,    *)
(* the queues of the interconnect and the pointers of the targets.         *)
Quiet4 == {"targ", "req_queue", "rsp_queue", "peq"}

SameResponding(r, s) ==
  \A t \in Targets : r.targ[t].response_in_progress = s.targ[t].response_in_progress

LEMMA QuietHops ==
  ASSUME NEW s, NEW p, NEW k, NEW L, NEW x, Whole(s, p, k, L, x), NEW r, NEW F, Same(r, s, F),
         F \subseteq Quiet4, SameTypes(r, s), SameResponding(r, s), NoMoreEnds(r, s),
         NEW q, \A y \in Trans : y # x => q[y] = p[y], AlikeAt(s, s, q, p, x)
  PROVE  Hopped(r, q, x) /\ \A y : Still(r, s, y)
<1>1. /\ r.init = s.init /\ r.req = s.req /\ r.rsp = s.rsp /\ r.runnable = s.runnable
      /\ r.check = s.check /\ r.path = s.path /\ r.faults = s.faults /\ r.trans = s.trans
      /\ r.overdue = s.overdue
  <2>1. Same(r, s, Quiet4)
    BY SameMore
  <2> QED BY <2>1, SameFields DEF Quiet4
<1>2. Elsewhere(r, s, q, p, x) /\ Calm(r, s)
  BY <1>1 DEF Elsewhere, Calm, SameResponding
<1>3. AlikeAt(r, s, q, p, x)
  BY <1>1, AlikeRoute DEF SameRoute
<1>4. \A y : Still(r, s, y)
  BY <1>1 DEF Still, Along
<1> QED BY <1>2, <1>3, <1>4, CalmHops

LEMMA AlikeMoved ==
  ASSUME NEW s, NEW p, NEW q, NEW x,
         \/ p[x] \notin Silenced /\ q[x] \notin Silenced
         \/ p[x] = "answered" /\ q[x] = "end_resp" /\ ~s.trans[x].dont_propagate_fw
         \/ p[x] = "end_resp" /\ q[x] = "answered" /\ ~s.trans[x].dont_propagate_fw
  PROVE  AlikeAt(s, s, q, p, x)
<1>1. SameRoute(s.trans[x], s.trans[x])
  BY DEF SameRoute
<1> QED BY <1>1, AlikeInHand

LEMMA SameTarget ==
  ASSUME NEW s, NEW r, r.targ = s.targ
  PROVE  SameTypes(r, s) /\ SameResponding(r, s)
BY DEF SameTypes, SameResponding

LEMMA SameEnds ==
  ASSUME NEW s, NEW r, r.peq = s.peq
  PROVE  NoMoreEnds(r, s)
BY DEF NoMoreEnds

(* A pointer or the count of a target is written.                          *)
LEMMA BecomesQuiet ==
  ASSUME NEW s, NEW r, NEW t, NEW n, NEW y, NEW z,
         Becomes(r, s, t, n, s.targ[t].response_in_progress, y, z)
  PROVE  SameResponding(r, s) /\ SameTypes(r, s) /\ Same(r, s, {"targ"})
<1>1. ASSUME NEW u \in Targets
      PROVE  r.targ[u].response_in_progress = s.targ[u].response_in_progress
  <2>1. CASE u = t
    BY <2>1, Zenon DEF Becomes
  <2>2. CASE u # t
    BY <2>2, Zenon DEF Becomes
  <2> QED BY <2>1, <2>2
<1> QED BY <1>1 DEF Becomes, SameResponding

LEMMA PostWhole ==
  ASSUME NEW s, NEW p, NEW k, NEW L, NEW x \in Trans, Whole(s, p, k, L, x), NEW at, NEW phase,
         MayPost(s, p, x, at, phase), phase = "internal_ph" => s.targ[at].type = "C"
  PROVE  LET r == Post(s, at, x, phase)
         IN /\ Whole(r, [p EXCEPT ![x] = PlaceOf[phase]], k, L, x) /\ Same(r, s, {"peq"})
            /\ Still(r, s, x) /\ r.targ = s.targ /\ r.trans = s.trans
<1> DEFINE r == Post(s, at, x, phase)
           q == [p EXCEPT ![x] = PlaceOf[phase]]
           e == [at |-> at, trans |-> x, phase |-> phase]
<1>0. Sound(s, p, k, L) /\ p \in [Trans -> Places] /\ IsState(s) /\ IsABag(s.peq)
  BY WholeParts DEF Typed
<1>1. Sound(r, q, k, L)
  BY <1>0, PostSound
<1>2. Same(r, s, {"peq"}) /\ r.trans = s.trans /\ r.targ = s.targ
  BY <1>0, PostSame
<1>3. NoMoreEnds(r, s)
  <2>1. r.peq = s.peq (+) SetToBag({e})
    <3>1. IsState(s)
      BY <1>0
    <3> QED BY <3>1, SetToo DEF Post
  <2>2. e.phase # "END_REQ"
    BY DEF MayPost
  <2> HIDE DEF e, r
  <2>3. More(r.peq, s.peq, e)
    BY <1>0, <2>1, BagMore
  <2> QED BY <2>2, <2>3 DEF More, NoMoreEnds
<1>4. q[x] = PlaceOf[phase] /\ \A y \in Trans : y # x => q[y] = p[y]
  BY <1>0
<1>5. AlikeAt(s, s, q, p, x)
  <2>1. \/ p[x] \notin Silenced /\ PlaceOf[phase] \notin Silenced
        \/ p[x] = "answered" /\ PlaceOf[phase] = "end_resp" /\ ~s.trans[x].dont_propagate_fw
    BY DEF MayPost, PlaceOf, Phases, Silenced
  <2> HIDE DEF q
  <2> QED BY <1>4, <2>1, AlikeMoved
<1> HIDE DEF r, q
<1>6. Hopped(r, q, x) /\ Still(r, s, x)
  <2>1. {"peq"} \subseteq Quiet4
    BY DEF Quiet4
  <2>2. SameTypes(r, s) /\ SameResponding(r, s)
    BY <1>2, SameTarget
  <2> QED BY <1>2, <1>3, <1>4, <1>5, <2>1, <2>2, QuietHops
<1> QED BY <1>1, <1>2, <1>6 DEF Whole, r, q

(* A target of type A or B has ended the request: it enters the pipeline.  *)
Enter(s, t, x) == [Post(s, t, x, "internal_ph") EXCEPT !.targ[t].n_trans = @ + 1]

LEMMA EnterWhole ==
  ASSUME NEW s, NEW p, NEW k, NEW L, NEW x \in Trans, Whole(s, p, k, L, x), NEW t \in Targets,
         s.trans[x].target = t, p[x] = "accepted", s.targ[t].type \in {"A", "B"},
         s.targ[t].n_trans <= 1
  PROVE  LET r == Enter(s, t, x)
         IN /\ Whole(r, [p EXCEPT ![x] = "internal"], k, L, x) /\ Same(r, s, {"peq", "targ"})
            /\ Still(r, s, x) /\ Stays(r, s, {"peq", "targ"}) /\ r.trans = s.trans
<1> DEFINE r == Enter(s, t, x)
           q == [p EXCEPT ![x] = "internal"]
           c == Post(s, t, x, "internal_ph")
           e == [at |-> t, trans |-> x, phase |-> "internal_ph"]
<1>0. /\ Sound(s, p, k, L) /\ p \in [Trans -> Places] /\ IsState(s) /\ IsABag(s.peq)
      /\ s.targ \in [Targets -> TargT] /\ s.targ[t] \in TargT
  BY WholeParts DEF Typed
<1>1. Sound(r, q, k, L) /\ Stays(r, s, {"peq", "targ"})
  BY ZenonT(40), <1>0, EnterSound DEF Enter, Stays
<1>2. Same(c, s, {"peq"}) /\ c.trans = s.trans /\ c.targ = s.targ
  BY <1>0, PostSame
<1>3. More(c.peq, s.peq, e) /\ e.phase # "END_REQ"
  <2>1. c.peq = s.peq (+) SetToBag({e})
    <3>1. IsState(s)
      BY <1>0
    <3> QED BY <3>1, SetToo DEF Post
  <2>2. e.phase # "END_REQ"
    OBVIOUS
  <2> HIDE DEF e, c
  <2> QED BY <1>0, <2>1, <2>2, BagMore
<1> DEFINE n == s.targ[t].n_trans + 1
<1>4. r = [c EXCEPT !.targ[t].n_trans = n]
  BY <1>2 DEF Enter
<1>5. n \in 0..2
  BY <1>0 DEF TargT
<1> HIDE DEF c, n, e
<1>6. Becomes([c EXCEPT !.targ[t].n_trans = n], c, t,
              n, c.targ[t].response_in_progress, c.targ[t].next, c.targ[t].stalled)
  <2>1. IsState(c) /\ c.targ \in [Targets -> TargT]
    BY <1>0, <1>2, SameState
  <2> QED BY <1>5, <2>1, SetCount
<1>7. Becomes(r, c, t, n, c.targ[t].response_in_progress, c.targ[t].next, c.targ[t].stalled)
  BY <1>4, <1>6
<1>8. q[x] = "internal" /\ \A y \in Trans : y # x => q[y] = p[y]
  BY <1>0
<1> HIDE DEF r, q
<1>9. Same(r, s, {"peq", "targ"}) /\ SameTypes(r, s) /\ SameResponding(r, s) /\ r.peq = c.peq
      /\ r.trans = s.trans
  <2>1. Same(r, c, {"targ"}) /\ SameTypes(r, c)
        /\ \A u \in Targets : u # t => r.targ[u] = c.targ[u]
        /\ r.targ[t].response_in_progress = c.targ[t].response_in_progress
    BY <1>7 DEF Becomes
  <2>2. Same(r, c, {"peq", "targ"}) /\ Same(c, s, {"peq", "targ"})
    BY <1>2, <2>1, SameMore
  <2>3. Same(r, s, {"peq", "targ"})
    BY <2>2, SameTwice
  <2>4. r.peq = c.peq /\ r.trans = c.trans
    BY <2>1, SameFields
  <2>5. SameTypes(r, s)
    BY <1>2, <2>1 DEF SameTypes
  <2>6. SameResponding(r, s)
    <3>1. SameResponding(r, c)
      BY <1>7, BecomesQuiet
    <3>2. \A u \in Targets : c.targ[u].response_in_progress = s.targ[u].response_in_progress
      BY <1>2
    <3> QED BY <3>1, <3>2, Zenon DEF SameResponding
  <2> QED BY <1>2, <2>3, <2>4, <2>5, <2>6
<1>10. NoMoreEnds(r, s)
  BY <1>3, <1>9 DEF More, NoMoreEnds
<1>11. AlikeAt(s, s, q, p, x)
  BY <1>8, AlikeMoved DEF Silenced
<1>12. Hopped(r, q, x) /\ Still(r, s, x)
  <2>1. {"peq", "targ"} \subseteq Quiet4
    BY DEF Quiet4
  <2> QED BY <1>8, <1>9, <1>10, <1>11, <2>1, QuietHops
<1> QED BY <1>1, <1>9, <1>12 DEF Whole, r, q

LEMMA QuietWhole ==
  ASSUME NEW s, NEW p, NEW k, NEW L, NEW x, Whole(s, p, k, L, x), NEW r, NEW F, Same(r, s, F),
         F \subseteq Quiet4, SameTypes(r, s), SameResponding(r, s), NoMoreEnds(r, s),
         NEW q, \A y \in Trans : y # x => q[y] = p[y], AlikeAt(s, s, q, p, x),
         NEW g, NEW M, Sound(r, q, g, M)
  PROVE  Whole(r, q, g, M, x) /\ \A y : Still(r, s, y)
BY QuietHops DEF Whole

(* x is put somewhere else, and nothing else happens.                      *)
LEMMA PlaceWhole ==
  ASSUME NEW s, NEW p, NEW k, NEW L, NEW x, Whole(s, p, k, L, x), NEW q,
         \A y \in Trans : y # x => q[y] = p[y], AlikeAt(s, s, q, p, x),
         NEW g, NEW M, Sound(s, q, g, M)
  PROVE  Whole(s, q, g, M, x)
<1>1. Same(s, s, {}) /\ {} \subseteq Quiet4
  BY WholeParts DEF Same
<1>2. SameTypes(s, s) /\ SameResponding(s, s) /\ NoMoreEnds(s, s)
  BY DEF SameTypes, SameResponding, NoMoreEnds
<1> DEFINE F == {}
<1>3. Same(s, s, F) /\ F \subseteq Quiet4
  BY <1>1
<1> HIDE DEF F
<1> QED BY <1>2, <1>3, QuietWhole

(* A pointer of a target is written, and x is put somewhere else.          *)
OnlyAt(q, p, x) == \A w \in Trans : w # x => q[w] = p[w]

LEMMA PointWhole ==
  ASSUME NEW s, NEW p, NEW k, NEW L, NEW x, Whole(s, p, k, L, x), NEW r, NEW t, NEW n, NEW y, NEW z,
         Becomes(r, s, t, n, s.targ[t].response_in_progress, y, z),
         NEW q, OnlyAt(q, p, x), AlikeAt(s, s, q, p, x),
         NEW g, NEW M, Sound(r, q, g, M)
  PROVE  /\ Whole(r, q, g, M, x) /\ Same(r, s, {"targ"}) /\ SameTypes(r, s) /\ \A w : Still(r, s, w)
         /\ r.trans = s.trans /\ r.runnable = s.runnable
<1>1. SameResponding(r, s) /\ SameTypes(r, s) /\ Same(r, s, {"targ"})
  BY BecomesQuiet
<1>2. NoMoreEnds(r, s) /\ r.trans = s.trans /\ r.runnable = s.runnable
  BY <1>1, SameFields
<1>3. {"targ"} \subseteq Quiet4
  BY DEF Quiet4
<1> QED BY <1>1, <1>2, <1>3, QuietWhole DEF OnlyAt

(* The response of x waits, and the request of x.                          *)
LEMMA SetNextWhole ==
  ASSUME NEW s, NEW p, NEW h, NEW L, NEW x \in Trans, Whole(s, p, h, L, x), NEW t \in Targets,
         s.trans[x].target = t, p[x] = "served"
  PROVE  LET r == [s EXCEPT !.targ[t].next = x]
         IN /\ Whole(r, [p EXCEPT ![x] = "next"], h, L, x) /\ Same(r, s, {"targ"})
            /\ SameTypes(r, s) /\ Still(r, s, x) /\ r.trans = s.trans
<1> DEFINE r == [s EXCEPT !.targ[t].next = x]
           q == [p EXCEPT ![x] = "next"]
<1>1. Becomes(r, s, t, s.targ[t].n_trans, s.targ[t].response_in_progress, x, s.targ[t].stalled)
  BY WholeParts, SetNext DEF Typed, Pointer
<1>2. Sound(r, q, h, L)
  BY WholeParts, SetNextSound
<1>3. p \in [Trans -> Places]
  BY WholeParts
<1>4. q[x] = "next" /\ OnlyAt(q, p, x)
  BY <1>3 DEF OnlyAt
<1> HIDE DEF r, q
<1>5. AlikeAt(s, s, q, p, x)
  BY <1>4, AlikeMoved DEF Silenced
<1>6. Whole(r, q, h, L, x) /\ Same(r, s, {"targ"}) /\ SameTypes(r, s) /\ Still(r, s, x) /\ r.trans = s.trans
  BY <1>1, <1>2, <1>4, <1>5, PointWhole
<1> QED BY <1>6 DEF r, q

LEMMA StallWhole ==
  ASSUME NEW s, NEW p, NEW L, NEW x \in Trans, Whole(s, p, x, L, x), NEW t \in Targets,
         s.trans[x].target = t, p[x] = "sent"
  PROVE  LET r == [s EXCEPT !.targ[t].stalled = x]
         IN /\ Whole(r, [p EXCEPT ![x] = "stalled"], Null, L, x) /\ Same(r, s, {"targ"})
            /\ SameTypes(r, s) /\ Still(r, s, x) /\ r.trans = s.trans
<1> DEFINE r == [s EXCEPT !.targ[t].stalled = x]
           q == [p EXCEPT ![x] = "stalled"]
<1>1. Becomes(r, s, t, s.targ[t].n_trans, s.targ[t].response_in_progress, s.targ[t].next, x)
  BY WholeParts, SetStalled DEF Typed, Pointer
<1>2. Sound(r, q, Null, L)
  BY WholeParts, StallSound
<1>3. p \in [Trans -> Places]
  BY WholeParts
<1>4. q[x] = "stalled" /\ OnlyAt(q, p, x)
  BY <1>3 DEF OnlyAt
<1> HIDE DEF r, q
<1>5. AlikeAt(s, s, q, p, x)
  BY <1>4, AlikeMoved DEF Silenced
<1>6. Whole(r, q, Null, L, x) /\ Same(r, s, {"targ"}) /\ SameTypes(r, s) /\ Still(r, s, x) /\ r.trans = s.trans
  BY <1>1, <1>2, <1>4, <1>5, PointWhole
<1> QED BY <1>6 DEF r, q

(* What waited does no longer.                                             *)
LEMMA ClearNextWhole ==
  ASSUME NEW s, NEW p, NEW h, NEW M, NEW x, Whole(s, p, h, M, x), NEW t \in Targets,
         <<"send_rsp", t>> \notin s.runnable
  PROVE  LET r == [s EXCEPT !.targ[t].next = Null]
         IN /\ Whole(r, p, h, M \ {<<"next", t>>}, x) /\ Same(r, s, {"targ"})
            /\ Becomes(r, s, t, s.targ[t].n_trans, s.targ[t].response_in_progress, Null,
                       s.targ[t].stalled)
            /\ SameTypes(r, s) /\ Still(r, s, x) /\ r.trans = s.trans
<1> DEFINE r == [s EXCEPT !.targ[t].next = Null]
           K == M \ {<<"next", t>>}
<1>1. Becomes(r, s, t, s.targ[t].n_trans, s.targ[t].response_in_progress, Null, s.targ[t].stalled)
  BY WholeParts, SetNext DEF Typed, Pointer
<1>2. Sound(r, p, h, K)
  BY WholeParts, ClearNext
<1> HIDE DEF r, K
<1>3. AlikeAt(s, s, p, p, x) /\ OnlyAt(p, p, x)
  BY AlikeItself DEF OnlyAt
<1>4. Whole(r, p, h, K, x) /\ Same(r, s, {"targ"}) /\ SameTypes(r, s) /\ Still(r, s, x) /\ r.trans = s.trans
  BY <1>1, <1>2, <1>3, PointWhole
<1> QED BY <1>1, <1>4 DEF r, K

LEMMA ClearStalledWhole ==
  ASSUME NEW s, NEW p, NEW h, NEW M, NEW x, Whole(s, p, h, M, x), NEW t \in Targets
  PROVE  LET r == [s EXCEPT !.targ[t].stalled = Null]
         IN /\ Whole(r, p, h, M \ {<<"stalled", t>>}, x) /\ Same(r, s, {"targ"})
            /\ Becomes(r, s, t, s.targ[t].n_trans, s.targ[t].response_in_progress, s.targ[t].next,
                       Null)
            /\ SameTypes(r, s) /\ Still(r, s, x) /\ r.trans = s.trans
<1> DEFINE r == [s EXCEPT !.targ[t].stalled = Null]
           K == M \ {<<"stalled", t>>}
<1>1. Becomes(r, s, t, s.targ[t].n_trans, s.targ[t].response_in_progress, s.targ[t].next, Null)
  BY WholeParts, SetStalled DEF Typed, Pointer
<1>2. Sound(r, p, h, K)
  BY WholeParts, ClearStalled
<1> HIDE DEF r, K
<1>3. AlikeAt(s, s, p, p, x) /\ OnlyAt(p, p, x)
  BY AlikeItself DEF OnlyAt
<1>4. Whole(r, p, h, K, x) /\ Same(r, s, {"targ"}) /\ SameTypes(r, s) /\ Still(r, s, x) /\ r.trans = s.trans
  BY <1>1, <1>2, <1>3, PointWhole
<1> QED BY <1>1, <1>4 DEF r, K

(* What waits is taken up.                                                 *)
LEMMA TakeNextWhole ==
  ASSUME NEW s, NEW p, NEW h, NEW L, Whole(s, p, h, L, Null), NEW t \in Targets,
         s.targ[t].next # Null, <<"next", t>> \notin L
  PROVE  LET y == s.targ[t].next
         IN /\ y \in Trans /\ s.trans[y].target = t /\ p[y] = "next" /\ Trip(s, p, y)
            /\ Whole(s, [p EXCEPT ![y] = "served"], h, L \cup {<<"next", t>>}, y)
<1> DEFINE y == s.targ[t].next
           q == [p EXCEPT ![y] = "served"]
           M == L \cup {<<"next", t>>}
<1>1. y \in Trans /\ s.trans[y].target = t /\ Sound(s, q, h, M)
  BY WholeParts, TakeNext
<1>2. p[y] = "next"
  BY WholeParts, SoundParts DEF Pointed
<1>3. p \in [Trans -> Places]
  BY WholeParts
<1>4. q[y] = "served" /\ \A w \in Trans : w # y => q[w] = p[w]
  BY <1>1, <1>3
<1> HIDE DEF q, y, M
<1>5. AlikeAt(s, s, q, p, y)
  BY <1>2, <1>4, AlikeMoved DEF Silenced
<1>6. Whole(s, p, h, L, y) /\ Trip(s, p, y)
  BY <1>1, TakeUp
<1>7. Whole(s, q, h, M, y)
  BY <1>1, <1>4, <1>5, <1>6, PlaceWhole
<1> QED BY <1>1, <1>2, <1>6, <1>7 DEF q, y, M

LEMMA TakeStalledWhole ==
  ASSUME NEW s, NEW p, NEW h, NEW L, Whole(s, p, h, L, Null), NEW t \in Targets,
         s.targ[t].stalled # Null, <<"stalled", t>> \notin L
  PROVE  LET y == s.targ[t].stalled
         IN /\ y \in Trans /\ s.trans[y].target = t /\ p[y] = "stalled" /\ Trip(s, p, y)
            /\ Whole(s, [p EXCEPT ![y] = "accepted"], h, L \cup {<<"stalled", t>>}, y)
<1> DEFINE y == s.targ[t].stalled
           q == [p EXCEPT ![y] = "accepted"]
           M == L \cup {<<"stalled", t>>}
<1>1. y \in Trans /\ s.trans[y].target = t /\ Sound(s, q, h, M)
  BY WholeParts, TakeStalled
<1>2. p[y] = "stalled"
  BY WholeParts, SoundParts DEF Pointed
<1>3. p \in [Trans -> Places]
  BY WholeParts
<1>4. q[y] = "accepted" /\ \A w \in Trans : w # y => q[w] = p[w]
  BY <1>1, <1>3
<1> HIDE DEF q, y, M
<1>5. AlikeAt(s, s, q, p, y)
  BY <1>2, <1>4, AlikeMoved DEF Silenced
<1>6. Whole(s, p, h, L, y) /\ Trip(s, p, y)
  BY <1>1, TakeUp
<1>7. Whole(s, q, h, M, y)
  BY <1>1, <1>4, <1>5, <1>6, PlaceWhole
<1> QED BY <1>1, <1>2, <1>6, <1>7 DEF q, y, M

LEMMA StillTwice ==
  ASSUME NEW s, NEW r, NEW q, NEW x, Still(r, s, x), Still(q, r, x)
  PROVE  Still(q, s, x)
BY DEF Still, Along

(* A queue of the interconnect is written.                                 *)
LEMMA QueueWhole ==
  ASSUME NEW s, NEW p, NEW k, NEW L, NEW x, Whole(s, p, k, L, x), NEW r,
         Same(r, s, {"req_queue", "rsp_queue"}),
         NEW q, OnlyAt(q, p, x), AlikeAt(s, s, q, p, x),
         NEW g, NEW M, Sound(r, q, g, M)
  PROVE  /\ Whole(r, q, g, M, x) /\ SameTypes(r, s) /\ \A w : Still(r, s, w)
         /\ r.trans = s.trans /\ r.runnable = s.runnable /\ r.targ = s.targ
<1>1. r.targ = s.targ /\ r.peq = s.peq /\ r.trans = s.trans /\ r.runnable = s.runnable
  BY SameFields
<1>2. SameTypes(r, s) /\ SameResponding(r, s) /\ NoMoreEnds(r, s)
  BY <1>1, SameTarget, SameEnds
<1>3. {"req_queue", "rsp_queue"} \subseteq Quiet4
  BY DEF Quiet4
<1> QED BY <1>1, <1>2, <1>3, QuietWhole DEF OnlyAt

LEMMA QueueSame ==
  ASSUME NEW s, IsState(s), NEW v
  PROVE  /\ Same([s EXCEPT !.req_queue = v], s, {"req_queue", "rsp_queue"})
         /\ Same([s EXCEPT !.rsp_queue = v], s, {"req_queue", "rsp_queue"})
BY ZenonT(40), Set, SameMore

LEMMA QueueReqWhole ==
  ASSUME NEW s, NEW p, NEW h, NEW L, NEW x \in Trans, Whole(s, p, h, L, x), NEW t \in Targets,
         s.trans[x].target = t, p[x] = "sent", s.req[t] # Null
  PROVE  LET r == [Acquire(s, x) EXCEPT !.req_queue[t] = Append(@, x)]
         IN /\ Whole(r, [p EXCEPT ![x] = "req_queue"], h, L, x) /\ Still(r, s, x)
            /\ Stays(r, s, {"trans", "req_queue"})
<1> DEFINE a == Acquire(s, x)
           r == [a EXCEPT !.req_queue[t] = Append(@, x)]
           q == [p EXCEPT ![x] = "req_queue"]
           v == [a.req_queue EXCEPT ![t] = Append(@, x)]
<1>1. Whole(a, p, h, L, x) /\ Still(a, s, x)
  BY AcquireWhole
<1>2. Sound(r, q, h, L) /\ Keeps(r, s, {"trans", "req_queue"})
  BY WholeParts, QueueReqSound
<1>3. r = [a EXCEPT !.req_queue = v]
  OBVIOUS
<1>4. IsState(a)
  BY <1>1, WholeParts
<1> HIDE DEF v, a
<1>5. Same(r, a, {"req_queue", "rsp_queue"})
  BY <1>3, <1>4, QueueSame
<1>6. p \in [Trans -> Places]
  BY WholeParts
<1>7. q[x] = "req_queue" /\ OnlyAt(q, p, x)
  BY <1>6 DEF OnlyAt
<1> HIDE DEF r, q
<1>8. AlikeAt(a, a, q, p, x)
  BY <1>7, AlikeMoved DEF Silenced
<1>9. Whole(r, q, h, L, x) /\ Still(r, a, x)
  BY <1>1, <1>2, <1>5, <1>7, <1>8, QueueWhole
<1>10. Still(r, s, x)
  BY <1>1, <1>9, StillTwice
<1>11. Stays(r, s, {"trans", "req_queue"})
  BY <1>2, KeepsStays
<1> QED BY <1>9, <1>10, <1>11 DEF r, q, a

LEMMA QueueRspWhole ==
  ASSUME NEW s, NEW p, NEW h, NEW L, NEW x \in Trans, Whole(s, p, h, L, x), NEW i \in Inits,
         s.trans[x].init = i, p[x] = "served", s.rsp[i] # Null
  PROVE  LET r == QueueRsp(s, i, x)
         IN /\ Whole(r, [p EXCEPT ![x] = "rsp_queue"], h, L, x) /\ Still(r, s, x)
            /\ Stays(r, s, {"trans", "rsp_queue"})
<1> DEFINE a == Acquire(s, x)
           r == QueueRsp(s, i, x)
           q == [p EXCEPT ![x] = "rsp_queue"]
           v == [a.rsp_queue EXCEPT ![i] = Append(@, x)]
<1>1. Whole(a, p, h, L, x) /\ Still(a, s, x)
  BY AcquireWhole
<1>2. Sound(r, q, h, L) /\ Keeps(r, s, {"trans", "rsp_queue"})
  BY WholeParts, QueueRspSound
<1>3. r = [a EXCEPT !.rsp_queue = v]
  BY DEF QueueRsp
<1>4. IsState(a)
  BY <1>1, WholeParts
<1> HIDE DEF v, a, r
<1>5. Same(r, a, {"req_queue", "rsp_queue"})
  BY <1>3, <1>4, QueueSame
<1>6. p \in [Trans -> Places]
  BY WholeParts
<1>7. q[x] = "rsp_queue" /\ OnlyAt(q, p, x)
  BY <1>6 DEF OnlyAt
<1> HIDE DEF q
<1>8. AlikeAt(a, a, q, p, x)
  BY <1>7, AlikeMoved DEF Silenced
<1>9. Whole(r, q, h, L, x) /\ Still(r, a, x)
  BY <1>1, <1>2, <1>5, <1>7, <1>8, QueueWhole
<1>10. Still(r, s, x)
  BY <1>1, <1>9, StillTwice
<1>11. Stays(r, s, {"trans", "rsp_queue"})
  BY <1>2, KeepsStays
<1> QED BY <1>9, <1>10, <1>11 DEF r, q

(* The head of a queue is taken up, with the reference of the queue.       *)
LEMMA TailReqWhole ==
  ASSUME NEW s, NEW p, NEW L, Whole(s, p, Null, L, Null), NEW t \in Targets, s.req_queue[t] # << >>
  PROVE  LET x == Head(s.req_queue[t])
             r == [s EXCEPT !.req_queue[t] = Tail(@)]
         IN /\ x \in Trans /\ s.trans[x].target = t /\ p[x] = "req_queue" /\ Trip(s, p, x)
            /\ Whole(r, [p EXCEPT ![x] = "sent"], x, L, x) /\ Still(r, s, x)
            /\ Same(r, s, {"req_queue"})
<1> DEFINE x == Head(s.req_queue[t])
           v == [s.req_queue EXCEPT ![t] = Tail(@)]
           r == [s EXCEPT !.req_queue[t] = Tail(@)]
           q == [p EXCEPT ![x] = "sent"]
<1>1. x \in Trans /\ s.trans[x].target = t /\ Sound(r, q, x, L)
  BY WholeParts, TailReqSound
<1>2. p[x] = "req_queue"
  <2>1. s.req_queue[t] \in Seq(Trans) /\ Queued(s, p)
    BY WholeParts, SoundParts DEF Typed
  <2>2. Head(s.req_queue[t]) = s.req_queue[t][1] /\ 1 \in 1..Len(s.req_queue[t])
    BY <2>1, Tailed
  <2> QED BY <2>1, <2>2 DEF Queued
<1>3. r = [s EXCEPT !.req_queue = v]
  OBVIOUS
<1>4. IsState(s) /\ p \in [Trans -> Places]
  BY WholeParts
<1> HIDE DEF x, v
<1>5. Same(r, s, {"req_queue", "rsp_queue"}) /\ Same(r, s, {"req_queue"})
  BY <1>3, <1>4, QueueSame, Set
<1>6. q[x] = "sent" /\ OnlyAt(q, p, x)
  BY <1>1, <1>4 DEF OnlyAt
<1> HIDE DEF r, q
<1>7. AlikeAt(s, s, q, p, x)
  BY <1>2, <1>6, AlikeMoved DEF Silenced
<1>8. Whole(s, p, Null, L, x) /\ Trip(s, p, x)
  BY <1>1, TakeUp
<1>9. Whole(r, q, x, L, x) /\ Still(r, s, x)
  BY <1>1, <1>5, <1>6, <1>7, <1>8, QueueWhole
<1> QED BY <1>1, <1>2, <1>5, <1>8, <1>9 DEF r, q, x

LEMMA TailRspWhole ==
  ASSUME NEW s, NEW p, NEW L, Whole(s, p, Null, L, Null), NEW i \in Inits, s.rsp_queue[i] # << >>
  PROVE  LET x == Head(s.rsp_queue[i])
             r == [s EXCEPT !.rsp_queue[i] = Tail(@)]
         IN /\ x \in Trans /\ s.trans[x].init = i /\ p[x] = "rsp_queue" /\ Trip(s, p, x)
            /\ Whole(r, [p EXCEPT ![x] = "served"], x, L, x) /\ Still(r, s, x)
            /\ Same(r, s, {"rsp_queue"})
<1> DEFINE x == Head(s.rsp_queue[i])
           v == [s.rsp_queue EXCEPT ![i] = Tail(@)]
           r == [s EXCEPT !.rsp_queue[i] = Tail(@)]
           q == [p EXCEPT ![x] = "served"]
<1>1. x \in Trans /\ s.trans[x].init = i /\ Sound(r, q, x, L)
  BY WholeParts, TailRspSound
<1>2. p[x] = "rsp_queue"
  <2>1. s.rsp_queue[i] \in Seq(Trans) /\ Queued(s, p)
    BY WholeParts, SoundParts DEF Typed
  <2>2. Head(s.rsp_queue[i]) = s.rsp_queue[i][1] /\ 1 \in 1..Len(s.rsp_queue[i])
    BY <2>1, Tailed
  <2> QED BY <2>1, <2>2 DEF Queued
<1>3. r = [s EXCEPT !.rsp_queue = v]
  OBVIOUS
<1>4. IsState(s) /\ p \in [Trans -> Places]
  BY WholeParts
<1> HIDE DEF x, v
<1>5. Same(r, s, {"req_queue", "rsp_queue"}) /\ Same(r, s, {"rsp_queue"})
  BY <1>3, <1>4, QueueSame, Set
<1>6. q[x] = "served" /\ OnlyAt(q, p, x)
  BY <1>1, <1>4 DEF OnlyAt
<1> HIDE DEF r, q
<1>7. AlikeAt(s, s, q, p, x)
  BY <1>2, <1>6, AlikeMoved DEF Silenced
<1>8. Whole(s, p, Null, L, x) /\ Trip(s, p, x)
  BY <1>1, TakeUp
<1>9. Whole(r, q, x, L, x) /\ Still(r, s, x)
  BY <1>1, <1>5, <1>6, <1>7, <1>8, QueueWhole
<1> QED BY <1>1, <1>2, <1>5, <1>8, <1>9 DEF r, q, x

(* No request has begun on the hop of i, and no end of one is on its way.  *)
OnceAsked(s, i) ==
  /\ \A y \in Trans : On(s, i, y) # "BEGIN_REQ"
  /\ \A e \in DOMAIN s.peq : e.phase = "END_REQ" => e.at # i
  /\ \A e \in DOMAIN s.overdue.entries : e.at # i

NoneAsked(s, i) == i \in s.overdue.inits \/ OnceAsked(s, i)

(* An entry of an event queue is taken, or one that is overdue.            *)
ComesOut(r, s) ==
  /\ Same(r, s, {"peq", "overdue"}) /\ s.overdue.inits \subseteq r.overdue.inits
  /\ r.init = s.init /\ \A g, y : On(r, g, y) = On(s, g, y)
  /\ Ends(r)

LEMMA ComesOutWhole ==
  ASSUME NEW s, NEW p, NEW k, NEW L, NEW x, Whole(s, p, k, L, x), NEW r, ComesOut(r, s),
         NEW q, OnlyAt(q, p, x), AlikeAt(s, s, q, p, x),
         NEW g, NEW M, Sound(r, q, g, M)
  PROVE  Whole(r, q, g, M, x) /\ \A y : Still(r, s, y)
<1>1. /\ r.init = s.init /\ r.req = s.req /\ r.rsp = s.rsp /\ r.runnable = s.runnable
      /\ r.check = s.check /\ r.path = s.path /\ r.faults = s.faults /\ r.trans = s.trans
      /\ r.targ = s.targ
  BY SameFields DEF ComesOut
<1>2. Elsewhere(r, s, q, p, x)
  BY <1>1 DEF Elsewhere, ComesOut, SameTypes, OnlyAt
<1>3. Checked(r) /\ Trips(r, q, x) /\ \A h, y : On(r, h, y) = On(s, h, y)
  BY <1>2, KeepTrips
<1>4. Asked(r) /\ Answered(r) /\ Requested(r)
  BY <1>1, <1>3, WholeParts, KeepAsked, KeepAnswered, KeepRequested DEF ComesOut
<1>5. Responses(r, q)
  <2>1. ASSUME NEW t \in Targets, NEW y \in Trans
        PROVE  Responding(r, q, t, y) <=> Responding(s, p, t, y)
    <3>1. CASE y = x
      BY <1>1, <1>3, <3>1 DEF AlikeAt, Responding
    <3>2. CASE y # x
      BY <1>1, <1>3, <3>2 DEF OnlyAt, Responding
    <3> QED BY <3>1, <3>2
  <2>2. SameTypes(r, s)
    BY <1>2 DEF Elsewhere
  <2> QED BY <1>1, <2>1, <2>2, WholeParts, KeepResponses
<1>6. \A y : Still(r, s, y)
  BY <1>1 DEF Still, Along
<1> QED BY <1>3, <1>4, <1>5, <1>6 DEF Whole, Hopped, ComesOut

LEMMA WithoutComesOut ==
  ASSUME NEW s, NEW p, NEW h, NEW L, NEW x, Whole(s, p, h, L, x), NEW e \in DOMAIN s.peq,
         s.peq = peq
  PROVE  ComesOut(Without(s, e), s)
<1> DEFINE r == Without(s, e)
<1>1. Same(r, s, {"peq", "overdue"}) /\ Leaves(r, s, e) /\ r.init = s.init
  BY WholeParts, WithoutSame
<1> HIDE DEF r
<1>2. s.overdue.inits \subseteq r.overdue.inits
  BY <1>1 DEF Leaves
<1>3. \A g, y : On(r, g, y) = On(s, g, y)
  <2>1. r.check = s.check
    BY <1>1, SameFields
  <2> QED BY <2>1 DEF On
<1>4. PostedEnds(r)
  <2> SUFFICES ASSUME NEW f \in DOMAIN r.peq, f.phase = "END_REQ", f.at \notin r.overdue.inits
               PROVE  /\ r.peq[f] = 1 /\ f \notin DOMAIN r.overdue.entries
                      /\ r.init[f.at].req = f.trans /\ On(r, f.at, f.trans) = "END_REQ"
    BY DEF PostedEnds
  <2>1. f \in DOMAIN s.peq /\ f \notin LateWith(s, e)
    BY <1>1 DEF Leaves, Less
  <2>2. /\ s.peq[f] = 1 /\ f \notin DOMAIN s.overdue.entries
        /\ s.init[f.at].req = f.trans /\ On(s, f.at, f.trans) = "END_REQ"
    BY <1>2, <2>1, WholeParts DEF Ends, PostedEnds
  <2>3. r.peq[f] = 1
    BY <1>1, <2>2 DEF Leaves, Less
  <2>4. f \notin DOMAIN r.overdue.entries
    BY <1>1, <2>1, <2>2 DEF Leaves, Joins
  <2> QED BY <1>1, <1>3, <2>2, <2>3, <2>4
<1>5. OverdueEnds(r)
  <2> SUFFICES ASSUME NEW f \in DOMAIN r.overdue.entries, f.at \notin r.overdue.inits
               PROVE  /\ f.at \in InitsA /\ r.overdue.entries[f] = 1
                      /\ r.init[f.at].req = f.trans
                      /\ On(r, f.at, f.trans) \in {"END_REQ", "BEGIN_RESP"}
    BY DEF OverdueEnds
  <2>1. CASE f \in LateWith(s, e)
    <3>1. f \in DOMAIN s.peq /\ f.phase = "END_REQ"
      BY <2>1 DEF LateWith, BagToSet
    <3>2. f.at \in Inits
      BY <3>1, WholeParts, SoundParts DEF Posted
    <3>3. f.at \in InitsA
      BY <1>1, <2>1, <3>2 DEF Leaves, Hurt, Inits
    <3>4. /\ s.peq[f] = 1 /\ f \notin DOMAIN s.overdue.entries
          /\ s.init[f.at].req = f.trans /\ On(s, f.at, f.trans) = "END_REQ"
      BY <1>2, <3>1, WholeParts DEF Ends, PostedEnds
    <3>5. r.overdue.entries[f] = 1
      BY <1>1, <2>1, <3>4 DEF Leaves, Joins
    <3> QED BY <1>1, <1>3, <3>3, <3>4, <3>5
  <2>2. CASE f \notin LateWith(s, e)
    <3>1. f \in DOMAIN s.overdue.entries /\ r.overdue.entries[f] = s.overdue.entries[f]
      BY <1>1, <2>2 DEF Leaves, Joins
    <3>2. /\ f.at \in InitsA /\ s.overdue.entries[f] = 1 /\ s.init[f.at].req = f.trans
          /\ On(s, f.at, f.trans) \in {"END_REQ", "BEGIN_RESP"}
      BY <1>2, <3>1, WholeParts DEF Ends, OverdueEnds
    <3> QED BY <1>1, <1>3, <3>1, <3>2
  <2> QED BY <2>1, <2>2
<1>6. InOrder(r)
  <2> SUFFICES ASSUME NEW g \in DOMAIN peq, g.phase = "BEGIN_RESP", g \notin later.entries,
                      NEW f \in DOMAIN r.overdue.entries
               PROVE  f.trans # g.trans
    BY DEF InOrder
  <2>1. CASE f \in LateWith(s, e)
    <3>1. e.phase = "internal_ph" /\ f.trans = e.trans
      BY <2>1 DEF LateWith
    <3>2. p[g.trans] = "begin_resp" /\ p[e.trans] = "internal"
      <4>1. Posted(s, p)
        BY WholeParts, SoundParts
      <4>2. g \in DOMAIN s.peq
        OBVIOUS
      <4> QED BY <3>1, <4>1, <4>2 DEF Posted, PlaceOf, Phases
    <3> QED BY <3>1, <3>2
  <2>2. CASE f \notin LateWith(s, e)
    <3>1. f \in DOMAIN s.overdue.entries
      BY <1>1, <2>2 DEF Leaves, Joins
    <3> QED BY <3>1, WholeParts DEF Ends, InOrder
  <2> QED BY <2>1, <2>2
<1>7. Ends(r)
  BY <1>4, <1>5, <1>6 DEF Ends
<1> QED BY <1>1, <1>2, <1>3, <1>7 DEF ComesOut, r

LEMMA TakenWhole ==
  ASSUME NEW s, NEW p, NEW h, NEW L, Whole(s, p, h, L, Null), NEW e \in DOMAIN s.peq,
         s.peq = peq, e.phase # "END_REQ"
  PROVE  LET r == Without(s, e)
             x == e.trans
         IN /\ x \in Trans /\ p[x] = PlaceOf[e.phase] /\ Trip(s, p, x)
            /\ Whole(r, [p EXCEPT ![x] = PlaceAfter[e.phase]], h, L, x) /\ Still(r, s, x)
            /\ Same(r, s, {"peq", "overdue"})
<1> DEFINE r == Without(s, e)
           x == e.trans
           q == [p EXCEPT ![x] = PlaceAfter[e.phase]]
<1>1. x \in Trans /\ Sound(r, q, h, L)
  BY WholeParts, TakenSound
<1>2. Same(r, s, {"peq", "overdue"})
  BY WholeParts, WithoutSame
<1>3. p[x] = PlaceOf[e.phase] /\ Entry # {} /\ e \in Entry /\ p \in [Trans -> Places]
  BY WholeParts, SoundParts DEF Posted, Typed
<1>5. q[x] = PlaceAfter[e.phase] /\ OnlyAt(q, p, x)
  BY <1>1, <1>3 DEF OnlyAt
<1>7. e.phase = "END_RESP" => ~s.trans[x].dont_propagate_fw
  <2>1. ASSUME e.phase = "END_RESP"
        PROVE  s.trans[x].target \in Targets /\ s.targ[s.trans[x].target].type \in {"A", "B", "C"}
    BY <2>1, WholeParts, SoundParts DEF Posted
  <2>2. e.phase = "END_RESP" => p[x] \in Routed
    BY <1>3 DEF PlaceOf, Phases, Routed, Places
  <2> QED BY <1>1, <2>1, <2>2, WholeParts, NotDone
<1> HIDE DEF r, q
<1>8. AlikeAt(s, s, q, p, x)
  <2>1. \/ p[x] \notin Silenced /\ q[x] \notin Silenced
        \/ p[x] = "end_resp" /\ q[x] = "answered" /\ ~s.trans[x].dont_propagate_fw
    BY <1>3, <1>5, <1>7 DEF PlaceOf, PlaceAfter, Phases, Entry, Silenced
  <2> QED BY <2>1, AlikeMoved
<1>9. Whole(s, p, h, L, x) /\ Trip(s, p, x)
  BY <1>1, TakeUp
<1>10. ComesOut(r, s)
  BY <1>9, WithoutComesOut DEF r
<1> HIDE DEF r
<1>11. Whole(r, q, h, L, x) /\ Still(r, s, x)
  BY <1>1, <1>5, <1>8, <1>9, <1>10, ComesOutWhole
<1> QED BY <1>1, <1>2, <1>3, <1>9, <1>11 DEF r, q

LEMMA EntryEqual ==
  ASSUME NEW e \in Entry, NEW f \in Entry, f.at = e.at, f.trans = e.trans, f.phase = e.phase
  PROVE  f = e
BY DEF Entry

LEMMA TakenEndReqWhole ==
  ASSUME NEW s, NEW p, NEW h, NEW L, Whole(s, p, h, L, Null), NEW e \in DOMAIN s.peq,
         s.peq = peq, e.phase = "END_REQ"
  PROVE  LET r == Without(s, e)
         IN Whole(r, p, h, L, Null) /\ NoneAsked(r, e.at)
<1> DEFINE r == Without(s, e)
<1>1. Sound(r, p, h, L)
  BY WholeParts, TakenEndReq
<1>2. ComesOut(r, s)
  BY WithoutComesOut
<1>3. AlikeAt(s, s, p, p, Null) /\ OnlyAt(p, p, Null)
  BY AlikeItself DEF OnlyAt
<1>4. Leaves(r, s, e)
  BY WholeParts, WithoutSame
<1> HIDE DEF r
<1>5. Whole(r, p, h, L, Null)
  BY <1>1, <1>2, <1>3, ComesOutWhole
<1>6. NoneAsked(r, e.at)
  <2>1. e \in Entry /\ e.at \in Inits /\ DOMAIN s.peq \subseteq Entry
    BY WholeParts, SoundParts DEF Posted, Typed
  <2> SUFFICES ASSUME e.at \notin r.overdue.inits
               PROVE  OnceAsked(r, e.at)
    BY DEF NoneAsked
  <2>2. r.init = s.init /\ \A g, y : On(r, g, y) = On(s, g, y)
    BY <1>2 DEF ComesOut
  <2>3. e.at \notin s.overdue.inits
    BY <1>2 DEF ComesOut
  <2>4. s.init[e.at].req = e.trans /\ On(s, e.at, e.trans) = "END_REQ" /\ s.peq[e] = 1
        /\ e \notin DOMAIN s.overdue.entries
    BY <2>3, WholeParts DEF Ends, PostedEnds
  <2>5. \A y \in Trans : On(r, e.at, y) # "BEGIN_REQ"
    BY <2>1, <2>2, <2>3, <2>4, WholeParts DEF Asked
  <2>6. ASSUME NEW f \in DOMAIN r.peq, f.phase = "END_REQ", f.at = e.at PROVE FALSE
    <3>1. f \in DOMAIN s.peq /\ e \notin DOMAIN r.peq
      BY <1>4, <2>4, <2>6 DEF Leaves, Less
    <3>2. s.init[e.at].req = f.trans
      BY <2>3, <2>6, <3>1, WholeParts DEF Ends, PostedEnds
    <3>3. f = e
      BY <2>1, <2>4, <2>6, <3>1, <3>2, EntryEqual
    <3> QED BY <2>6, <3>1, <3>3
  <2>7. ASSUME NEW f \in DOMAIN r.overdue.entries, f.at = e.at PROVE FALSE
    <3>1. f \in DOMAIN s.overdue.entries
      BY <1>4, <2>7 DEF Leaves, Joins, LateWith
    <3>e. f \in Entry /\ f.phase = "END_REQ"
      BY <3>1, WholeParts DEF Typed, OverdueTyped
    <3>2. s.init[e.at].req = f.trans
      BY <2>3, <2>7, <3>1, WholeParts DEF Ends, OverdueEnds
    <3>3. f = e
      BY <2>1, <2>4, <2>7, <3>2, <3>e, EntryEqual
    <3> QED BY <2>4, <3>1, <3>3
  <2> QED BY <2>5, <2>6, <2>7 DEF OnceAsked
<1> QED BY <1>5, <1>6 DEF r

LEMMA TakenLateWhole ==
  ASSUME NEW s, NEW p, NEW h, NEW L, Whole(s, p, h, L, Null), NEW e \in DOMAIN s.overdue.entries
  PROVE  LET r == Late(s, e)
         IN Whole(r, p, h, L, Null) /\ NoneAsked(r, e.at)
<1> DEFINE r == Late(s, e)
<1>1. /\ Sound(r, p, h, L) /\ r.overdue.inits = s.overdue.inits
      /\ Same(r, s, {"overdue"}) /\ Less(r.overdue.entries, s.overdue.entries, e)
  BY WholeParts, TakenLateSound
<1> HIDE DEF r
<1>2. AlikeAt(s, s, p, p, Null) /\ OnlyAt(p, p, Null)
  BY AlikeItself DEF OnlyAt
<1>3. r.peq = s.peq /\ r.init = s.init /\ r.check = s.check
  BY <1>1, SameFields
<1>4. \A g, y : On(r, g, y) = On(s, g, y)
  BY <1>3 DEF On
<1>5. Ends(r)
  <2>1. PostedEnds(r)
    BY <1>1, <1>3, <1>4, WholeParts DEF Ends, PostedEnds, Less
  <2>2. OverdueEnds(r)
    <3> SUFFICES ASSUME NEW f \in DOMAIN r.overdue.entries, f.at \notin r.overdue.inits
                 PROVE  /\ f.at \in InitsA /\ r.overdue.entries[f] = 1
                        /\ r.init[f.at].req = f.trans
                        /\ On(r, f.at, f.trans) \in {"END_REQ", "BEGIN_RESP"}
      BY DEF OverdueEnds
    <3>1. /\ f \in DOMAIN s.overdue.entries /\ f.at \in InitsA /\ s.overdue.entries[f] = 1
          /\ s.init[f.at].req = f.trans /\ On(s, f.at, f.trans) \in {"END_REQ", "BEGIN_RESP"}
      BY <1>1, WholeParts DEF Ends, OverdueEnds, Less
    <3>2. f # e
      BY <1>1, <3>1 DEF Less
    <3>3. r.overdue.entries[f] = 1
      BY <1>1, <3>1, <3>2 DEF Less
    <3> QED BY <1>3, <1>4, <3>1, <3>3
  <2>3. InOrder(r)
    BY <1>1, WholeParts DEF Ends, InOrder, Less
  <2> QED BY <2>1, <2>2, <2>3 DEF Ends
<1>6. ComesOut(r, s)
  BY <1>1, <1>3, <1>4, <1>5, SameMore DEF ComesOut
<1>7. Whole(r, p, h, L, Null)
  BY <1>1, <1>2, <1>6, ComesOutWhole
<1>8. NoneAsked(r, e.at)
  <2> SUFFICES ASSUME e.at \notin s.overdue.inits
               PROVE  OnceAsked(r, e.at)
    BY <1>1 DEF NoneAsked
  <2>1. e \in Entry /\ e.at \in Inits /\ e.phase = "END_REQ" /\ DOMAIN s.peq \subseteq Entry
        /\ \A f \in DOMAIN s.overdue.entries : f \in Entry /\ f.phase = "END_REQ"
    <3>1. OverdueTyped(s.overdue) /\ DOMAIN s.peq \subseteq Entry
      BY WholeParts DEF Typed
    <3> QED BY <3>1 DEF OverdueTyped
  <2>2. /\ s.init[e.at].req = e.trans /\ On(s, e.at, e.trans) \in {"END_REQ", "BEGIN_RESP"}
        /\ s.overdue.entries[e] = 1
    BY WholeParts DEF Ends, OverdueEnds
  <2>3. \A y \in Trans : On(r, e.at, y) # "BEGIN_REQ"
    BY <1>4, <2>1, <2>2, WholeParts DEF Asked
  <2>4. ASSUME NEW f \in DOMAIN r.peq, f.phase = "END_REQ", f.at = e.at PROVE FALSE
    <3>1. s.init[e.at].req = f.trans /\ f \in DOMAIN s.peq /\ f \notin DOMAIN s.overdue.entries
      BY <1>3, <2>4, WholeParts DEF Ends, PostedEnds
    <3>2. f = e
      BY <1>3, <2>1, <2>2, <2>4, <3>1, EntryEqual
    <3> QED BY <3>1, <3>2
  <2>5. ASSUME NEW f \in DOMAIN r.overdue.entries, f.at = e.at PROVE FALSE
    <3>1. f \in DOMAIN s.overdue.entries /\ e \notin DOMAIN r.overdue.entries
      BY <1>1, <2>2, <2>5 DEF Less
    <3>2. s.init[e.at].req = f.trans
      BY <2>5, <3>1, WholeParts DEF Ends, OverdueEnds
    <3>3. f = e
      BY <2>1, <2>2, <2>5, <3>1, <3>2, EntryEqual
    <3> QED BY <2>5, <3>1, <3>3
  <2> QED BY <2>3, <2>4, <2>5 DEF OnceAsked
<1> QED BY <1>7, <1>8 DEF r

-----------------------------------------------------------------------------
(* What the hops do depend on.  No end of a request of x is on its way     *)
(* while the initiator has not been told.                                  *)
NoEndOf(s, i, x) ==
  \/ i \in s.overdue.inits
  \/ /\ \A e \in DOMAIN s.peq : ~(e.phase = "END_REQ" /\ e.at = i /\ e.trans = x)
     /\ \A e \in DOMAIN s.overdue.entries : ~(e.at = i /\ e.trans = x)

LEMMA NoEndYet ==
  ASSUME NEW s, NEW p, NEW k, NEW L, NEW x, Whole(s, p, k, L, x), NEW i,
         On(s, i, x) = "BEGIN_REQ"
  PROVE  NoEndOf(s, i, x)
BY WholeParts DEF Ends, PostedEnds, OverdueEnds, NoEndOf

(* The end of the request of x is on its way to the initiator.             *)
LEMMA PostEndReqWhole ==
  ASSUME NEW s, NEW p, NEW k, NEW L, NEW x \in Trans, Whole(s, p, k, L, x), NEW i \in Inits,
         p[x] \in {"accepted", "internal"}, On(s, i, x) = "END_REQ", NoEndOf(s, i, x),
         i \in s.overdue.inits \/ s.init[i].req = x
  PROVE  LET r == Post(s, i, x, "END_REQ")
         IN /\ Whole(r, p, k, L, x) /\ Same(r, s, {"peq"}) /\ Still(r, s, x)
            /\ r.targ = s.targ /\ r.trans = s.trans
<1> DEFINE r == Post(s, i, x, "END_REQ")
           e == [at |-> i, trans |-> x, phase |-> "END_REQ"]
<1>1. Sound(r, p, k, L)
  BY WholeParts, PostEndReq
<1>2. Same(r, s, {"peq"}) /\ r.trans = s.trans /\ r.targ = s.targ
  BY WholeParts, PostSame
<1>3. e.at = i /\ e.trans = x /\ e.phase = "END_REQ"
  OBVIOUS
<1>4. More(r.peq, s.peq, e)
  <2>1. IsState(s) /\ IsABag(s.peq)
    BY WholeParts DEF Typed
  <2>2. r.peq = s.peq (+) SetToBag({e})
    BY <2>1, SetToo DEF Post
  <2> HIDE DEF e, r
  <2> QED BY <2>1, <2>2, BagMore
<1> HIDE DEF r, e
<1>5. Elsewhere(r, s, p, p, x)
  BY <1>2, SameFields DEF Elsewhere, SameTypes
<1>6. Checked(r) /\ Trips(r, p, x) /\ \A g, y : On(r, g, y) = On(s, g, y)
  BY <1>5, KeepTrips
<1>7. /\ r.init = s.init /\ r.req = s.req /\ r.rsp = s.rsp /\ r.runnable = s.runnable
      /\ r.overdue = s.overdue
  BY <1>2, SameFields
<1>8. Asked(r) /\ Answered(r) /\ Requested(r)
  BY <1>6, <1>7, WholeParts, KeepAsked, KeepAnswered, KeepRequested
<1>9. Ends(r)
  <2>p. PostedEnds(s) /\ OverdueEnds(s) /\ InOrder(s)
    BY WholeParts DEF Ends
  <2> SUFFICES ASSUME NEW f \in DOMAIN r.peq, f.phase = "END_REQ", f.at \notin s.overdue.inits
               PROVE  /\ r.peq[f] = 1 /\ f \notin DOMAIN s.overdue.entries
                      /\ s.init[f.at].req = f.trans /\ On(s, f.at, f.trans) = "END_REQ"
    BY <1>6, <1>7, <2>p DEF Ends, PostedEnds, OverdueEnds, InOrder
  <2>1. CASE f = e
    <3>1. e \notin DOMAIN s.peq /\ e \notin DOMAIN s.overdue.entries
      BY <1>3, <2>1 DEF NoEndOf
    <3> QED BY <1>3, <1>4, <2>1, <3>1 DEF More
  <2>2. CASE f # e
    BY <1>4, <2>2, <2>p DEF More, PostedEnds
  <2> QED BY <2>1, <2>2
<1>10. Responses(r, p)
  <2>1. \A t \in Targets, y \in Trans : Responding(r, p, t, y) <=> Responding(s, p, t, y)
    BY <1>2, <1>6 DEF Responding
  <2>2. SameTypes(r, s)
    BY <1>2 DEF SameTypes
  <2> QED BY <1>2, <1>7, <2>1, <2>2, WholeParts, KeepResponses
<1>11. Whole(r, p, k, L, x)
  BY <1>1, <1>6, <1>8, <1>9, <1>10 DEF Whole, Hopped
<1>12. Still(r, s, x)
  BY <1>2, StillAll
<1> QED BY <1>2, <1>11, <1>12 DEF r

(* The interconnect notes down the request that is in progress at t: none  *)
(* has begun there.                                                        *)
NoneBegun(s, t) == \A y \in Trans : On(s, t, y) # "BEGIN_REQ"
NoneResponding(s, i) == \A y \in Trans : On(s, i, y) # "BEGIN_RESP"

(* Only what is noted down in the interconnect changes.                    *)
Noticed(r, s) ==
  /\ Same(r, s, {"req", "rsp", "runnable"})
  /\ \A t \in Targets : <<"send_rsp", t>> \in r.runnable => <<"send_rsp", t>> \in s.runnable

LEMMA NoticedWhole ==
  ASSUME NEW s, NEW p, NEW k, NEW L, NEW x, Whole(s, p, k, L, x), NEW r, Noticed(r, s),
         Sound(r, p, k, L), Answered(r), Requested(r)
  PROVE  /\ Whole(r, p, k, L, x) /\ \A y : Still(r, s, y)
         /\ r.trans = s.trans /\ r.targ = s.targ /\ r.peq = s.peq /\ r.init = s.init
<1>1. /\ r.trans = s.trans /\ r.targ = s.targ /\ r.peq = s.peq /\ r.init = s.init
      /\ r.check = s.check /\ r.path = s.path /\ r.faults = s.faults /\ r.overdue = s.overdue
  BY SameFields DEF Noticed
<1>2. Elsewhere(r, s, p, p, x)
  BY <1>1 DEF Elsewhere, SameTypes
<1>3. Checked(r) /\ Trips(r, p, x) /\ \A g, y : On(r, g, y) = On(s, g, y)
  BY <1>2, KeepTrips
<1>4. NoMoreEnds(r, s) /\ SameTypes(r, s)
  BY <1>1 DEF NoMoreEnds, SameTypes
<1>5. Asked(r) /\ Ends(r)
  BY <1>1, <1>3, <1>4, WholeParts, KeepAsked, KeepEnds
<1>6. Responses(r, p)
  <2>1. \A t \in Targets, y \in Trans : Responding(r, p, t, y) <=> Responding(s, p, t, y)
    BY <1>1, <1>3 DEF Responding
  <2> QED BY <1>1, <1>4, <2>1, WholeParts, KeepResponses DEF Noticed
<1>7. \A y : Still(r, s, y)
  BY <1>1 DEF Still, Along
<1> QED BY <1>1, <1>3, <1>5, <1>6, <1>7 DEF Whole, Hopped

LEMMA SetReqWhole ==
  ASSUME NEW s, NEW p, NEW k, NEW L, NEW x, Whole(s, p, k, L, x), NEW t \in Targets, NEW v \in Pointer,
         v = Null => s.req_queue[t] = << >> /\ <<"end_req", t>> \notin s.runnable,
         NoneBegun(s, t)
  PROVE  LET r == [s EXCEPT !.req[t] = v]
         IN /\ Whole(r, p, k, L, x) /\ Still(r, s, x) /\ Same(r, s, {"req"}) /\ r.req[t] = v
            /\ r.trans = s.trans
<1> DEFINE w == [s.req EXCEPT ![t] = v]
           r == [s EXCEPT !.req = w]
<1>1. Sound(r, p, k, L)
  BY WholeParts, SetReq
<1>2. w[t] = v /\ \A u \in Targets : u # t => w[u] = s.req[u]
  BY WholeParts DEF Typed
<1> HIDE DEF w
<1>3. Same(r, s, {"req"}) /\ r.req = w
  BY WholeParts, Set
<1> HIDE DEF r
<1>4. r.rsp = s.rsp /\ r.runnable = s.runnable /\ r.check = s.check
  BY <1>3, SameFields
<1>5. \A g, y : On(r, g, y) = On(s, g, y)
  BY <1>4 DEF On
<1>6. Answered(r)
  BY <1>4, <1>5, WholeParts, KeepAnswered
<1>7. Requested(r)
  <2> SUFFICES ASSUME NEW u \in Targets
               PROVE  /\ \A y \in Trans : On(r, u, y) = "BEGIN_REQ" =>
                           r.req[u] = y /\ <<"end_req", u>> \notin r.runnable
                      /\ <<"end_req", u>> \in r.runnable => r.req[u] # Null
    BY DEF Requested
  <2>1. CASE u = t
    <3>1. \A y \in Trans : On(r, u, y) # "BEGIN_REQ"
      BY <1>5, <2>1 DEF NoneBegun
    <3>2. r.req[u] = v
      BY <1>2, <1>3, <2>1
    <3> QED BY <1>4, <2>1, <3>1, <3>2
  <2>2. CASE u # t
    <3>1. r.req[u] = s.req[u]
      BY <1>2, <1>3, <2>2
    <3> QED BY <1>4, <1>5, <3>1, WholeParts DEF Requested
  <2> QED BY <2>1, <2>2
<1>8. Noticed(r, s)
  BY <1>3, <1>4, SameMore DEF Noticed
<1>9. Whole(r, p, k, L, x) /\ Still(r, s, x) /\ r.trans = s.trans
  BY <1>1, <1>6, <1>7, <1>8, NoticedWhole
<1> QED BY <1>2, <1>3, <1>9 DEF r, w

LEMMA SetRspWhole ==
  ASSUME NEW s, NEW p, NEW k, NEW L, NEW x, Whole(s, p, k, L, x), NEW i \in Inits, NEW v \in Pointer,
         v = Null => s.rsp_queue[i] = << >> /\ <<"end_rsp", i>> \notin s.runnable,
         NoneResponding(s, i)
  PROVE  LET r == [s EXCEPT !.rsp[i] = v]
         IN /\ Whole(r, p, k, L, x) /\ Still(r, s, x) /\ Same(r, s, {"rsp"}) /\ r.rsp[i] = v
            /\ r.trans = s.trans
<1> DEFINE w == [s.rsp EXCEPT ![i] = v]
           r == [s EXCEPT !.rsp = w]
<1>1. Sound(r, p, k, L)
  BY WholeParts, SetRsp
<1>2. w[i] = v /\ \A u \in Inits : u # i => w[u] = s.rsp[u]
  BY WholeParts DEF Typed
<1> HIDE DEF w
<1>3. Same(r, s, {"rsp"}) /\ r.rsp = w
  BY WholeParts, Set
<1> HIDE DEF r
<1>4. r.req = s.req /\ r.runnable = s.runnable /\ r.check = s.check
  BY <1>3, SameFields
<1>5. \A g, y : On(r, g, y) = On(s, g, y)
  BY <1>4 DEF On
<1>6. Requested(r)
  BY <1>4, <1>5, WholeParts, KeepRequested
<1>7. Answered(r)
  <2> SUFFICES ASSUME NEW u \in Inits
               PROVE  /\ \A y \in Trans : On(r, u, y) = "BEGIN_RESP" =>
                           r.rsp[u] = y /\ <<"end_rsp", u>> \notin r.runnable
                      /\ <<"end_rsp", u>> \in r.runnable => r.rsp[u] # Null
    BY DEF Answered
  <2>1. CASE u = i
    <3>1. \A y \in Trans : On(r, u, y) # "BEGIN_RESP"
      BY <1>5, <2>1 DEF NoneResponding
    <3>2. r.rsp[u] = v
      BY <1>2, <1>3, <2>1
    <3> QED BY <1>4, <2>1, <3>1, <3>2
  <2>2. CASE u # i
    <3>1. r.rsp[u] = s.rsp[u]
      BY <1>2, <1>3, <2>2
    <3> QED BY <1>4, <1>5, <3>1, WholeParts DEF Answered
  <2> QED BY <2>1, <2>2
<1>8. Noticed(r, s)
  BY <1>3, <1>4, SameMore DEF Noticed
<1>9. Whole(r, p, k, L, x) /\ Still(r, s, x) /\ r.trans = s.trans
  BY <1>1, <1>6, <1>7, <1>8, NoticedWhole
<1> QED BY <1>2, <1>3, <1>9 DEF r, w

(* A process of the interconnect is notified.                              *)
LEMMA Runs ==
  ASSUME NEW s, IsState(s), NEW process
  PROVE  LET r == Notify(s, process)
         IN /\ Same(r, s, {"runnable"}) /\ r.trans = s.trans /\ r.targ = s.targ
            /\ \A q : q \in r.runnable => q \in s.runnable \/ q = process
            /\ \A q : q \in s.runnable => q \in r.runnable
<1> DEFINE v == s.runnable \cup {process}
           w == [s EXCEPT !.runnable = v]
<1>1. Notify(s, process) \in {s, w}
  BY DEF Notify
<1>2. \A q : q \in v <=> q \in s.runnable \/ q = process
  OBVIOUS
<1> HIDE DEF v
<1>3. Same(w, s, {"runnable"}) /\ w.runnable = v
  BY SetToo
<1> HIDE DEF w
<1>4. w.trans = s.trans /\ w.targ = s.targ
  BY <1>3, SameFields
<1>5. Same(s, s, {"runnable"})
  BY DEF Same
<1> QED BY <1>1, <1>2, <1>3, <1>4, <1>5

LEMMA NotifyReqWhole ==
  ASSUME NEW s, NEW p, NEW k, NEW L, NEW x, Whole(s, p, k, L, x), NEW t \in Targets,
         NoneBegun(s, t), s.req[t] # Null
  PROVE  LET r == Notify(s, <<"end_req", t>>)
         IN /\ Whole(r, p, k, L, x) /\ Still(r, s, x) /\ Same(r, s, {"runnable"})
            /\ r.trans = s.trans
<1> DEFINE g == <<"end_req", t>>
           r == Notify(s, g)
<1>1. Sound(r, p, k, L)
  BY WholeParts, NotifySound
<1>2. /\ \A u : <<"end_rsp", u>> # g /\ <<"send_rsp", u>> # g
      /\ \A u : u # t => <<"end_req", u>> # g
  OBVIOUS
<1> HIDE DEF g
<1>3. /\ Same(r, s, {"runnable"}) /\ r.trans = s.trans
      /\ \A q : q \in r.runnable => q \in s.runnable \/ q = g
      /\ \A q : q \in s.runnable => q \in r.runnable
  BY WholeParts, Runs
<1> HIDE DEF r
<1>4. r.req = s.req /\ r.rsp = s.rsp /\ r.check = s.check
  BY <1>3, SameFields
<1>5. \A w, y : On(r, w, y) = On(s, w, y)
  BY <1>4 DEF On
<1>6. Answered(r)
  <2>1. \A u : <<"end_rsp", u>> \in r.runnable => <<"end_rsp", u>> \in s.runnable
    BY <1>2, <1>3
  <2>2. Answered(s)
    BY WholeParts
  <2> SUFFICES ASSUME NEW u \in Inits
               PROVE  /\ \A y \in Trans : On(r, u, y) = "BEGIN_RESP" =>
                           r.rsp[u] = y /\ <<"end_rsp", u>> \notin r.runnable
                      /\ <<"end_rsp", u>> \in r.runnable => r.rsp[u] # Null
    BY DEF Answered
  <2>3. /\ \A y \in Trans : On(s, u, y) = "BEGIN_RESP" =>
             s.rsp[u] = y /\ <<"end_rsp", u>> \notin s.runnable
        /\ <<"end_rsp", u>> \in s.runnable => s.rsp[u] # Null
    BY <2>2 DEF Answered
  <2> QED BY <1>4, <1>5, <2>1, <2>3
<1>7. Requested(r)
  <2> SUFFICES ASSUME NEW u \in Targets
               PROVE  /\ \A y \in Trans : On(r, u, y) = "BEGIN_REQ" =>
                           r.req[u] = y /\ <<"end_req", u>> \notin r.runnable
                      /\ <<"end_req", u>> \in r.runnable => r.req[u] # Null
    BY DEF Requested
  <2>1. CASE u = t
    BY <1>4, <1>5, <2>1 DEF NoneBegun
  <2>2. CASE u # t
    BY <1>2, <1>3, <1>4, <1>5, <2>2, WholeParts DEF Requested
  <2> QED BY <2>1, <2>2
<1>8. Noticed(r, s)
  BY <1>2, <1>3, SameMore DEF Noticed
<1>9. Whole(r, p, k, L, x) /\ Still(r, s, x)
  BY <1>1, <1>6, <1>7, <1>8, NoticedWhole
<1> QED BY <1>3, <1>9 DEF r, g

LEMMA NotifyRspWhole ==
  ASSUME NEW s, NEW p, NEW k, NEW L, NEW x, Whole(s, p, k, L, x), NEW i \in Inits,
         NoneResponding(s, i), s.rsp[i] # Null
  PROVE  LET r == Notify(s, <<"end_rsp", i>>)
         IN /\ Whole(r, p, k, L, x) /\ Still(r, s, x) /\ Same(r, s, {"runnable"})
            /\ r.trans = s.trans
<1> DEFINE g == <<"end_rsp", i>>
           r == Notify(s, g)
<1>1. Sound(r, p, k, L)
  BY WholeParts, NotifySound
<1>2. /\ \A u : <<"end_req", u>> # g /\ <<"send_rsp", u>> # g
      /\ \A u : u # i => <<"end_rsp", u>> # g
  OBVIOUS
<1> HIDE DEF g
<1>3. /\ Same(r, s, {"runnable"}) /\ r.trans = s.trans
      /\ \A q : q \in r.runnable => q \in s.runnable \/ q = g
      /\ \A q : q \in s.runnable => q \in r.runnable
  BY WholeParts, Runs
<1> HIDE DEF r
<1>4. r.req = s.req /\ r.rsp = s.rsp /\ r.check = s.check
  BY <1>3, SameFields
<1>5. \A w, y : On(r, w, y) = On(s, w, y)
  BY <1>4 DEF On
<1>6. Requested(r)
  <2>1. \A u : <<"end_req", u>> \in r.runnable => <<"end_req", u>> \in s.runnable
    BY <1>2, <1>3
  <2>2. Requested(s)
    BY WholeParts
  <2> SUFFICES ASSUME NEW u \in Targets
               PROVE  /\ \A y \in Trans : On(r, u, y) = "BEGIN_REQ" =>
                           r.req[u] = y /\ <<"end_req", u>> \notin r.runnable
                      /\ <<"end_req", u>> \in r.runnable => r.req[u] # Null
    BY DEF Requested
  <2>3. /\ \A y \in Trans : On(s, u, y) = "BEGIN_REQ" =>
             s.req[u] = y /\ <<"end_req", u>> \notin s.runnable
        /\ <<"end_req", u>> \in s.runnable => s.req[u] # Null
    BY <2>2 DEF Requested
  <2> QED BY <1>4, <1>5, <2>1, <2>3
<1>7. Answered(r)
  <2> SUFFICES ASSUME NEW u \in Inits
               PROVE  /\ \A y \in Trans : On(r, u, y) = "BEGIN_RESP" =>
                           r.rsp[u] = y /\ <<"end_rsp", u>> \notin r.runnable
                      /\ <<"end_rsp", u>> \in r.runnable => r.rsp[u] # Null
    BY DEF Answered
  <2>1. CASE u = i
    BY <1>4, <1>5, <2>1 DEF NoneResponding
  <2>2. CASE u # i
    BY <1>2, <1>3, <1>4, <1>5, <2>2, WholeParts DEF Answered
  <2> QED BY <2>1, <2>2
<1>8. Noticed(r, s)
  BY <1>2, <1>3, SameMore DEF Noticed
<1>9. Whole(r, p, k, L, x) /\ Still(r, s, x)
  BY <1>1, <1>6, <1>7, <1>8, NoticedWhole
<1> QED BY <1>3, <1>9 DEF r, g

(* A target of type D that has responded is to send the response that      *)
(* waits.                                                                  *)
LEMMA WakeWhole ==
  ASSUME NEW s, NEW p, NEW k, NEW L, NEW x, Whole(s, p, k, L, x), NEW t \in Targets,
         s.targ[t].type = "D", s.targ[t].next # Null, ~s.targ[t].response_in_progress
  PROVE  LET r == Notify(s, <<"send_rsp", t>>)
         IN /\ Whole(r, p, k, L, x) /\ Still(r, s, x) /\ Same(r, s, {"runnable"})
            /\ r.trans = s.trans
<1> DEFINE g == <<"send_rsp", t>>
           r == Notify(s, g)
<1>1. Sound(r, p, k, L)
  BY WholeParts, WakeSender
<1>2. /\ \A u : <<"end_req", u>> # g /\ <<"end_rsp", u>> # g
      /\ \A u : u # t => <<"send_rsp", u>> # g
  OBVIOUS
<1> HIDE DEF g
<1>3. /\ Same(r, s, {"runnable"}) /\ r.trans = s.trans
      /\ \A q : q \in r.runnable => q \in s.runnable \/ q = g
      /\ \A q : q \in s.runnable => q \in r.runnable
  BY WholeParts, Runs
<1> HIDE DEF r
<1>4. /\ r.init = s.init /\ r.req = s.req /\ r.rsp = s.rsp /\ r.check = s.check /\ r.path = s.path
      /\ r.targ = s.targ /\ r.peq = s.peq /\ r.faults = s.faults /\ r.overdue = s.overdue
  BY <1>3, SameFields
<1>5. Elsewhere(r, s, p, p, x) /\ NoMoreEnds(r, s)
  BY <1>3, <1>4 DEF Elsewhere, SameTypes, NoMoreEnds
<1>6. Checked(r) /\ Trips(r, p, x) /\ \A w, y : On(r, w, y) = On(s, w, y)
  BY <1>5, KeepTrips
<1>7. Requested(r) /\ Answered(r)
  BY <1>2, <1>3, <1>4, <1>6, WholeParts DEF Requested, Answered
<1>8. Asked(r) /\ Ends(r)
  BY <1>4, <1>5, <1>6, WholeParts, KeepAsked, KeepEnds
<1>9. Responses(r, p)
  <2>1. \A u \in Targets, y \in Trans : Responding(r, p, u, y) <=> Responding(s, p, u, y)
    BY <1>3, <1>6 DEF Responding
  <2>2. \A u \in Targets : <<"send_rsp", u>> \in r.runnable => <<"send_rsp", u>> \in s.runnable \/ u = t
    BY <1>2, <1>3
  <2>3. Responses(s, p)
    BY WholeParts
  <2> QED BY ZenonT(40), <1>4, <2>1, <2>2, <2>3 DEF Responses
<1>10. Still(r, s, x)
  BY <1>3, <1>4 DEF Still, Along
<1> QED BY <1>1, <1>3, <1>6, <1>7, <1>8, <1>9, <1>10 DEF Whole, Hopped, r, g

(* The record of an initiator is written.  Its request is another one only *)
(* if none has begun on its hop, and no end of one is on its way to it, or *)
(* if one came too late.                                                   *)
LEMMA InitWhole ==
  ASSUME NEW s, NEW p, NEW k, NEW L, NEW x, Whole(s, p, k, L, x), NEW i \in Inits, NEW w, NEW r,
         Reinits(r, s, i, w), w.req = s.init[i].req \/ NoneAsked(s, i),
         w.pc = "woken" => w.req = Null, NEW q, OnlyAt(q, p, x), AlikeAt(s, s, q, p, x),
         NEW g, NEW M, Sound(r, q, g, M)
  PROVE  /\ Whole(r, q, g, M, x) /\ \A y : Still(r, s, y)
         /\ Same(r, s, {"init"}) /\ r.trans = s.trans
<1>1. /\ Same(r, s, {"init"}) /\ r.init[i] = w
      /\ \A j \in Inits : j # i => r.init[j] = s.init[j]
  BY DEF Reinits
<1>2. /\ r.targ = s.targ /\ r.req = s.req /\ r.rsp = s.rsp /\ r.trans = s.trans /\ r.peq = s.peq
      /\ r.runnable = s.runnable /\ r.check = s.check /\ r.path = s.path /\ r.faults = s.faults
      /\ r.overdue = s.overdue
  BY <1>1, SameFields
<1>3. Elsewhere(r, s, q, p, x) /\ SameTypes(r, s)
  BY <1>2 DEF Elsewhere, SameTypes, OnlyAt
<1>4. Checked(r) /\ Trips(r, q, x) /\ \A h, y : On(r, h, y) = On(s, h, y)
  BY <1>3, KeepTrips
<1>5. Answered(r) /\ Requested(r)
  BY <1>2, <1>4, WholeParts, KeepAnswered, KeepRequested
<1>6. Responses(r, q)
  <2>1. ASSUME NEW t \in Targets, NEW y \in Trans
        PROVE  Responding(r, q, t, y) <=> Responding(s, p, t, y)
    <3>1. CASE y = x
      BY <1>2, <1>4, <3>1 DEF AlikeAt, Responding
    <3>2. CASE y # x
      BY <1>2, <1>4, <3>2 DEF OnlyAt, Responding
    <3> QED BY <3>1, <3>2
  <2> QED BY <1>2, <1>3, <2>1, WholeParts, KeepResponses
<1>7. Asked(s) /\ Ends(s)
  BY WholeParts
<1>8. Asked(r)
  <2>1. ASSUME NEW j \in Inits, j \notin r.overdue.inits, NEW y \in Trans,
               On(r, j, y) = "BEGIN_REQ"
        PROVE  r.init[j].req = y
    <3>1. CASE j = i
      BY <1>1, <1>2, <1>4, <1>7, <2>1, <3>1 DEF Asked, NoneAsked, OnceAsked
    <3>2. CASE j # i
      BY <1>1, <1>2, <1>4, <1>7, <2>1, <3>2 DEF Asked
    <3> QED BY <3>1, <3>2
  <2>2. ASSUME NEW j \in Inits, r.init[j].pc = "woken" PROVE r.init[j].req = Null
    BY <1>1, <1>7, <2>2 DEF Asked
  <2> QED BY <2>1, <2>2 DEF Asked
<1>9. Ends(r)
  <2>1. ASSUME NEW e, e.at \in Inits, e.at \notin s.overdue.inits, s.init[e.at].req = e.trans,
               \/ e \in DOMAIN s.peq /\ e.phase = "END_REQ"
               \/ e \in DOMAIN s.overdue.entries
        PROVE  r.init[e.at].req = e.trans
    <3>1. CASE e.at = i
      BY <1>1, <2>1, <3>1 DEF NoneAsked, OnceAsked
    <3>2. CASE e.at # i
      BY <1>1, <2>1, <3>2
    <3> QED BY <3>1, <3>2
  <2>2. PostedEnds(r)
    <3> SUFFICES ASSUME NEW e \in DOMAIN s.peq, e.phase = "END_REQ", e.at \notin s.overdue.inits
                 PROVE  /\ s.peq[e] = 1 /\ e \notin DOMAIN s.overdue.entries
                        /\ r.init[e.at].req = e.trans /\ On(s, e.at, e.trans) = "END_REQ"
      BY <1>2, <1>4 DEF PostedEnds
    <3>1. e.at \in Inits
      BY WholeParts, SoundParts DEF Posted
    <3> QED BY <1>7, <2>1, <3>1 DEF Ends, PostedEnds
  <2>3. OverdueEnds(r)
    <3> SUFFICES ASSUME NEW e \in DOMAIN s.overdue.entries, e.at \notin s.overdue.inits
                 PROVE  /\ e.at \in InitsA /\ s.overdue.entries[e] = 1
                        /\ r.init[e.at].req = e.trans
                        /\ On(s, e.at, e.trans) \in {"END_REQ", "BEGIN_RESP"}
      BY <1>2, <1>4 DEF OverdueEnds
    <3>1. e.at \in Inits
      BY WholeParts DEF Typed, OverdueTyped
    <3> QED BY <1>7, <2>1, <3>1 DEF Ends, OverdueEnds
  <2>4. InOrder(r)
    BY <1>2, <1>7 DEF Ends, InOrder
  <2> QED BY <2>2, <2>3, <2>4 DEF Ends
<1>10. \A y : Still(r, s, y)
  BY <1>2 DEF Still, Along
<1> QED BY <1>1, <1>2, <1>4, <1>5, <1>6, <1>8, <1>9, <1>10 DEF Whole, Hopped

LEMMA NoneIsAsked ==
  ASSUME NEW s, NEW p, NEW k, NEW L, NEW x, Whole(s, p, k, L, x), NEW i \in Inits,
         s.init[i].req # Null =>
           /\ On(s, i, s.init[i].req) \notin {"BEGIN_REQ", "END_REQ"}
           /\ InTime(s, i, s.init[i].req)
  PROVE  NoneAsked(s, i)
<1>1. Asked(s) /\ Ends(s) /\ DOMAIN s.peq \subseteq Entry /\ OverdueTyped(s.overdue)
  BY WholeParts DEF Typed
<1>2. \A y \in Trans : y # Null
  BY Apart
<1> SUFFICES ASSUME i \notin s.overdue.inits PROVE OnceAsked(s, i)
  BY DEF NoneAsked
<1>3. ASSUME NEW y \in Trans, On(s, i, y) = "BEGIN_REQ" PROVE FALSE
  BY <1>1, <1>2, <1>3 DEF Asked
<1>4. ASSUME NEW e \in DOMAIN s.peq, e.phase = "END_REQ", e.at = i PROVE FALSE
  <2>1. s.init[i].req = e.trans /\ On(s, i, e.trans) = "END_REQ" /\ e.trans \in Trans
    BY <1>1, <1>4 DEF Ends, PostedEnds, Entry
  <2> QED BY <1>2, <2>1
<1>5. ASSUME NEW e \in DOMAIN s.overdue.entries, e.at = i PROVE FALSE
  <2>1. s.init[i].req = e.trans
    BY <1>1, <1>5 DEF Ends, OverdueEnds
  <2>2. e \in Entry
    BY <1>1 DEF OverdueTyped
  <2>3. e.trans \in Trans
    BY <2>2 DEF Entry
  <2> QED BY <1>2, <1>5, <2>1, <2>3 DEF InTime
<1> QED BY <1>3, <1>4, <1>5 DEF OnceAsked

LEMMA EndRequestWhole ==
  ASSUME NEW s, NEW p, NEW k, NEW L, NEW x, Whole(s, p, k, L, x), NEW i \in Inits, NoneAsked(s, i)
  PROVE  LET r == EndRequest(s, i)
         IN /\ Whole(r, p, k, L, x) /\ Still(r, s, x) /\ Same(r, s, {"init"}) /\ r.trans = s.trans
            /\ r.init[i].req = Null /\ \A j \in Inits : j # i => r.init[j] = s.init[j]
<1> DEFINE a == [s EXCEPT !.init[i].req = Null]
           v == IF a.init[i].pc = "blocked" THEN "woken" ELSE a.init[i].pc
           r == [a EXCEPT !.init[i].pc = v]
<1>r. EndRequest(s, i) = r
  BY DEF EndRequest
<1>s. LET c == EndRequest(s, i)
      IN /\ Sound(c, p, k, L) /\ c.init[i].req = Null
         /\ \A j \in Inits : j # i => c.init[j] = s.init[j]
  BY WholeParts, EndRequestSound
<1>1. IsState(s) /\ s.init \in [Inits -> InitT] /\ s.init[i] \in InitT
  BY WholeParts DEF Typed
<1>2. Reinits(a, s, i, [s.init[i] EXCEPT !.req = Null])
  BY <1>1, SetField DEF Pointer
<1> HIDE DEF a
<1>3. IsState(a) /\ a.init \in [Inits -> InitT] /\ a.init[i] = [s.init[i] EXCEPT !.req = Null]
  BY SMTT(30), <1>2, ReinitKept DEF Reinits
<1>a. a.init[i].req = Null /\ a.init[i].pc = s.init[i].pc
  BY <1>1, <1>3 DEF InitT
<1>v. v \in {"idle", "blocked", "woken"}
  BY <1>1, <1>a DEF InitT
<1> HIDE DEF v
<1>4. Reinits(r, a, i, [a.init[i] EXCEPT !.pc = v])
  BY <1>3, <1>v, SetField
<1> HIDE DEF r
<1>6. Reinits(r, s, i, r.init[i])
  <2>1. Same(r, s, {"init"})
    BY <1>2, <1>4, SameTwice DEF Reinits
  <2> QED BY <1>2, <1>4, <2>1 DEF Reinits
<1>7. OnlyAt(p, p, x) /\ AlikeAt(s, s, p, p, x)
  BY AlikeItself DEF OnlyAt
<1>9. /\ Sound(r, p, k, L) /\ r.init[i].req = Null
      /\ \A j \in Inits : j # i => r.init[j] = s.init[j]
  BY <1>r, <1>s
<1>8. /\ Whole(r, p, k, L, x) /\ Still(r, s, x) /\ Same(r, s, {"init"}) /\ r.trans = s.trans
  BY <1>9, <1>6, <1>7, InitWhole
<1> QED BY <1>r, <1>9, <1>8

(* The initiator learns at once that its request is over.                  *)
LEMMA ForgetWhole ==
  ASSUME NEW s, NEW p, NEW k, NEW L, NEW x, Whole(s, p, k, L, x), NEW i \in Inits, NoneAsked(s, i)
  PROVE  LET r == [s EXCEPT !.init[i].req = Null]
         IN /\ Whole(r, p, k, L, x) /\ Still(r, s, x) /\ Same(r, s, {"init"}) /\ r.trans = s.trans
            /\ r.init[i].req = Null /\ \A j \in Inits : j # i => r.init[j] = s.init[j]
<1> DEFINE a == [s EXCEPT !.init[i].req = Null]
<1>s. /\ Sound(a, p, k, L) /\ a.init[i].req = Null
      /\ \A j \in Inits : j # i => a.init[j] = s.init[j]
  BY WholeParts, ForgetRequest
<1>1. IsState(s) /\ s.init \in [Inits -> InitT]
  BY WholeParts DEF Typed
<1>2. Reinits(a, s, i, [s.init[i] EXCEPT !.req = Null])
  BY <1>1, SetField DEF Pointer
<1> HIDE DEF a
<1>3. Reinits(a, s, i, a.init[i])
  BY <1>2 DEF Reinits
<1>7. OnlyAt(p, p, x) /\ AlikeAt(s, s, p, p, x)
  BY AlikeItself DEF OnlyAt
<1>8. /\ Whole(a, p, k, L, x) /\ Still(a, s, x) /\ Same(a, s, {"init"}) /\ a.trans = s.trans
  BY <1>s, <1>3, <1>7, InitWhole
<1> QED BY <1>s, <1>8 DEF a

(* A transaction becomes the request of its initiator.                     *)
LEMMA StartWhole ==
  ASSUME NEW s, NEW p, NEW h, NEW L, NEW x \in Trans, Whole(s, p, h, L, x), NEW i \in Inits,
         s.init[i].left > 0, \A j \in Inits : s.init[j].req # x,
         p[x] = "new" \/ s.init[i].cur = x, s.init[i].req = Null
  PROVE  LET r == [s EXCEPT !.init[i] = [pc |-> "idle", cur |-> Null, req |-> x,
                                         left |-> s.init[i].left - 1]]
         IN /\ Whole(r, [p EXCEPT ![x] = "new"], h, L, x) /\ Still(r, s, x)
            /\ Same(r, s, {"init"}) /\ r.trans = s.trans /\ r.init[i].req = x
            /\ \A j \in Inits : j # i => r.init[j] = s.init[j]
<1> DEFINE w == [pc |-> "idle", cur |-> Null, req |-> x, left |-> s.init[i].left - 1]
           r == [s EXCEPT !.init = [s.init EXCEPT ![i] = w]]
           q == [p EXCEPT ![x] = "new"]
<1>r. [s EXCEPT !.init[i] = w] = r
  OBVIOUS
<1>s. Sound(r, q, h, L) /\ r.init[i].req = x
  BY <1>r, WholeParts, StartSound
<1>1. /\ IsState(s) /\ s.init \in [Inits -> InitT] /\ s.init[i].left \in Nat /\ Initiating(s, p)
      /\ p \in [Trans -> Places]
  BY WholeParts, SoundParts DEF Typed, InitT
<1>2. w \in InitT /\ w.pc = "idle"
  BY <1>1 DEF InitT, Pointer
<1> HIDE DEF w
<1>3. Reinits(r, s, i, w)
  BY <1>1, <1>2, Reinit
<1> HIDE DEF r
<1>4. p[x] \in {"new", "cur"}
  BY <1>1, Apart DEF Initiating
<1>5. q[x] = "new" /\ OnlyAt(q, p, x)
  BY <1>1 DEF OnlyAt
<1> HIDE DEF q
<1>6. AlikeAt(s, s, q, p, x)
  BY <1>4, <1>5, AlikeMoved DEF Silenced
<1>7. NoneAsked(s, i)
  BY NoneIsAsked
<1>8. /\ Whole(r, q, h, L, x) /\ Still(r, s, x) /\ Same(r, s, {"init"}) /\ r.trans = s.trans
  BY <1>s, <1>2, <1>3, <1>5, <1>6, <1>7, InitWhole
<1>9. \A j \in Inits : j # i => r.init[j] = s.init[j]
  BY <1>3 DEF Reinits
<1> QED BY <1>r, <1>s, <1>8, <1>9 DEF q, w

(* Or the thread waits with it for the end of the last request.            *)
LEMMA BlockWhole ==
  ASSUME NEW s, NEW p, NEW h, NEW L, NEW x \in Trans, Whole(s, p, h, L, x), NEW i \in Inits,
         s.init[i].left > 0, \A j \in Inits : s.init[j].req # x, p[x] = "new", Unbegun(s, x),
         s.trans[x].status = "INCOMPLETE", s.trans[x].ref = 1
  PROVE  Whole([s EXCEPT !.init[i].pc = "blocked", !.init[i].cur = x],
               [p EXCEPT ![x] = "cur"], h, L, Null)
<1> DEFINE a == [s EXCEPT !.init[i].pc = "blocked"]
           r == [a EXCEPT !.init[i].cur = x]
           q == [p EXCEPT ![x] = "cur"]
<1>r. [s EXCEPT !.init[i].pc = "blocked", !.init[i].cur = x] = r
  OBVIOUS
<1>s. Sound(r, q, h, L)
  BY <1>r, WholeParts, BlockSound
<1>1. /\ IsState(s) /\ s.init \in [Inits -> InitT] /\ s.init[i] \in InitT
      /\ p \in [Trans -> Places]
  BY WholeParts DEF Typed
<1>2. Reinits(a, s, i, [s.init[i] EXCEPT !.pc = "blocked"])
  BY <1>1, SetField
<1> HIDE DEF a
<1>3. IsState(a) /\ a.init \in [Inits -> InitT] /\ a.init[i] = [s.init[i] EXCEPT !.pc = "blocked"]
  BY <1>2, ReinitKept DEF Reinits
<1>4. Reinits(r, a, i, [a.init[i] EXCEPT !.cur = x])
  BY <1>3, SetField DEF Pointer
<1> HIDE DEF r
<1>5. r.init[i] = [a.init[i] EXCEPT !.cur = x] /\ a.init[i] \in InitT
  BY <1>3, <1>4 DEF Reinits
<1>b. r.init[i].req = s.init[i].req /\ r.init[i].pc = "blocked"
  BY <1>1, <1>3, <1>5 DEF InitT
<1>6. Reinits(r, s, i, r.init[i])
  <2>1. Same(r, s, {"init"})
    BY <1>2, <1>4, SameTwice DEF Reinits
  <2> QED BY <1>2, <1>4, <2>1 DEF Reinits
<1>7. q[x] = "cur" /\ OnlyAt(q, p, x)
  BY <1>1 DEF OnlyAt
<1> HIDE DEF q
<1>8. AlikeAt(s, s, q, p, x)
  BY <1>7, AlikeMoved DEF Silenced
<1>9. /\ Whole(r, q, h, L, x) /\ Same(r, s, {"init"}) /\ r.trans = s.trans
  BY <1>s, <1>b, <1>6, <1>7, <1>8, InitWhole
<1>10. r.check = s.check /\ r.path = s.path
  BY <1>9, SameFields
<1>11. \A h1, y : On(r, h1, y) = On(s, h1, y)
  BY <1>10 DEF On
<1>12. s.trans[x].init \in Inits /\ s.trans[x].target \in Targets
  BY WholeParts, TransField
<1>13. On(r, r.trans[x].init, x) = "idle" /\ On(r, r.trans[x].target, x) = "idle"
  BY <1>9, <1>11, <1>12, Apart DEF Unbegun
<1>14. Way(r, x, "idle", "idle")
  BY <1>9, <1>10, <1>11, <1>13 DEF Way, Unbegun, Stack
<1>15. Trip(r, q, x)
  BY <1>7, <1>9, <1>13, <1>14 DEF Trip, Stands
<1> QED BY <1>r, <1>9, <1>15, LetGo DEF q

(* The target is through with x, and responds to nothing now.              *)
Over(r, s, t, x) ==
  /\ Same(r, s, {"trans", "targ"}) /\ SameTypes(r, s) /\ SameRoute(r.trans[x], s.trans[x])
  /\ \A y \in Trans : y # x => r.trans[y] = s.trans[y]
  /\ r.targ[t].response_in_progress = FALSE
  /\ \A u \in Targets : u # t => r.targ[u] = s.targ[u]

LEMMA OverWhole ==
  ASSUME NEW s, NEW p, NEW h, NEW L, NEW x \in Trans, Whole(s, p, h, L, x), NEW t \in Targets,
         s.trans[x].target = t, p[x] = "answered", ~s.trans[x].dont_propagate_fw,
         Way(s, x, "idle", "idle"), NEW r, Over(r, s, t, x), NEW q, OnlyAt(q, p, x), q[x] = "none",
         Sound(r, q, h, L)
  PROVE  Whole(r, q, h, L, Null) /\ Way(r, x, "idle", "idle")
<1>1. /\ r.init = s.init /\ r.req = s.req /\ r.rsp = s.rsp /\ r.peq = s.peq
      /\ r.runnable = s.runnable /\ r.check = s.check /\ r.path = s.path /\ r.faults = s.faults
      /\ r.overdue = s.overdue
  BY SameFields DEF Over
<1>2. Elsewhere(r, s, q, p, x) /\ SameTypes(r, s) /\ NoMoreEnds(r, s)
  BY <1>1 DEF Elsewhere, Over, OnlyAt, NoMoreEnds
<1>3. Checked(r) /\ Trips(r, q, x) /\ \A g, y : On(r, g, y) = On(s, g, y)
  BY <1>2, KeepTrips
<1>4. Asked(r) /\ Answered(r) /\ Requested(r) /\ Ends(r)
  BY <1>1, <1>2, <1>3, WholeParts, KeepAsked, KeepAnswered, KeepRequested, KeepEnds
<1>5. Responses(r, q)
  <2>1. Responses(s, p)
    BY WholeParts
  <2>2. Responding(s, p, t, x)
    BY DEF Responding
  <2>3. ASSUME NEW y \in Trans PROVE ~Responding(r, q, t, y)
    <3>1. CASE y = x
      BY <1>3, <3>1 DEF Responding, Way
    <3>2. CASE y # x
      <4>1. ~Responding(s, p, t, y)
        BY <2>1, <2>2, <3>2 DEF Responses
      <4> QED BY <1>3, <3>2, <4>1 DEF Responding, Over, OnlyAt
    <3> QED BY <3>1, <3>2
  <2>4. ASSUME NEW u \in Targets, u # t, NEW y \in Trans
        PROVE  Responding(r, q, u, y) <=> Responding(s, p, u, y)
    <3>1. CASE y = x
      BY <1>3, <2>4, <3>1 DEF Responding, Over, SameRoute
    <3>2. CASE y # x
      BY <1>3, <3>2 DEF Responding, Over, OnlyAt
    <3> QED BY <3>1, <3>2
  <2> SUFFICES ASSUME NEW u \in Targets
               PROVE  /\ \A y \in Trans : Responding(r, q, u, y) =>
                           /\ r.targ[u].response_in_progress
                           /\ \A z \in Trans : Responding(r, q, u, z) => z = y
                      /\ r.targ[u].response_in_progress /\ r.targ[u].type \in {"A", "B"} =>
                           \E y \in Trans : Responding(r, q, u, y)
                      /\ r.targ[u].response_in_progress => r.targ[u].type # "E"
                      /\ <<"send_rsp", u>> \in r.runnable => ~r.targ[u].response_in_progress
    BY DEF Responses
  <2>5. CASE u = t
    BY <2>3, <2>5 DEF Over
  <2>6. CASE u # t
    <3>1. r.targ[u] = s.targ[u]
      BY <2>6 DEF Over
    <3>2. \A y \in Trans : Responding(r, q, u, y) <=> Responding(s, p, u, y)
      BY <2>4, <2>6
    <3>3. /\ \A y \in Trans : Responding(s, p, u, y) =>
               /\ s.targ[u].response_in_progress
               /\ \A z \in Trans : Responding(s, p, u, z) => z = y
          /\ s.targ[u].response_in_progress /\ s.targ[u].type \in {"A", "B"} =>
               \E y \in Trans : Responding(s, p, u, y)
          /\ s.targ[u].response_in_progress => s.targ[u].type # "E"
          /\ <<"send_rsp", u>> \in s.runnable => ~s.targ[u].response_in_progress
      BY <2>1 DEF Responses
    <3> QED BY <1>1, <3>1, <3>2, <3>3
  <2> QED BY <2>5, <2>6
<1>6. Way(r, x, "idle", "idle")
  BY <1>1, <1>3 DEF Over, SameRoute, Way, Stack
<1>7. Trip(r, q, x)
  BY <1>6 DEF Trip, Stands, Way
<1>8. Whole(r, q, h, L, x)
  BY <1>3, <1>4, <1>5 DEF Whole, Hopped
<1> QED BY <1>6, <1>7, <1>8, LetGo

(* A target of type A or B retires x.                                      *)
LEMMA RetireWhole ==
  ASSUME NEW s, NEW p, NEW h, NEW L, NEW x \in Trans, Whole(s, p, h, L, x), NEW t \in Targets,
         s.trans[x].target = t, p[x] = "answered", s.targ[t].type \in {"A", "B"},
         Way(s, x, "idle", "idle")
  PROVE  LET r == Retire(s, t, x)
         IN /\ Whole(r, [p EXCEPT ![x] = "none"], h, L, Null) /\ SameTypes(r, s)
            /\ r.targ[t].n_trans <= 1 /\ r.runnable = s.runnable
            /\ ~r.targ[t].response_in_progress
<1> DEFINE d == Release(s, x)
           n == d.targ[t].n_trans - 1
           m == [d EXCEPT !.targ[t].n_trans = n]
           r == [m EXCEPT !.targ[t].response_in_progress = FALSE]
           q == [p EXCEPT ![x] = "none"]
           c == s.trans[x].ref - 1
<1>r. Retire(s, t, x) = r
  BY DEF Retire
<1>s. LET o == Retire(s, t, x)
      IN Sound(o, q, h, L) /\ SameTypes(o, s) /\ o.targ[t].n_trans <= 1
  BY WholeParts, RetireSound
<1>1. ~s.trans[x].dont_propagate_fw
  BY WholeParts, NotDone DEF Routed, Places, InHand
<1>2. s.trans[x].ref > 0 /\ s.trans[x] \in TransT
  <2>1. /\ s.trans[x].ref \in Int /\ s.trans[x] \in TransT /\ One(x = h) \in Nat
        /\ s.trans[x].ref >= Need(p[x], s.trans[x].dont_propagate_fw) + One(x = h)
        /\ s.trans[x].dont_propagate_fw \in BOOLEAN
    BY WholeParts, TransField
  <2>2. Need(p[x], s.trans[x].dont_propagate_fw) = 1
    BY <1>1, <2>1 DEF Need, One, ByInitiator, ByTarget, ByQueue
  <2> QED BY <2>1, <2>2
<1>3. Rewrites(d, s, x, [s.trans[x] EXCEPT !.ref = c])
  BY <1>2, WholeParts, ReleaseRewrites
<1> HIDE DEF d, c
<1>4. SameRoute(d.trans[x], s.trans[x])
  BY <1>3, WholeParts, RefWritten
<1>5. Same(d, s, {"trans"}) /\ \A y \in Trans : y # x => d.trans[y] = s.trans[y]
  BY <1>3 DEF Rewrites, Replaced
<1>6. d.targ = s.targ /\ IsState(d)
  BY <1>5, SameFields, SameState
<1>7. s.targ \in [Targets -> TargT] /\ n \in 0..2
  <2>1. s.targ \in [Targets -> TargT] /\ s.targ[t].n_trans \in 0..2
    BY WholeParts DEF Typed, TargT
  <2>2. x \in Pipe(s, p, t) /\ Counts(s.targ[t].n_trans, Pipe(s, p, t))
    BY SMTT(30), WholeParts, SoundParts DEF Pipe, Counted, InPipe, ByTarget
  <2>3. s.targ[t].n_trans - 1 \in 0..2
    BY <2>1, <2>2, OneMore
  <2> QED BY <1>6, <2>1, <2>3
<1> HIDE DEF n
<1>8. Becomes(m, d, t, n, d.targ[t].response_in_progress, d.targ[t].next, d.targ[t].stalled)
  BY <1>6, <1>7, SetCount
<1> HIDE DEF m
<1>9. IsState(m) /\ m.targ \in [Targets -> TargT] /\ m.trans = d.trans
  <2>1. IsState(m) /\ m.trans = d.trans
    BY <1>8, BecomesKeeps
  <2>2. m.targ \in [Targets -> TargT]
    BY <1>8 DEF Becomes
  <2> QED BY <2>1, <2>2
<1>10. Becomes(r, m, t, m.targ[t].n_trans, FALSE, m.targ[t].next, m.targ[t].stalled)
  BY <1>9, SetResponding
<1> HIDE DEF r
<1>11. Over(r, s, t, x)
  <2>1. Same(m, d, {"targ"}) /\ Same(r, m, {"targ"}) /\ r.trans = m.trans
    <3>1. Same(m, d, {"targ"})
      BY <1>8 DEF Becomes
    <3>2. Same(r, m, {"targ"})
      BY <1>10 DEF Becomes
    <3>3. r.trans = m.trans
      BY <1>10, BecomesKeeps
    <3> QED BY <3>1, <3>2, <3>3
  <2>2. Same(r, s, {"trans", "targ"})
    BY <1>5, <2>1 DEF Same
  <2>3. \A u \in Targets : u # t => r.targ[u] = s.targ[u]
    BY <1>6, <1>8, <1>10 DEF Becomes
  <2>4. r.targ[t].response_in_progress = FALSE
    BY <1>10 DEF Becomes
  <2>5. SameTypes(r, s)
    BY <1>r, <1>s
  <2> QED BY <1>4, <1>5, <1>9, <2>1, <2>2, <2>3, <2>4, <2>5 DEF Over
<1>12. q[x] = "none" /\ OnlyAt(q, p, x)
  BY WholeParts DEF OnlyAt
<1> HIDE DEF q
<1>13. Whole(r, q, h, L, Null)
  BY <1>r, <1>s, <1>1, <1>11, <1>12, OverWhole
<1>14. r.runnable = s.runnable /\ ~r.targ[t].response_in_progress
  <2>1. Same(r, s, {"trans", "targ"})
    BY <1>11 DEF Over
  <2> QED BY <1>11, <2>1, SameFields DEF Over
<1> QED BY <1>r, <1>s, <1>13, <1>14 DEF q

(* One of type C or D gives it back.                                       *)
GivenBack(s, t, x) == [Release(s, x) EXCEPT !.targ[t].response_in_progress = FALSE]

LEMMA GiveBackWhole ==
  ASSUME NEW s, NEW p, NEW h, NEW L, NEW x \in Trans, Whole(s, p, h, L, x), NEW t \in Targets,
         s.trans[x].target = t, p[x] = "answered", s.targ[t].type \in {"C", "D"},
         Way(s, x, "idle", "idle")
  PROVE  LET r == GivenBack(s, t, x)
         IN /\ Whole(r, [p EXCEPT ![x] = "none"], h, L, Null) /\ Way(r, x, "idle", "idle")
            /\ Over(r, s, t, x) /\ Stays(r, s, {"trans", "targ"})
            /\ r.targ[t].next = s.targ[t].next
            /\ ~r.targ[t].response_in_progress
<1> DEFINE d == Release(s, x)
           r == [d EXCEPT !.targ[t].response_in_progress = FALSE]
           q == [p EXCEPT ![x] = "none"]
           c == s.trans[x].ref - 1
<1>1. ~s.trans[x].dont_propagate_fw
  BY WholeParts, NotDone DEF Routed, Places, InHand
<1>0. s.trans[x].dont_propagate_fw = FALSE
  BY <1>1, WholeParts, TransField
<1>n. Need(p[x], s.trans[x].dont_propagate_fw) = 1 /\ Need("none", s.trans[x].dont_propagate_fw) = 0
  BY <1>0 DEF Need, One, ByInitiator, ByTarget, ByQueue
<1>2. s.trans[x].ref > 0 /\ s.trans[x] \in TransT
  <2>1. /\ s.trans[x].ref \in Int /\ s.trans[x] \in TransT /\ One(x = h) \in Nat
        /\ s.trans[x].ref >= Need(p[x], s.trans[x].dont_propagate_fw) + One(x = h)
    BY WholeParts, TransField
  <2> QED BY <1>n, <2>1
<1>3. Rewrites(d, s, x, [s.trans[x] EXCEPT !.ref = c])
  BY <1>2, WholeParts, ReleaseRewrites
<1>s. Sound(d, q, h, L)
  <2>1. "answered" \in InHand \ {"accepted", "new"} /\ "none" \in InHand /\ "none" \notin Routed
    BY DEF InHand, Routed
  <2>2. \A i \in Inits : s.init[i].req # x
    <3>1. x # Null /\ "answered" \notin ByInitiator
      BY Apart DEF ByInitiator
    <3> QED BY <3>1, WholeParts, SoundParts DEF Initiating
  <2>3. Need("none", s.trans[x].dont_propagate_fw) + 1 <= Need(p[x], s.trans[x].dont_propagate_fw)
    BY <1>n
  <2> QED BY <2>1, <2>2, <2>3, WholeParts, ReleaseInHand
<1> HIDE DEF d, c
<1>4. SameRoute(d.trans[x], s.trans[x])
  BY <1>3, WholeParts, RefWritten
<1>5. Same(d, s, {"trans"}) /\ \A y \in Trans : y # x => d.trans[y] = s.trans[y]
  BY <1>3 DEF Rewrites, Replaced
<1>6. d.targ = s.targ /\ IsState(d) /\ s.targ \in [Targets -> TargT]
  BY <1>5, SameFields, SameState, WholeParts DEF Typed
<1>7. Sound(r, q, h, L)
  BY <1>s, RespondSound
<1>8. Becomes(r, d, t, d.targ[t].n_trans, FALSE, d.targ[t].next, d.targ[t].stalled)
  BY <1>6, SetResponding
<1> HIDE DEF r
<1>9. Over(r, s, t, x)
  <2>a. Same(r, d, {"targ"})
    BY <1>8 DEF Becomes
  <2>1. Same(r, d, {"targ"}) /\ r.trans = d.trans
    BY <2>a, SameFields
  <2>2. Same(r, s, {"trans", "targ"})
    BY <1>5, <2>1 DEF Same
  <2> QED BY <1>4, <1>5, <1>6, <1>8, <2>1, <2>2 DEF Over, Becomes, SameTypes
<1>10. q[x] = "none" /\ OnlyAt(q, p, x)
  BY WholeParts DEF OnlyAt
<1> HIDE DEF q
<1>11. Whole(r, q, h, L, Null) /\ Way(r, x, "idle", "idle")
  BY <1>1, <1>7, <1>9, <1>10, OverWhole
<1>12. r.targ[t].next = s.targ[t].next /\ ~r.targ[t].response_in_progress
  BY <1>6, <1>8 DEF Becomes
<1>13. Stays(r, s, {"trans", "targ"})
  <2>1. Same(r, s, {"trans", "targ"}) /\ SameTypes(r, s)
    BY <1>9 DEF Over
  <2>2. Unchanged(r, s, Core \ {"trans", "targ"})
    BY <2>1, SameCore
  <2>3. SameRoutes(r, s)
    BY <1>9 DEF Over, SameRoutes, SameRoute
  <2> QED BY <2>1, <2>2, <2>3 DEF Stays, Keeps
<1> QED BY <1>9, <1>11, <1>12, <1>13 DEF r, d, q, GivenBack

-----------------------------------------------------------------------------
(* What a handler leaves behind: the transaction is somewhere (Settled), or *)
(* it is in hand, at place k, its way is a and b, and it is answered or    *)
(* not (Held).                                                             *)
Settled(s, h, L) == \E p \in [Trans -> Places] : Whole(s, p, h, L, Null)

Answered1(s, x) == s.trans[x].status # "INCOMPLETE"

InPlace(s, p, x, k, h, L, a, b, w) ==
  Whole(s, p, h, L, x) /\ p[x] = k /\ Way(s, x, a, b) /\ (Answered1(s, x) <=> w)

Held(s, x, k, h, L, a, b, w) ==
  \E p \in [Trans -> Places] : InPlace(s, p, x, k, h, L, a, b, w)

LEMMA IsHeld ==
  ASSUME NEW s, NEW p, NEW x, NEW k, NEW h, NEW L, NEW a, NEW b, NEW w,
         InPlace(s, p, x, k, h, L, a, b, w)
  PROVE  Held(s, x, k, h, L, a, b, w)
BY WholeParts DEF Held, InPlace

LEMMA IsSettled ==
  ASSUME NEW s, NEW p, NEW h, NEW L, Whole(s, p, h, L, Null)
  PROVE  Settled(s, h, L)
BY WholeParts DEF Settled

(* x is let go of where its way fits its place.                            *)
Fits(s, p, x, a, b) ==
  /\ Stands(p[x], a, b, s.targ[s.trans[x].target].type, s.trans[x].dont_propagate_fw)
  /\ p[x] \in {"cur", "req_queue", "begin_req", "stalled", "internal"} =>
       s.trans[x].status = "INCOMPLETE"
  /\ p[x] \in {"next", "rsp_queue", "begin_resp"} => s.trans[x].status # "INCOMPLETE"
  /\ p[x] = "cur" => s.trans[x].ref = 1

LEMMA SettledAt ==
  ASSUME NEW s, NEW p, NEW h, NEW L, NEW x \in Trans, Whole(s, p, h, L, x), NEW a, NEW b,
         Way(s, x, a, b), Fits(s, p, x, a, b)
  PROVE  Whole(s, p, h, L, Null) /\ Settled(s, h, L)
<1>1. On(s, s.trans[x].init, x) = a /\ On(s, s.trans[x].target, x) = b
  BY DEF Way
<1>2. Trip(s, p, x)
  BY <1>1 DEF Fits, Trip
<1> QED BY <1>2, LetGo, IsSettled

(* What a way says.                                                        *)
LEMMA WayOn ==
  ASSUME NEW s, NEW x, NEW a, NEW b, Way(s, x, a, b)
  PROVE  On(s, s.trans[x].init, x) = a /\ On(s, s.trans[x].target, x) = b
BY DEF Way

LEMMA StillWay ==
  ASSUME NEW s, NEW r, NEW x, Still(r, s, x), NEW a, NEW b, Way(s, x, a, b)
  PROVE  /\ Way(r, x, a, b) /\ (Answered1(r, x) <=> Answered1(s, x))
         /\ r.trans[x].init = s.trans[x].init /\ r.trans[x].target = s.trans[x].target
         /\ r.trans[x].status = s.trans[x].status
BY AlongWay DEF Still, Along, Answered1

LEMMA MarkedStays ==
  ASSUME NEW s, NEW r, Marked(r, s)
  PROVE  /\ Stays(r, s, {}) /\ IsState(r)
         /\ r.init = s.init /\ r.targ = s.targ /\ r.req = s.req /\ r.rsp = s.rsp
         /\ r.req_queue = s.req_queue /\ r.rsp_queue = s.rsp_queue /\ r.trans = s.trans
         /\ r.peq = s.peq /\ r.overdue = s.overdue /\ r.runnable = s.runnable /\ r.self = s.self
<1>1. Same(r, s, Seen)
  BY DEF Marked
<1>2. Stays(r, s, {}) /\ IsState(r)
  BY <1>1, Overseen
<1> QED BY <1>2, SameFields DEF Marked, Seen

LEMMA SameStays ==
  ASSUME NEW s, NEW r, NEW F, Same(r, s, F), "trans" \notin F, "targ" \notin F
  PROVE  Stays(r, s, F) /\ r.targ = s.targ /\ r.trans = s.trans /\ IsState(r)
<1>1. IsState(r) /\ Keeps(r, s, F)
  BY SameKeeps
<1> QED BY <1>1, KeepsStays, SameFields

(* x is referenced while a component has to do with it.                    *)
LEMMA InUse ==
  ASSUME NEW s, NEW p, NEW h, NEW L, NEW x \in Trans, Sound(s, p, h, L),
         p[x] \in ByInitiator \/ x = h \/ (p[x] \in ByTarget /\ ~s.trans[x].dont_propagate_fw)
  PROVE  s.trans[x].ref > 0 /\ s.trans[x].ref # 0
<1>1. /\ s.trans[x].ref \in Int /\ s.trans[x].dont_propagate_fw \in BOOLEAN
      /\ s.trans[x].ref >= Need(p[x], s.trans[x].dont_propagate_fw) + One(x = h)
      /\ One(x = h) \in Nat /\ Need(p[x], s.trans[x].dont_propagate_fw) \in Nat
  BY TransField
<1>2. Need(p[x], s.trans[x].dont_propagate_fw) + One(x = h) >= 1
  <2>1. CASE x = h
    <3>1. One(x = h) = 1
      BY <2>1 DEF One
    <3> QED BY <1>1, <3>1
  <2>2. CASE p[x] \in ByInitiator \/ (p[x] \in ByTarget /\ ~s.trans[x].dont_propagate_fw)
    <3>1. Need(p[x], s.trans[x].dont_propagate_fw) >= 1
      BY <1>1, <2>2 DEF Need, One
    <3> QED BY <1>1, <3>1
  <2> QED BY <2>1, <2>2
<1> HIDE DEF Need, One
<1> QED BY <1>1, <1>2

(* What the checkers do with an answer.                                    *)
LEMMA Posting ==
  ASSUME NEW q, NEW h, NEW x, NEW v
  PROVE  /\ FwPost(Accepted(q, v), h, x) = Accepted(q, v)
         /\ FwPost(Updated(q, v), h, x) = Updated(ResponseChecks(q, h, x, v), v)
         /\ v = "BEGIN_REQ" =>
              FwPost(Completed(q, v), h, x) = Completed(Forgotten(CheckResponsePath(q, h, x), h, x), v)
         /\ v # "BEGIN_REQ" =>
              FwPost(Completed(q, v), h, x) = Completed(Forgotten(q, h, x), v)
         /\ BwPost(Accepted(q, v), h, x) = Accepted(q, v)
         /\ BwPost(Completed(q, v), h, x) = Completed(Cleared(q, h, x), v)
<1>1. FwPost(Accepted(q, v), h, x) = Accepted(q, v)
  BY DEF FwPost, Accepted, Result
<1>2. FwPost(Updated(q, v), h, x) = Updated(ResponseChecks(q, h, x, v), v)
  BY DEF FwPost, Updated, Result
<1>3. ASSUME v = "BEGIN_REQ"
      PROVE  FwPost(Completed(q, v), h, x) = Completed(Forgotten(CheckResponsePath(q, h, x), h, x), v)
  BY <1>3 DEF FwPost, Completed, Result, Forgotten
<1>4. ASSUME v # "BEGIN_REQ"
      PROVE  FwPost(Completed(q, v), h, x) = Completed(Forgotten(q, h, x), v)
  BY <1>4 DEF FwPost, Completed, Result, Forgotten
<1>5. BwPost(Accepted(q, v), h, x) = Accepted(q, v)
  BY DEF BwPost, Accepted, Result
<1>6. BwPost(Completed(q, v), h, x) = Completed(Cleared(q, h, x), v)
  BY DEF BwPost, Completed, Result, Cleared
<1> QED BY <1>1, <1>2, <1>3, <1>4, <1>5, <1>6

LEMMA Results ==
  ASSUME NEW r, IsResult(r)
  PROVE  /\ r.ret = "ACCEPTED" => r = Accepted(r.s, r.phase)
         /\ r.ret = "UPDATED" => r = Updated(r.s, r.phase)
         /\ r.ret = "COMPLETED" => r = Completed(r.s, r.phase)
BY DEF IsResult, Accepted, Updated, Completed

-----------------------------------------------------------------------------
(* A target is called with a request that has begun on the hop of its      *)
(* initiator.                                                              *)
Progress(r, s, x, h, L) ==
  LET type == s.targ[s.trans[x].target].type
  IN /\ IsResult(r) /\ Stays(r.s, s, {"trans", "targ", "peq"})
     /\ \/ r.ret = "ACCEPTED" /\ Settled(r.s, h, L)
        \/ r.ret = "UPDATED" /\ r.phase = "END_REQ" /\ type = "B"
           /\ Held(r.s, x, "internal", h, L, "BEGIN_REQ", "END_REQ", FALSE)
        \/ r.ret = "UPDATED" /\ r.phase = "BEGIN_RESP" /\ type # "E"
           /\ Held(r.s, x, "served", h, L, "BEGIN_REQ", "BEGIN_RESP", TRUE)
        \/ r.ret = "COMPLETED" /\ r.phase = "BEGIN_REQ" /\ type = "E"
           /\ Held(r.s, x, "sent", h, L, "BEGIN_REQ", "idle", TRUE)

(* It is on the hop of the target now.                                     *)
LEMMA PostRequestHop ==
  ASSUME NEW s, NEW p, NEW h, NEW L, NEW x \in Trans, Whole(s, p, h, L, x), NEW t \in Targets,
         s.trans[x].target = t, p[x] = "sent", s.targ[t].type \in {"A", "B", "C"},
         Way(s, x, "BEGIN_REQ", "BEGIN_REQ"), s.trans[x].status = "INCOMPLETE"
  PROVE  Progress(FwPost(Accepted(Post(s, t, x, "BEGIN_REQ"), "BEGIN_REQ"), t, x), s, x, h, L)
<1> DEFINE r == Post(s, t, x, "BEGIN_REQ")
           q == [p EXCEPT ![x] = PlaceOf["BEGIN_REQ"]]
           v == "BEGIN_REQ"
<1>0. FwPost(Accepted(r, v), t, x) = Accepted(r, v)
  BY Posting
<1>1. MayPost(s, p, x, t, "BEGIN_REQ")
  BY DEF MayPost
<1>2. Whole(r, q, h, L, x) /\ Same(r, s, {"peq"}) /\ Still(r, s, x) /\ r.targ = s.targ
      /\ r.trans = s.trans
  BY <1>1, PostWhole
<1>3. q[x] = "begin_req"
  <2>1. PlaceOf["BEGIN_REQ"] = "begin_req"
    BY DEF PlaceOf, Phases
  <2> QED BY <2>1, WholeParts
<1> HIDE DEF r, q
<1>4. Way(r, x, "BEGIN_REQ", "BEGIN_REQ") /\ Fits(r, q, x, "BEGIN_REQ", "BEGIN_REQ")
  BY <1>2, <1>3, StillWay DEF Fits, Stands
<1>5. Settled(r, h, L)
  BY <1>2, <1>4, SettledAt
<1>6. Stays(r, s, {"trans", "targ", "peq"}) /\ IsState(r)
  BY <1>2, SameStays, StaysItself, StaysMore
<1>7. Progress(Accepted(r, v), s, x, h, L)
  BY <1>5, <1>6 DEF Progress, Accepted, Result, IsResult
<1> QED BY <1>0, <1>7 DEF r

LEMMA BeginHopB ==
  ASSUME NEW s, NEW p, NEW h, NEW L, NEW x \in Trans, Whole(s, p, h, L, x), NEW t \in Targets,
         s.trans[x].target = t, p[x] = "sent", s.targ[t].type = "B",
         Way(s, x, "BEGIN_REQ", "BEGIN_REQ"), s.trans[x].status = "INCOMPLETE"
  PROVE  Progress(FwPost(FwB(s, t, x, "BEGIN_REQ"), t, x), s, x, h, L)
<1> DEFINE a == Acquire(s, x)
           r == Enter(a, t, x)
           k == [p EXCEPT ![x] = "accepted"]
           q == [k EXCEPT ![x] = "internal"]
           c == ResponseChecks(r, t, x, "END_REQ")
           v == "END_REQ"
<1>1. CASE s.targ[t].n_trans < 2
  <2>0. FwB(s, t, x, "BEGIN_REQ") = Updated(r, v)
    BY <1>1 DEF FwB, Enter
  <2>p. FwPost(Updated(r, v), t, x) = Updated(c, v)
    BY Posting
  <2>1. Whole(a, k, h, L, x)
    BY TakeWhole
  <2>2. Same(a, s, {"trans"}) /\ Still(a, s, x) /\ Stays(a, s, {"trans"})
    BY AcquireWhole
  <2>3. k[x] = "accepted"
    BY WholeParts
  <2> HIDE DEF a, k
  <2>4. a.targ = s.targ /\ Way(a, x, "BEGIN_REQ", "BEGIN_REQ") /\ a.trans[x].target = t
        /\ a.trans[x].status = "INCOMPLETE"
    BY <2>2, SameFields, StillWay
  <2>5. a.targ[t].n_trans <= 1 /\ a.targ[t].type = "B"
    BY <1>1, <2>4, TypeField, WholeParts
  <2>6. /\ Whole(r, q, h, L, x) /\ Still(r, a, x) /\ Stays(r, a, {"peq", "targ"})
        /\ r.trans = a.trans
    BY <2>1, <2>3, <2>4, <2>5, EnterWhole
  <2>7. q[x] = "internal"
    BY <2>1, WholeParts
  <2> HIDE DEF r, q
  <2>8. Way(r, x, "BEGIN_REQ", "BEGIN_REQ") /\ r.trans[x].target = t
        /\ r.trans[x].status = "INCOMPLETE"
    BY <2>4, <2>6, StillWay
  <2>9. Whole(c, q, h, L, x) /\ Way(c, x, "BEGIN_REQ", "END_REQ") /\ Marked(c, r)
    BY <2>6, <2>8, EndReqAtTarget
  <2> HIDE DEF c
  <2>10. c.trans = r.trans /\ IsState(c) /\ Stays(c, r, {})
    BY <2>9, MarkedStays
  <2>11. Stays(c, s, {"trans", "targ", "peq"})
    <3>1. Stays(r, s, {"trans", "targ", "peq"})
      BY <2>2, <2>6, StaysMore
    <3> QED BY <2>10, <3>1, StaysMore
  <2>12. Held(c, x, "internal", h, L, "BEGIN_REQ", "END_REQ", FALSE)
    <3>1. InPlace(c, q, x, "internal", h, L, "BEGIN_REQ", "END_REQ", FALSE)
      BY <2>7, <2>8, <2>9, <2>10 DEF InPlace, Answered1
    <3> QED BY <3>1, IsHeld
  <2>13. Progress(Updated(c, v), s, x, h, L)
    BY <2>10, <2>11, <2>12 DEF Progress, Updated, Result, IsResult
  <2> QED BY <2>0, <2>p, <2>13
<1>2. CASE ~(s.targ[t].n_trans < 2)
  <2>1. FwB(s, t, x, "BEGIN_REQ") = Accepted(Post(s, t, x, "BEGIN_REQ"), "BEGIN_REQ")
    BY <1>2 DEF FwB
  <2> QED BY <2>1, PostRequestHop
<1> QED BY <1>1, <1>2

(* No response of a target of type D waits when a request gets there: it   *)
(* would be the one that is noted down there.                              *)
LEMMA NoneWaits ==
  ASSUME NEW s, NEW p, NEW h, NEW L, NEW x \in Trans, Whole(s, p, h, L, x), NEW t \in Targets,
         s.trans[x].target = t, p[x] # "next", s.targ[t].type \in {"C", "D"}, s.req[t] = x,
         <<"next", t>> \notin L
  PROVE  s.targ[t].next = Null /\ <<"send_rsp", t>> \notin s.runnable
<1> DEFINE y == s.targ[t].next
<1>1. ASSUME y # Null PROVE FALSE
  <2>1. y \in Trans /\ p[y] = "next" /\ s.trans[y].target = t
    BY <1>1, WholeParts, SoundParts, TypeField DEF Pointed, Pointer
  <2>2. y # x /\ Trip(s, p, y)
    BY <2>1, WholeParts DEF Trips
  <2>3. On(s, t, y) = "BEGIN_REQ"
    BY <2>1, <2>2 DEF Trip, Stands
  <2>4. s.req[t] = y
    BY ZenonT(40), <2>1, <2>3, WholeParts DEF Requested
  <2> QED BY <2>2, <2>4
<1>2. Awake(s)
  BY WholeParts, SoundParts
<1> QED BY <1>1, <1>2 DEF Awake

LEMMA BeginHopD ==
  ASSUME NEW s, NEW p, NEW h, NEW L, NEW x \in Trans, Whole(s, p, h, L, x), NEW t \in Targets,
         s.trans[x].target = t, p[x] = "sent", s.targ[t].type = "D", s.req[t] = x,
         <<"next", t>> \notin L, Way(s, x, "BEGIN_REQ", "BEGIN_REQ"),
         s.trans[x].status = "INCOMPLETE"
  PROVE  Progress(FwPost(BeginReqD(s, t, x, "BEGIN_REQ"), t, x), s, x, h, L)
<1> DEFINE a == Acquire(s, x)
           e == Answer(a, x, "OK")
           n == [e EXCEPT !.targ[t].next = x]
           r == Responder(e, t)
           k == [p EXCEPT ![x] = "served"]
           m == [k EXCEPT ![x] = "next"]
           c == ResponseChecks(r, t, x, "BEGIN_RESP")
           v == "BEGIN_REQ"
           w == "BEGIN_RESP"
<1>n. s.targ[t].next = Null /\ <<"send_rsp", t>> \notin s.runnable
  BY NoneWaits
<1>0. BeginReqD(s, t, x, "BEGIN_REQ") =
        IF s.targ[t].response_in_progress THEN Accepted(n, v) ELSE Updated(r, w)
  BY <1>n DEF BeginReqD, Execute, Require, Responder
<1>p. /\ FwPost(Accepted(n, v), t, x) = Accepted(n, v)
      /\ FwPost(Updated(r, w), t, x) = Updated(c, w)
  BY Posting
<1>1. Whole(a, k, h, L, x)
  BY TakeWhole
<1>2. Same(a, s, {"trans"}) /\ Still(a, s, x) /\ Stays(a, s, {"trans"})
  BY AcquireWhole
<1>3. k[x] = "served"
  BY WholeParts
<1> HIDE DEF a, k
<1>4. a.targ = s.targ /\ a.runnable = s.runnable /\ Way(a, x, "BEGIN_REQ", "BEGIN_REQ")
      /\ a.trans[x].target = t /\ a.trans[x].status = "INCOMPLETE"
  BY <1>2, SameFields, StillWay
<1>5. a.trans[x].ref > 0
  BY <1>1, <1>3, InUse, WholeParts DEF ByInitiator
<1>6. /\ Whole(e, k, h, L, x) /\ Same(e, a, {"trans"}) /\ Along(e, a, x)
      /\ Stays(e, a, {"trans"}) /\ e.trans[x].status # "INCOMPLETE"
  BY <1>1, <1>4, <1>5, AnswerWhole
<1> HIDE DEF e
<1>7. /\ e.targ = s.targ /\ e.runnable = s.runnable /\ Way(e, x, "BEGIN_REQ", "BEGIN_REQ")
      /\ e.trans[x].target = t
  BY <1>4, <1>6, SameFields, AlongWay DEF Along
<1>8. Stays(e, s, {"trans", "targ", "peq"})
  BY <1>2, <1>6, StaysMore
<1>9. CASE s.targ[t].response_in_progress
  <2>1. /\ Whole(n, m, h, L, x) /\ Same(n, e, {"targ"}) /\ SameTypes(n, e) /\ Still(n, e, x)
        /\ n.trans = e.trans
    BY <1>3, <1>6, <1>7, SetNextWhole
  <2>2. m[x] = "next"
    BY <1>1, WholeParts
  <2> HIDE DEF n, m
  <2>3. /\ Way(n, x, "BEGIN_REQ", "BEGIN_REQ") /\ n.trans[x].target = t
        /\ n.targ[t].type = "D" /\ n.trans[x].status # "INCOMPLETE"
    BY <1>6, <1>7, <2>1, StillWay DEF SameTypes
  <2>4. Fits(n, m, x, "BEGIN_REQ", "BEGIN_REQ")
    BY <2>2, <2>3 DEF Fits, Stands
  <2>5. Settled(n, h, L)
    BY <2>1, <2>3, <2>4, SettledAt
  <2>6. Stays(n, s, {"trans", "targ", "peq"}) /\ IsState(n)
    <3>1. Unchanged(n, e, Core \ {"targ"}) /\ IsState(n)
      BY <2>1, SameCore, SameState
    <3>2. SameRoutes(n, e)
      BY <2>1 DEF SameRoutes, SameRoute
    <3>3. Stays(n, e, {"targ"})
      BY <2>1, <3>1, <3>2 DEF Stays, Keeps
    <3> QED BY <1>8, <3>1, <3>3, StaysMore
  <2>7. Progress(Accepted(n, v), s, x, h, L)
    BY <2>5, <2>6 DEF Progress, Accepted, Result, IsResult
  <2> QED BY <1>0, <1>9, <1>p, <2>7
<1>10. CASE ~s.targ[t].response_in_progress
  <2>1. /\ Whole(c, k, h, L, x) /\ Way(c, x, "BEGIN_REQ", "BEGIN_RESP")
        /\ Becomes(r, e, t, e.targ[t].n_trans, TRUE, e.targ[t].next, e.targ[t].stalled)
        /\ Marked(c, r)
    BY <1>n, <1>3, <1>6, <1>7, <1>10, RespAtTarget
  <2> HIDE DEF r, c
  <2>2. Keeps(r, e, {"targ"}) /\ SameTypes(r, e) /\ r.trans = e.trans
    BY <2>1, BecomesKeeps
  <2>3. c.trans = r.trans /\ IsState(c) /\ Stays(c, r, {})
    BY <2>1, MarkedStays
  <2>4. Stays(c, s, {"trans", "targ", "peq"})
    <3>1. Stays(r, e, {"targ"})
      BY <2>2 DEF Stays
    <3>2. Stays(r, s, {"trans", "targ", "peq"})
      BY <1>8, <3>1, StaysMore
    <3> QED BY <2>3, <3>2, StaysMore
  <2>5. Held(c, x, "served", h, L, "BEGIN_REQ", "BEGIN_RESP", TRUE)
    <3>1. InPlace(c, k, x, "served", h, L, "BEGIN_REQ", "BEGIN_RESP", TRUE)
      BY <1>3, <1>6, <2>1, <2>2, <2>3 DEF InPlace, Answered1
    <3> QED BY <3>1, IsHeld
  <2>6. Progress(Updated(c, w), s, x, h, L)
    BY <2>3, <2>4, <2>5 DEF Progress, Updated, Result, IsResult
  <2> QED BY <1>0, <1>10, <1>p, <2>6
<1> QED BY <1>9, <1>10

LEMMA BeginHopE ==
  ASSUME NEW s, NEW p, NEW h, NEW L, NEW x \in Trans, Whole(s, p, h, L, x), NEW t \in Targets,
         s.trans[x].target = t, p[x] = "sent", s.targ[t].type = "E",
         Way(s, x, "BEGIN_REQ", "BEGIN_REQ"), s.trans[x].status = "INCOMPLETE"
  PROVE  Progress(FwPost(Completed(Answer(s, x, "OK"), "BEGIN_REQ"), t, x), s, x, h, L)
<1> DEFINE e == Answer(s, x, "OK")
           c == Forgotten(CheckResponsePath(e, t, x), t, x)
           v == "BEGIN_REQ"
<1>p. FwPost(Completed(e, v), t, x) = Completed(c, v)
  BY Posting
<1>1. s.trans[x].ref > 0
  BY InUse, WholeParts DEF ByInitiator
<1>2. /\ Whole(e, p, h, L, x) /\ Along(e, s, x) /\ Stays(e, s, {"trans"})
      /\ e.trans[x].status # "INCOMPLETE"
  BY <1>1, AnswerWhole
<1> HIDE DEF e
<1>3. Way(e, x, "BEGIN_REQ", "BEGIN_REQ") /\ e.trans[x].target = t
  BY <1>2, AlongWay DEF Along
<1>4. Whole(c, p, h, L, x) /\ Way(c, x, "BEGIN_REQ", "idle") /\ Marked(c, e)
  BY <1>2, <1>3, DoneAtTarget
<1> HIDE DEF c
<1>5. c.trans = e.trans /\ IsState(c) /\ Stays(c, e, {})
  BY <1>4, MarkedStays
<1>6. Stays(c, s, {"trans", "targ", "peq"})
  BY <1>2, <1>5, StaysMore
<1>7. Held(c, x, "sent", h, L, "BEGIN_REQ", "idle", TRUE)
  <2>1. InPlace(c, p, x, "sent", h, L, "BEGIN_REQ", "idle", TRUE)
    BY <1>2, <1>4, <1>5 DEF InPlace, Answered1
  <2> QED BY <2>1, IsHeld
<1>8. Progress(Completed(c, v), s, x, h, L)
  BY <1>5, <1>6, <1>7 DEF Progress, Completed, Result, IsResult
<1> QED BY <1>p, <1>8 DEF e

LEMMA TargetBeginHop ==
  ASSUME NEW s, NEW p, NEW h, NEW L, NEW x \in Trans, Whole(s, p, h, L, x), NEW t \in Targets,
         s.trans[x].target = t, p[x] = "sent", s.req[t] = x, <<"next", t>> \notin L,
         Way(s, x, "BEGIN_REQ", "BEGIN_REQ"), s.trans[x].status = "INCOMPLETE"
  PROVE  Progress(FwPost(TargetFw(s, t, x, "BEGIN_REQ"), t, x), s, x, h, L)
<1> DEFINE r == TargetFw(s, t, x, "BEGIN_REQ")
<1>1. s.targ[t].type \in Types
  BY TypeField, WholeParts
<1>2. CASE s.targ[t].type \in {"A", "C"}
  <2>1. r = Accepted(Post(s, t, x, "BEGIN_REQ"), "BEGIN_REQ")
    BY <1>2 DEF TargetFw, FwA, FwC
  <2> QED BY <1>2, <2>1, PostRequestHop
<1>3. CASE s.targ[t].type = "B"
  <2>1. r = FwB(s, t, x, "BEGIN_REQ")
    BY <1>3 DEF TargetFw
  <2> QED BY <1>3, <2>1, BeginHopB
<1>4. CASE s.targ[t].type = "D"
  <2>1. r = BeginReqD(s, t, x, "BEGIN_REQ")
    BY <1>4 DEF TargetFw
  <2> QED BY <1>4, <2>1, BeginHopD
<1>5. CASE s.targ[t].type = "E"
  <2>1. r = Completed(Answer(s, x, "OK"), "BEGIN_REQ")
    BY <1>5 DEF TargetFw, FwE, Execute
  <2> QED BY <1>5, <2>1, BeginHopE
<1> QED BY <1>1, <1>2, <1>3, <1>4, <1>5 DEF Types

(* The lock interconnect refuses it before it gets to the hop.             *)
LEMMA RefuseHop ==
  ASSUME NEW s, NEW p, NEW h, NEW L, NEW x \in Trans, Whole(s, p, h, L, x), NEW t \in Targets,
         s.trans[x].target = t, p[x] = "sent", s.targ[t].type = "E",
         Way(s, x, "BEGIN_REQ", "idle"), s.trans[x].status = "INCOMPLETE"
  PROVE  Progress(Completed(Answer(s, x, "ERROR"), "BEGIN_REQ"), s, x, h, L)
<1> DEFINE e == Answer(s, x, "ERROR")
           v == "BEGIN_REQ"
<1>1. s.trans[x].ref > 0
  BY InUse, WholeParts DEF ByInitiator
<1>2. /\ Whole(e, p, h, L, x) /\ Along(e, s, x) /\ Stays(e, s, {"trans"})
      /\ e.trans[x].status # "INCOMPLETE" /\ Same(e, s, {"trans"})
  BY <1>1, AnswerWhole
<1> HIDE DEF e
<1>3. Way(e, x, "BEGIN_REQ", "idle") /\ IsState(e)
  BY <1>2, AlongWay, SameState
<1>6. Stays(e, s, {"trans", "targ", "peq"})
  BY <1>2, StaysItself, StaysMore
<1>7. Held(e, x, "sent", h, L, "BEGIN_REQ", "idle", TRUE)
  <2>1. InPlace(e, p, x, "sent", h, L, "BEGIN_REQ", "idle", TRUE)
    BY <1>2, <1>3 DEF InPlace, Answered1
  <2> QED BY <2>1, IsHeld
<1>8. Progress(Completed(e, v), s, x, h, L)
  BY <1>3, <1>6, <1>7 DEF Progress, Completed, Result, IsResult
<1> QED BY <1>8 DEF e

LEMMA CallBeginHop ==
  ASSUME NEW s, NEW p, NEW h, NEW L, NEW x \in Trans, Whole(s, p, h, L, x), NEW t \in Targets,
         s.trans[x].target = t, p[x] = "sent", s.req[t] = x, <<"end_req", t>> \notin s.runnable,
         <<"next", t>> \notin L, Way(s, x, "BEGIN_REQ", "idle"), s.trans[x].status = "INCOMPLETE"
  PROVE  Progress(CallTarget(s, t, x, "BEGIN_REQ"), s, x, h, L)
<1> DEFINE b == FwPre(s, t, x, "BEGIN_REQ")
           g == FwPost(TargetFw(b, t, x, "BEGIN_REQ"), t, x)
<1>1. CASE Locked(s, t, x)
  <2>1. s.targ[t].type = "E"
    BY <1>1 DEF Locked
  <2>2. CallTarget(s, t, x, "BEGIN_REQ") = Completed(Answer(s, x, "ERROR"), "BEGIN_REQ")
    BY <1>1 DEF CallTarget, Refuse
  <2> QED BY <2>1, <2>2, RefuseHop
<1>2. CASE ~Locked(s, t, x)
  <2>0. CallTarget(s, t, x, "BEGIN_REQ") = g
    BY <1>2 DEF CallTarget
  <2>1. s.trans[x].ref # 0
    BY InUse, WholeParts DEF ByInitiator
  <2>2. Whole(b, p, h, L, x) /\ Way(b, x, "BEGIN_REQ", "BEGIN_REQ") /\ Marked(b, s)
    BY <2>1, BeginAtTarget
  <2> HIDE DEF b
  <2>3. b.trans = s.trans /\ b.targ = s.targ /\ b.req = s.req /\ Stays(b, s, {})
    BY <2>2, MarkedStays
  <2>4. Progress(g, b, x, h, L)
    BY <2>2, <2>3, TargetBeginHop
  <2> HIDE DEF g
  <2>5. Stays(g.s, s, {"trans", "targ", "peq"})
    BY <2>3, <2>4, StaysMore DEF Progress
  <2>6. Progress(g, s, x, h, L)
    BY <2>3, <2>4, <2>5 DEF Progress
  <2> QED BY <2>0, <2>6
<1> QED BY <1>1, <1>2

-----------------------------------------------------------------------------
(* A target is called with the end of a response: the transaction is over  *)
(* on both hops.                                                           *)
LEMMA WayFits ==
  ASSUME NEW s, NEW p, NEW x, Trip(s, p, x), NEW a, NEW b, Way(s, x, a, b)
  PROVE  Fits(s, p, x, a, b)
<1>1. On(s, s.trans[x].init, x) = a /\ On(s, s.trans[x].target, x) = b
  BY WayOn
<1> QED BY <1>1 DEF Trip, Fits

LEMMA DoneAgainSettled ==
  ASSUME NEW s, NEW h, NEW L, NEW x \in Trans, Settled(s, h, L), Way(s, x, "idle", "idle"),
         NEW g \in Hops, g \in {s.trans[x].init, s.trans[x].target}
  PROVE  LET r == Forgotten(s, g, x)
         IN Settled(r, h, L) /\ Way(r, x, "idle", "idle") /\ Marked(r, s)
<1> DEFINE r == Forgotten(s, g, x)
           a == "idle"
<1>1. PICK p \in [Trans -> Places] : Whole(s, p, h, L, Null)
  BY DEF Settled
<1>2. Whole(s, p, h, L, x) /\ Trip(s, p, x)
  BY <1>1, TakeUp
<1>3. Fits(s, p, x, a, a) /\ On(s, g, x) = "idle"
  BY <1>2, WayFits, WayOn
<1>4. Whole(r, p, h, L, x) /\ Way(r, x, a, a) /\ Marked(r, s)
  BY <1>2, <1>3, DoneAgain
<1> HIDE DEF r
<1>5. r.trans = s.trans /\ r.targ = s.targ
  BY <1>4, MarkedStays
<1>6. Fits(r, p, x, a, a)
  BY <1>3, <1>5 DEF Fits
<1>7. Settled(r, h, L)
  BY <1>4, <1>6, SettledAt
<1> QED BY <1>4, <1>7 DEF r

Concluded(r, s, x, h, L) ==
  /\ IsResult(r) /\ r.ret # "UPDATED" /\ r.phase = "END_RESP"
  /\ Stays(r.s, s, {"trans", "targ", "peq", "runnable"})
  /\ Settled(r.s, h, L) /\ Way(r.s, x, "idle", "idle")

LEMMA PostEndHop ==
  ASSUME NEW s, NEW p, NEW h, NEW L, NEW x \in Trans, Whole(s, p, h, L, x), NEW t \in Targets,
         s.trans[x].target = t, p[x] = "answered", ~s.trans[x].dont_propagate_fw,
         s.targ[t].type \in {"A", "B", "C"}, Way(s, x, "idle", "idle")
  PROVE  Concluded(FwPost(Accepted(Post(s, t, x, "END_RESP"), "END_RESP"), t, x), s, x, h, L)
<1> DEFINE v == "END_RESP"
           r == Post(s, t, x, v)
           q == [p EXCEPT ![x] = PlaceOf[v]]
           a == "idle"
<1>p. FwPost(Accepted(r, v), t, x) = Accepted(r, v)
  BY Posting
<1>1. MayPost(s, p, x, t, v) /\ (v = "internal_ph" => s.targ[t].type = "C")
  BY DEF MayPost
<1>2. /\ Whole(r, q, h, L, x) /\ Same(r, s, {"peq"})
      /\ Still(r, s, x) /\ r.targ = s.targ /\ r.trans = s.trans
  <2> HIDE DEF v
  <2> QED BY <1>1, PostWhole
<1>3. q[x] = "end_resp"
  BY WholeParts DEF PlaceOf, Phases
<1> HIDE DEF r, q
<1>4. Way(r, x, a, a)
  BY <1>2, StillWay
<1>5. Fits(r, q, x, a, a)
  BY <1>3 DEF Fits, Stands
<1>6. Settled(r, h, L)
  BY <1>2, <1>4, <1>5, SettledAt
<1>7. Stays(r, s, {"peq"}) /\ IsState(r)
  BY <1>2, SameStays
<1>8. Stays(r, s, {"trans", "targ", "peq", "runnable"})
  BY <1>7, StaysItself, StaysMore
<1>9. Concluded(Accepted(r, v), s, x, h, L)
  BY <1>4, <1>6, <1>7, <1>8 DEF Concluded, Accepted, Result, IsResult
<1> QED BY <1>p, <1>9 DEF r

LEMMA EndHopD ==
  ASSUME NEW s, NEW p, NEW h, NEW L, NEW x \in Trans, Whole(s, p, h, L, x), NEW t \in Targets,
         s.trans[x].target = t, p[x] = "answered", s.targ[t].response_in_progress,
         s.targ[t].type = "D", Way(s, x, "idle", "idle")
  PROVE  Concluded(FwPost(EndRespD(s, t, x, "END_RESP"), t, x), s, x, h, L)
<1> DEFINE v == "END_RESP"
           d == GivenBack(s, t, x)
           q == [p EXCEPT ![x] = "none"]
           n == Notify(d, <<"send_rsp", t>>)
           r == IF d.targ[t].next = Null THEN d ELSE n
           c == Forgotten(r, t, x)
<1>0. EndRespD(s, t, x, v) = Completed(r, v)
  BY DEF EndRespD, Require, GivenBack
<1>p. FwPost(Completed(r, v), t, x) = Completed(c, v)
  BY Posting
<1>1. /\ Whole(d, q, h, L, Null) /\ Way(d, x, "idle", "idle") /\ Over(d, s, t, x)
      /\ Stays(d, s, {"trans", "targ"}) /\ ~d.targ[t].response_in_progress
  BY GiveBackWhole
<1> HIDE DEF d, q
<1>2. d.targ[t].type = "D" /\ d.trans[x].target = t
  BY <1>1, StaysRoute DEF SameRoute
<1>3. /\ Whole(r, q, h, L, Null) /\ Way(r, x, "idle", "idle") /\ r.trans[x].target = t
      /\ Stays(r, s, {"trans", "targ", "peq", "runnable"})
  <2>1. Stays(d, s, {"trans", "targ", "peq", "runnable"})
    BY <1>1, StaysItself, StaysMore
  <2>2. CASE d.targ[t].next = Null
    BY <1>1, <1>2, <2>1, <2>2
  <2>3. CASE d.targ[t].next # Null
    <3>1. Whole(n, q, h, L, Null) /\ Same(n, d, {"runnable"}) /\ n.trans = d.trans
      BY <1>1, <1>2, <2>3, WakeWhole
    <3> HIDE DEF n
    <3>2. Still(n, d, x) /\ Stays(n, d, {"runnable"})
      BY <3>1, StillAll, SameStays
    <3>3. Way(n, x, "idle", "idle")
      BY <1>1, <3>2, StillWay
    <3>4. Stays(n, s, {"trans", "targ", "peq", "runnable"})
      BY <2>1, <3>2, StaysMore
    <3>5. r = n
      BY <2>3
    <3> QED BY <1>2, <3>1, <3>3, <3>4, <3>5
  <2> QED BY <2>2, <2>3
<1> HIDE DEF r
<1>4. Settled(r, h, L) /\ t \in Hops
  BY <1>3, IsSettled, Apart
<1>5. Settled(c, h, L) /\ Way(c, x, "idle", "idle") /\ Marked(c, r)
  BY <1>3, <1>4, DoneAgainSettled
<1> HIDE DEF c
<1>6. IsState(c) /\ Stays(c, r, {})
  BY <1>5, MarkedStays
<1>7. Stays(c, s, {"trans", "targ", "peq", "runnable"})
  BY <1>3, <1>6, StaysMore
<1>8. Concluded(Completed(c, v), s, x, h, L)
  BY <1>5, <1>6, <1>7 DEF Concluded, Completed, Result, IsResult
<1> QED BY <1>0, <1>p, <1>8

LEMMA CallEndHop ==
  ASSUME NEW s, NEW p, NEW h, NEW L, NEW x \in Trans, Whole(s, p, h, L, x), NEW t \in Targets,
         s.trans[x].target = t, p[x] = "answered", ~s.trans[x].dont_propagate_fw,
         Way(s, x, "idle", "BEGIN_RESP")
  PROVE  Concluded(CallTarget(s, t, x, "END_RESP"), s, x, h, L)
<1> DEFINE b == FwPre(s, t, x, "END_RESP")
           f == TargetFw(b, t, x, "END_RESP")
           g == FwPost(f, t, x)
<1>1. s.targ[t].response_in_progress /\ s.targ[t].type # "E"
  <2>1. Responding(s, p, t, x)
    BY DEF Responding
  <2> QED BY <2>1, WholeParts DEF Responses
<1>2. CallTarget(s, t, x, "END_RESP") = g
  BY <1>1 DEF CallTarget, Locked
<1>3. s.trans[x].ref # 0
  BY InUse, WholeParts DEF ByTarget
<1>4. Whole(b, p, h, L, x) /\ Way(b, x, "idle", "idle") /\ Marked(b, s)
  BY <1>3, EndAtTarget
<1> HIDE DEF b
<1>5. b.trans = s.trans /\ b.targ = s.targ /\ Stays(b, s, {})
  BY <1>4, MarkedStays
<1>6. b.targ[t].type \in {"A", "B", "C", "D"}
  BY <1>1, <1>5, TypeField, WholeParts DEF Types
<1>7. Concluded(g, b, x, h, L)
  <2>1. CASE b.targ[t].type \in {"A", "B", "C"}
    <3>1. f = Accepted(Post(b, t, x, "END_RESP"), "END_RESP")
      BY <2>1 DEF TargetFw, FwA, FwB, FwC
    <3>2. Concluded(FwPost(Accepted(Post(b, t, x, "END_RESP"), "END_RESP"), t, x), b, x, h, L)
      BY <1>4, <1>5, <2>1, PostEndHop
    <3> QED BY <3>1, <3>2
  <2>2. CASE b.targ[t].type = "D"
    <3>1. f = EndRespD(b, t, x, "END_RESP")
      BY <2>2 DEF TargetFw
    <3>2. Concluded(FwPost(EndRespD(b, t, x, "END_RESP"), t, x), b, x, h, L)
      BY <1>1, <1>4, <1>5, <2>2, EndHopD
    <3> QED BY <3>1, <3>2
  <2> QED BY <1>6, <2>1, <2>2
<1> HIDE DEF g
<1>8. Stays(g.s, s, {"trans", "targ", "peq", "runnable"})
  BY <1>5, <1>7, StaysMore DEF Concluded
<1> QED BY <1>2, <1>7, <1>8 DEF Concluded

-----------------------------------------------------------------------------
(* The interconnect passes the end of a response on, unless the target has *)
(* completed the request.                                                  *)
LEMMA NoneRespondsNow ==
  ASSUME NEW s, NEW p, NEW h, NEW L, NEW x, Whole(s, p, h, L, x), NEW i \in Inits,
         s.rsp[i] = x, On(s, i, x) # "BEGIN_RESP"
  PROVE  NoneResponding(s, i)
BY WholeParts DEF Answered, NoneResponding

LEMMA EndRespHop ==
  ASSUME NEW s, NEW p, NEW h, NEW L, NEW x \in Trans, Whole(s, p, h, L, x), NEW i \in Inits,
         s.trans[x].init = i, s.rsp[i] = x, p[x] = "answered", NEW b, Way(s, x, "idle", b),
         IF s.trans[x].dont_propagate_fw THEN b = "idle" ELSE b = "BEGIN_RESP"
  PROVE  Concluded(EndResp(s, i, x), s, x, h, L)
<1> DEFINE t == s.trans[x].target
           ok == s.trans[x].init = i /\ s.rsp[i] # Null
           what == "no response to end"
           c == Require(s, ok, what)
           e == Notify(s, <<"end_rsp", i>>)
           f == CallTarget(e, t, x, "END_RESP")
           a == AfterTarget(f, i, t, x, FALSE)
           F == {"trans", "targ", "peq", "runnable"}
<1>1. ok /\ s.rsp[i] # Null
  BY Apart
<1>2. c = s
  BY <1>1 DEF Require
<1>0. EndResp(s, i, x) = IF s.trans[x].dont_propagate_fw THEN Accepted(e, "END_RESP") ELSE a
  <2>1. EndResp(s, i, x) =
          IF s.trans[x].dont_propagate_fw THEN Accepted(Notify(c, <<"end_rsp", i>>), "END_RESP")
          ELSE AfterTarget(CallTarget(Notify(c, <<"end_rsp", i>>), t, x, "END_RESP"), i, t, x, FALSE)
    BY DEF EndResp
  <2> HIDE DEF c
  <2> QED BY <1>2, <2>1
<1> HIDE DEF ok, what, c
<1>3. On(s, i, x) = "idle"
  BY WayOn
<1>4. NoneResponding(s, i)
  BY <1>3, NoneRespondsNow
<1>5. /\ Whole(e, p, h, L, x) /\ Still(e, s, x) /\ Same(e, s, {"runnable"})
      /\ e.trans = s.trans
  BY <1>1, <1>4, NotifyRspWhole
<1> HIDE DEF e
<1>6. Way(e, x, "idle", b) /\ Stays(e, s, {"runnable"}) /\ e.targ = s.targ /\ IsState(e)
  BY <1>5, StillWay, SameStays
<1>7. Stays(e, s, F)
  BY <1>6, StaysItself, StaysMore
<1>8. CASE s.trans[x].dont_propagate_fw
  <2>1. Fits(e, p, x, "idle", "idle")
    BY DEF Fits, Stands
  <2>2. Way(e, x, "idle", "idle")
    BY <1>6, <1>8
  <2>3. Settled(e, h, L)
    BY <1>5, <2>1, <2>2, SettledAt
  <2>4. Concluded(Accepted(e, "END_RESP"), s, x, h, L)
    BY <1>6, <1>7, <2>2, <2>3 DEF Concluded, Accepted, Result, IsResult
  <2> QED BY <1>0, <1>8, <2>4
<1>9. CASE ~s.trans[x].dont_propagate_fw
  <2>1. t \in Targets /\ e.trans[x].target = t
    BY <1>5, TransField, WholeParts
  <2> HIDE DEF t
  <2>2. Way(e, x, "idle", "BEGIN_RESP") /\ ~e.trans[x].dont_propagate_fw
    BY <1>5, <1>6, <1>9
  <2>3. Concluded(f, e, x, h, L)
    BY <1>5, <2>1, <2>2, CallEndHop
  <2> HIDE DEF f
  <2>4. a = f
    BY <2>3 DEF AfterTarget, Concluded
  <2>5. Stays(f.s, s, F)
    BY <1>7, <2>3, StaysMore DEF Concluded
  <2>6. Concluded(f, s, x, h, L)
    BY <2>3, <2>5 DEF Concluded
  <2> QED BY <1>0, <1>9, <2>4, <2>6
<1> QED BY <1>8, <1>9

(* An initiator calls with it.                                             *)
LEMMA FinishWhole ==
  ASSUME NEW s, NEW p, NEW h, NEW L, NEW x \in Trans, Whole(s, p, h, L, x), NEW i \in Inits,
         s.trans[x].init = i, p[x] = "answered", s.trans[x].ref # 0, NEW b,
         Way(s, x, "BEGIN_RESP", b), InTime(s, i, x),
         IF s.trans[x].dont_propagate_fw THEN b = "idle" ELSE b = "BEGIN_RESP"
  PROVE  Settled(CallFromInitiator(s, i, x, "END_RESP").s, h, L)
<1> DEFINE c == FwPre(s, i, x, "END_RESP")
           f == EndResp(c, i, x)
           g == FwPost(f, i, x)
           d == Forgotten(f.s, i, x)
<1>0. CallFromInitiator(s, i, x, "END_RESP") = g
  BY DEF CallFromInitiator, InterconnectFw
<1>1. s.rsp[i] = x
  <2>1. On(s, i, x) = "BEGIN_RESP"
    BY WayOn
  <2> QED BY <2>1, WholeParts DEF Answered
<1>2. Whole(c, p, h, L, x) /\ Way(c, x, "idle", b) /\ Marked(c, s)
  BY EndAtInit
<1> HIDE DEF c
<1>3. c.trans = s.trans /\ c.rsp = s.rsp
  BY <1>2, MarkedStays
<1>4. Concluded(f, c, x, h, L)
  BY <1>1, <1>2, <1>3, EndRespHop
<1> HIDE DEF f
<1>5. CASE f.ret = "COMPLETED"
  <2>1. f = Completed(f.s, f.phase) /\ f.phase # "BEGIN_REQ"
    BY <1>4, <1>5, Results DEF Concluded
  <2>2. g = Completed(d, f.phase)
    BY <2>1, Posting
  <2>3. f.s.trans[x].init = i /\ i \in Hops
    BY <1>3, <1>4, StaysRoute, Apart DEF Concluded, SameRoute
  <2>4. Settled(d, h, L)
    BY <1>4, <2>3, DoneAgainSettled DEF Concluded
  <2> HIDE DEF d, g
  <2>5. g.s = d
    BY <2>2 DEF Completed, Result
  <2> QED BY <1>0, <2>4, <2>5
<1>6. CASE f.ret # "COMPLETED"
  <2>1. g = f
    BY <1>4, <1>6 DEF FwPost, Concluded
  <2> QED BY <1>0, <1>4, <2>1 DEF Concluded
<1> QED BY <1>5, <1>6

-----------------------------------------------------------------------------
(* An initiator is called with the end of a request.                       *)
LEMMA CallEndReqHop ==
  ASSUME NEW s, NEW p, NEW h, NEW L, NEW x \in Trans, Whole(s, p, h, L, x), NEW i \in Inits,
         s.trans[x].init = i, p[x] \in {"accepted", "internal"}, Way(s, x, "BEGIN_REQ", "END_REQ")
  PROVE  LET r == CallInitiator(s, i, x, "END_REQ")
         IN /\ IsResult(r) /\ r.ret = "ACCEPTED" /\ Whole(r.s, p, h, L, x)
            /\ Way(r.s, x, "END_REQ", "END_REQ") /\ Stays(r.s, s, {"peq"})
            /\ r.s.trans = s.trans
<1> DEFINE v == "END_REQ"
           b == ResponseChecks(s, i, x, v)
           m == Post(b, i, x, v)
           r == Accepted(m, v)
<1>1. s.trans[x].ref # 0
  BY InUse, WholeParts DEF ByInitiator
<1>2. BwPre(s, i, x, v) = b
  <2>1. Report(s, s.trans[x].ref = 0, "6.5 s") = s
    BY <1>1 DEF Report, Require
  <2> QED BY <2>1 DEF BwPre
<1>3. CallInitiator(s, i, x, v) = BwPost(r, i, x)
  <2>1. CallInitiator(s, i, x, v) = BwPost(InitiatorBw(b, i, x, v), i, x)
    BY <1>2 DEF CallInitiator
  <2>2. InitiatorBw(b, i, x, v) = r
    BY DEF InitiatorBw, BwB, BwA
  <2> QED BY <2>1, <2>2
<1>4. BwPost(r, i, x) = r
  BY Posting
<1>a. On(s, i, x) = "BEGIN_REQ"
  BY WayOn
<1>5. i \in s.overdue.inits \/ s.init[i].req = x
  BY <1>a, WholeParts DEF Asked
<1>6. NoEndOf(s, i, x)
  BY <1>a, NoEndYet
<1>7. Whole(b, p, h, L, x) /\ Way(b, x, "END_REQ", "END_REQ") /\ Marked(b, s)
  BY EndReqAtInit
<1> HIDE DEF b
<1>8. /\ b.trans = s.trans /\ b.peq = s.peq /\ b.init = s.init /\ b.overdue = s.overdue
      /\ Stays(b, s, {})
  BY <1>7, MarkedStays
<1>9. On(b, i, x) = "END_REQ" /\ NoEndOf(b, i, x)
  BY <1>6, <1>7, <1>8, WayOn DEF NoEndOf
<1>10. /\ Whole(m, p, h, L, x) /\ Same(m, b, {"peq"}) /\ Still(m, b, x)
       /\ m.targ = b.targ /\ m.trans = b.trans
  BY <1>5, <1>6, <1>7, <1>8, <1>9, PostEndReqWhole
<1> HIDE DEF m
<1>11. Way(m, x, "END_REQ", "END_REQ") /\ Stays(m, b, {"peq"}) /\ IsState(m)
  BY <1>7, <1>10, StillWay, SameStays
<1>12. Stays(m, s, {"peq"})
  BY <1>8, <1>11, StaysMore
<1>13. r.s = m /\ r.ret = "ACCEPTED" /\ IsResult(r)
  BY <1>11 DEF Accepted, Result, IsResult
<1> HIDE DEF r
<1>14. CallInitiator(s, i, x, v) = r
  BY <1>3, <1>4
<1> QED BY <1>8, <1>10, <1>11, <1>12, <1>13, <1>14

(* An initiator is called with a response.                                 *)
LEMMA RequestOverWhole ==
  ASSUME NEW s, NEW p, NEW h, NEW L, NEW x \in Trans, Whole(s, p, h, L, x), NEW i \in Inits,
         s.trans[x].init = i, p[x] # "new", On(s, i, x) \notin {"BEGIN_REQ", "END_REQ"},
         InTime(s, i, x)
  PROVE  LET r == IF x = s.init[i].req THEN EndRequest(s, i) ELSE s
         IN /\ Whole(r, p, h, L, x) /\ Still(r, s, x) /\ Stays(r, s, {"init"})
            /\ r.trans = s.trans /\ \A j \in Inits : r.init[j].req # x
<1> DEFINE e == EndRequest(s, i)
<1>1. CASE x # s.init[i].req
  <2>1. \A j \in Inits : s.init[j].req # x
    BY <1>1, NoOtherRequest, WholeParts
  <2>2. Still(s, s, x)
    BY DEF Still, Along
  <2> QED BY <1>1, <2>1, <2>2, StaysItself
<1>2. CASE x = s.init[i].req
  <2>1. NoneAsked(s, i)
    BY <1>2, NoneIsAsked
  <2>2. /\ Whole(e, p, h, L, x) /\ Still(e, s, x) /\ Same(e, s, {"init"}) /\ e.trans = s.trans
        /\ e.init[i].req = Null
    BY <2>1, EndRequestWhole
  <2> HIDE DEF e
  <2>3. Stays(e, s, {"init"}) /\ e.trans[x].init = i
    BY <2>2, SameStays
  <2>4. e.init[i].req # x
    BY <2>2, Apart
  <2>5. \A j \in Inits : e.init[j].req # x
    BY <2>2, <2>3, <2>4, NoOtherRequest, WholeParts
  <2> QED BY <1>2, <2>2, <2>3, <2>5 DEF e
<1> QED BY <1>1, <1>2

Handed(r, s, x, b, h, L) ==
  /\ IsResult(r) /\ Stays(r.s, s, {"peq", "trans", "init"})
  /\ \/ r.ret = "ACCEPTED" /\ Settled(r.s, h, L)
     \/ r.ret = "COMPLETED" /\ Held(r.s, x, "answered", h, L, "idle", b, TRUE)

LEMMA HandA ==
  ASSUME NEW s, NEW p, NEW h, NEW L, NEW x \in Trans, Whole(s, p, h, L, x), NEW i \in Inits,
         s.trans[x].init = i, p[x] = "served", NEW b, Way(s, x, "BEGIN_RESP", b),
         IF s.trans[x].dont_propagate_fw THEN b = "idle" ELSE b = "BEGIN_RESP",
         s.trans[x].status # "INCOMPLETE"
  PROVE  Handed(BwPost(BwA(s, i, x, "BEGIN_RESP"), i, x), s, x, b, h, L)
<1> DEFINE v == "BEGIN_RESP"
           r == Post(s, i, x, v)
           q == [p EXCEPT ![x] = PlaceOf[v]]
<1>0. BwPost(BwA(s, i, x, v), i, x) = Accepted(r, v)
  BY Posting DEF BwA
<1>1. MayPost(s, p, x, i, v) /\ (v = "internal_ph" => s.targ[i].type = "C")
  BY DEF MayPost
<1>2. /\ Whole(r, q, h, L, x) /\ Same(r, s, {"peq"})
      /\ Still(r, s, x) /\ r.targ = s.targ /\ r.trans = s.trans
  <2> HIDE DEF v
  <2> QED BY SMTT(30), <1>1, PostWhole
<1>3. q[x] = "begin_resp"
  BY WholeParts DEF PlaceOf, Phases
<1> HIDE DEF r, q
<1>4. Way(r, x, v, b)
  BY <1>2, StillWay
<1>5. Fits(r, q, x, v, b)
  BY <1>2, <1>3 DEF Fits, Stands
<1>6. Settled(r, h, L)
  BY <1>2, <1>4, <1>5, SettledAt
<1>7. Stays(r, s, {"peq"}) /\ IsState(r)
  BY <1>2, SameStays
<1>8. Stays(r, s, {"peq", "trans", "init"})
  BY <1>7, StaysItself, StaysMore
<1>9. Handed(Accepted(r, v), s, x, b, h, L)
  BY <1>6, <1>7, <1>8 DEF Handed, Accepted, Result, IsResult
<1> QED BY <1>0, <1>9 DEF r

LEMMA HandB ==
  ASSUME NEW s, NEW p, NEW h, NEW L, NEW x \in Trans, Whole(s, p, h, L, x), NEW i \in Inits,
         i \in InitsB, s.trans[x].init = i, p[x] = "served", NEW b, Way(s, x, "BEGIN_RESP", b),
         IF s.trans[x].dont_propagate_fw THEN b = "idle" ELSE b = "BEGIN_RESP",
         s.trans[x].status # "INCOMPLETE"
  PROVE  Handed(BwPost(BwB(s, i, x, "BEGIN_RESP"), i, x), s, x, b, h, L)
<1> DEFINE v == "BEGIN_RESP"
           e == IF x = s.init[i].req THEN EndRequest(s, i) ELSE s
           r == Release(e, x)
           q == [p EXCEPT ![x] = "answered"]
           c == Cleared(r, i, x)
<1>1. On(s, i, x) \notin {"BEGIN_REQ", "END_REQ"} /\ InTime(s, i, x)
  <2>1. i \notin InitsA
    BY TLMAssumption
  <2> QED BY <2>1, WholeParts, EndsInTime, WayOn
<1>2. /\ Whole(e, p, h, L, x) /\ Still(e, s, x) /\ Stays(e, s, {"init"})
      /\ e.trans = s.trans /\ \A j \in Inits : e.init[j].req # x
  BY <1>1, RequestOverWhole
<1>3. e.trans[x].ref > 0 /\ e.trans[x].status # "INCOMPLETE"
  <2> HIDE DEF e
  <2>1. e.trans[x].ref > 0
    BY <1>2, InUse, WholeParts DEF ByInitiator
  <2> QED BY <1>2, <2>1
<1>0. BwPost(BwB(s, i, x, v), i, x) = Completed(c, v)
  <2>1. BwB(s, i, x, v) = Completed(Release(CheckTransaction(e, x), x), v)
    BY DEF BwB
  <2>2. CheckTransaction(e, x) = e
    <3> HIDE DEF e
    <3> QED BY <1>3 DEF CheckTransaction, Require
  <2> HIDE DEF e
  <2>3. BwB(s, i, x, v) = Completed(r, v)
    BY <2>1, <2>2
  <2> QED BY <2>3, Posting
<1> HIDE DEF e
<1>4. Responded(e, x)
  <2>1. Way(e, x, v, b)
    BY <1>2, StillWay
  <2> QED BY <1>2, <2>1, WayOn DEF Responded
<1>5. Whole(r, q, h, L, x) /\ Still(r, e, x) /\ Stays(r, e, {"trans"})
  BY <1>2, <1>4, GiveUpWhole
<1>6. q[x] = "answered"
  BY WholeParts
<1> HIDE DEF r, q
<1>7. Still(r, s, x)
  BY <1>2, <1>5, StillTwice
<1>8. Way(r, x, v, b) /\ r.trans[x].init = i /\ r.trans[x].status # "INCOMPLETE"
  BY <1>7, StillWay
<1>9. Whole(c, q, h, L, x) /\ Way(c, x, "idle", b) /\ Marked(c, r)
  BY <1>5, <1>8, OverAtInit
<1> HIDE DEF c
<1>10. c.trans = r.trans /\ IsState(c) /\ Stays(c, r, {})
  BY <1>9, MarkedStays
<1>11. Stays(c, s, {"peq", "trans", "init"})
  <2>1. Stays(r, s, {"peq", "trans", "init"})
    BY <1>2, <1>5, StaysMore
  <2> QED BY <1>10, <2>1, StaysMore
<1>12. Held(c, x, "answered", h, L, "idle", b, TRUE)
  <2>1. InPlace(c, q, x, "answered", h, L, "idle", b, TRUE)
    BY <1>6, <1>8, <1>9, <1>10 DEF InPlace, Answered1
  <2> QED BY <2>1, IsHeld
<1>13. Handed(Completed(c, v), s, x, b, h, L)
  BY <1>10, <1>11, <1>12 DEF Handed, Completed, Result, IsResult
<1> QED BY <1>0, <1>13

LEMMA CallBeginRespHop ==
  ASSUME NEW s, NEW p, NEW h, NEW L, NEW x \in Trans, Whole(s, p, h, L, x), NEW i \in Inits,
         s.trans[x].init = i, p[x] = "served", NEW a \in {"BEGIN_REQ", "END_REQ"}, NEW b,
         Way(s, x, a, b),
         IF s.trans[x].dont_propagate_fw THEN b = "idle" ELSE b = "BEGIN_RESP",
         s.trans[x].status # "INCOMPLETE", s.rsp[i] = x, <<"end_rsp", i>> \notin s.runnable
  PROVE  Handed(CallInitiator(s, i, x, "BEGIN_RESP"), s, x, b, h, L)
<1> DEFINE v == "BEGIN_RESP"
           c == ResponseChecks(s, i, x, v)
           r == BwPost(InitiatorBw(c, i, x, v), i, x)
<1>1. s.trans[x].ref # 0
  BY InUse, WholeParts DEF ByInitiator
<1>2. BwPre(s, i, x, v) = c
  <2>1. Report(s, s.trans[x].ref = 0, "6.5 s") = s
    BY <1>1 DEF Report, Require
  <2> QED BY <2>1 DEF BwPre
<1>3. CallInitiator(s, i, x, v) = r
  BY <1>2 DEF CallInitiator
<1>4. b \in {"BEGIN_RESP", "idle"}
  OBVIOUS
<1>5. Whole(c, p, h, L, x) /\ Way(c, x, v, b) /\ Marked(c, s)
  BY <1>4, RespAtInit
<1> HIDE DEF c
<1>6. c.trans = s.trans /\ Stays(c, s, {})
  BY <1>5, MarkedStays
<1>7. Handed(r, c, x, b, h, L)
  <2>1. CASE i \in InitsA
    <3>1. InitiatorBw(c, i, x, v) = BwA(c, i, x, v)
      BY <2>1 DEF InitiatorBw
    <3>2. Handed(BwPost(BwA(c, i, x, v), i, x), c, x, b, h, L)
      BY <1>5, <1>6, HandA
    <3> QED BY <3>1, <3>2
  <2>2. CASE i \notin InitsA
    <3>1. InitiatorBw(c, i, x, v) = BwB(c, i, x, v) /\ i \in InitsB
      BY <2>2 DEF InitiatorBw, Inits
    <3>2. Handed(BwPost(BwB(c, i, x, v), i, x), c, x, b, h, L)
      BY <1>5, <1>6, <3>1, HandB
    <3> QED BY <3>1, <3>2
  <2> QED BY <2>1, <2>2
<1> HIDE DEF r
<1>8. Stays(r.s, s, {"peq", "trans", "init"})
  BY <1>6, <1>7, StaysMore DEF Handed
<1> QED BY <1>3, <1>7, <1>8 DEF Handed

-----------------------------------------------------------------------------
(* A target calls the interconnect with the end of a request.              *)
LEMMA RspItself ==
  ASSUME NEW s, NEW p, NEW h, NEW L, NEW x, Whole(s, p, h, L, x), NEW i \in Inits
  PROVE  [s EXCEPT !.rsp[i] = @] = s
<1>1. IsState(s) /\ s.rsp \in [Inits -> Pointer]
  BY WholeParts DEF Typed
<1>2. [s.rsp EXCEPT ![i] = s.rsp[i]] = s.rsp
  BY <1>1
<1>3. [s EXCEPT !.rsp = s.rsp] = s
  BY <1>1 DEF IsState, Fields
<1> QED BY <1>2, <1>3

LEMMA NoneBegunNow ==
  ASSUME NEW s, NEW p, NEW h, NEW L, NEW x, Whole(s, p, h, L, x), NEW t \in Targets,
         s.req[t] = x, On(s, t, x) # "BEGIN_REQ"
  PROVE  NoneBegun(s, t)
BY WholeParts DEF Requested, NoneBegun

(* The interconnect learns of it.                                          *)
LEMMA EndingWhole ==
  ASSUME NEW s, NEW p, NEW h, NEW L, NEW x \in Trans, Whole(s, p, h, L, x), NEW t \in Targets,
         s.req[t] = x, On(s, t, x) # "BEGIN_REQ"
  PROVE  LET r == Ending(s, t)
         IN /\ Whole(r, p, h, L, x) /\ Still(r, s, x) /\ Stays(r, s, {"runnable"})
            /\ r.trans = s.trans
<1> DEFINE r == Notify(s, <<"end_req", t>>)
<1>1. NoneBegun(s, t) /\ s.req[t] # Null
  BY NoneBegunNow, Apart
<1>2. Ending(s, t) = r
  BY <1>1 DEF Ending, Require
<1>3. /\ Whole(r, p, h, L, x) /\ Still(r, s, x) /\ Same(r, s, {"runnable"})
      /\ r.trans = s.trans
  BY <1>1, NotifyReqWhole
<1> HIDE DEF r
<1> QED BY <1>2, <1>3, SameStays

LEMMA BwEndReqHop ==
  ASSUME NEW s, NEW p, NEW h, NEW L, NEW x \in Trans, Whole(s, p, h, L, x), NEW t \in Targets,
         s.trans[x].target = t, s.req[t] = x, p[x] \in {"accepted", "internal"},
         Way(s, x, "BEGIN_REQ", "END_REQ")
  PROVE  LET r == InterconnectBw(s, t, x, "END_REQ")
         IN /\ IsResult(r) /\ r.ret = "ACCEPTED" /\ Whole(r.s, p, h, L, x)
            /\ Way(r.s, x, "END_REQ", "END_REQ") /\ Stays(r.s, s, Backs)
            /\ r.s.trans = s.trans
<1> DEFINE i == s.trans[x].init
           e == Ending(s, t)
           a == [e EXCEPT !.rsp[i] = @]
           r == CallInitiator(a, i, x, "END_REQ")
<1>0. InterconnectBw(s, t, x, "END_REQ") =
        IF r.ret = "COMPLETED" THEN [r EXCEPT !.s = Notify(@, <<"end_rsp", i>>)] ELSE r
  BY DEF InterconnectBw, Ending
<1>1. On(s, t, x) # "BEGIN_REQ"
  BY WayOn
<1>2. Whole(e, p, h, L, x) /\ Still(e, s, x) /\ Stays(e, s, {"runnable"}) /\ e.trans = s.trans
  BY <1>1, EndingWhole
<1> HIDE DEF e
<1>3. i \in Inits /\ e.trans[x].init = i
  BY <1>2, TransField, WholeParts
<1> HIDE DEF i
<1>4. a = e
  BY <1>2, <1>3, RspItself
<1>5. Way(e, x, "BEGIN_REQ", "END_REQ")
  BY <1>2, StillWay
<1> DEFINE m == CallInitiator(e, i, x, "END_REQ")
<1>6. r = m
  BY <1>4
<1> HIDE DEF r, a
<1>7. /\ IsResult(m) /\ m.ret = "ACCEPTED" /\ Whole(m.s, p, h, L, x)
      /\ Way(m.s, x, "END_REQ", "END_REQ") /\ Stays(m.s, e, {"peq"})
      /\ m.s.trans = e.trans
  BY <1>2, <1>3, <1>5, CallEndReqHop
<1> HIDE DEF m
<1>8. Stays(m.s, s, Backs)
  BY <1>2, <1>7, StaysMore DEF Backs
<1> QED BY <1>0, <1>2, <1>6, <1>7, <1>8

LEMMA EndReqHop ==
  ASSUME NEW s, NEW p, NEW h, NEW L, NEW x \in Trans, Whole(s, p, h, L, x), NEW t \in Targets,
         s.trans[x].target = t, p[x] = "accepted", Way(s, x, "BEGIN_REQ", "BEGIN_REQ")
  PROVE  LET r == CallFromTarget(s, t, x, "END_REQ")
         IN /\ Whole(r.s, p, h, L, x) /\ Way(r.s, x, "END_REQ", "END_REQ")
            /\ Stays(r.s, s, Backs) /\ r.s.trans = s.trans
<1> DEFINE v == "END_REQ"
           b == ResponseChecks(s, t, x, v)
           f == InterconnectBw(b, t, x, v)
           g == BwPost(f, t, x)
<1>1. s.trans[x].ref # 0
  BY InUse, WholeParts DEF ByInitiator
<1>2. BwPre(s, t, x, v) = b
  <2>1. Report(s, s.trans[x].ref = 0, "6.5 s") = s
    BY <1>1 DEF Report, Require
  <2> QED BY <2>1 DEF BwPre
<1>3. CallFromTarget(s, t, x, v) = g
  BY <1>2 DEF CallFromTarget
<1>4. s.req[t] = x
  <2>1. On(s, t, x) = "BEGIN_REQ"
    BY WayOn
  <2> QED BY <2>1, WholeParts DEF Requested
<1>5. Whole(b, p, h, L, x) /\ Way(b, x, "BEGIN_REQ", "END_REQ") /\ Marked(b, s)
  BY EndReqAtTarget
<1> HIDE DEF b
<1>6. b.trans = s.trans /\ b.req = s.req /\ Stays(b, s, {})
  BY <1>5, MarkedStays
<1>7. /\ IsResult(f) /\ f.ret = "ACCEPTED" /\ Whole(f.s, p, h, L, x)
      /\ Way(f.s, x, "END_REQ", "END_REQ") /\ Stays(f.s, b, Backs)
      /\ f.s.trans = b.trans
  BY <1>4, <1>5, <1>6, BwEndReqHop
<1> HIDE DEF f
<1>8. g = f
  BY <1>7 DEF BwPost
<1>9. Stays(f.s, s, Backs)
  BY <1>6, <1>7, StaysMore
<1> QED BY <1>3, <1>6, <1>7, <1>8, <1>9

(* With a response.                                                        *)
Replied(r, s, x, b, h, L) ==
  /\ IsResult(r) /\ Stays(r.s, s, Backs)
  /\ \/ r.ret = "ACCEPTED" /\ Settled(r.s, h, L)
     \/ r.ret = "COMPLETED" /\ Held(r.s, x, "answered", h, L, "idle", b, TRUE)

(* The initiator is called, and takes no other response until the end of   *)
(* this one.                                                               *)
LEMMA BusyWhole ==
  ASSUME NEW s, NEW p, NEW h, NEW L, NEW x \in Trans, Whole(s, p, h, L, x), NEW i \in Inits,
         s.rsp[i] = Null
  PROVE  LET r == [s EXCEPT !.rsp[i] = x]
         IN /\ Whole(r, p, h, L, x) /\ Still(r, s, x) /\ Stays(r, s, {"rsp"}) /\ r.rsp[i] = x
            /\ r.trans = s.trans /\ <<"end_rsp", i>> \notin r.runnable
<1> DEFINE r == [s EXCEPT !.rsp[i] = x]
<1>1. NoneResponding(s, i) /\ <<"end_rsp", i>> \notin s.runnable
  BY WholeParts, Apart DEF NoneResponding, Answered
<1>2. x \in Pointer /\ x # Null
  BY Apart DEF Pointer
<1>3. /\ Whole(r, p, h, L, x) /\ Still(r, s, x) /\ Same(r, s, {"rsp"}) /\ r.rsp[i] = x
      /\ r.trans = s.trans
  BY <1>1, <1>2, SetRspWhole
<1> HIDE DEF r
<1>4. Stays(r, s, {"rsp"}) /\ r.runnable = s.runnable
  BY <1>3, SameStays, SameFields
<1> QED BY <1>1, <1>3, <1>4 DEF r

LEMMA BwBeginRespHop ==
  ASSUME NEW s, NEW p, NEW h, NEW L, NEW x \in Trans, Whole(s, p, h, L, x), NEW t \in Targets,
         s.trans[x].target = t, ~s.trans[x].dont_propagate_fw, p[x] = "served",
         NEW a \in {"BEGIN_REQ", "END_REQ"}, Way(s, x, a, "BEGIN_RESP"),
         s.trans[x].status # "INCOMPLETE"
  PROVE  Replied(InterconnectBw(s, t, x, "BEGIN_RESP"), s, x, "BEGIN_RESP", h, L)
<1> DEFINE v == "BEGIN_RESP"
           i == s.trans[x].init
           n == Ending(s, t)
           e == IF x = s.req[t] THEN n ELSE s
           b == [e EXCEPT !.rsp[i] = x]
           r == CallInitiator(b, i, x, v)
           d == Notify(r.s, <<"end_rsp", i>>)
           u == QueueRsp(e, i, x)
<1>0. InterconnectBw(s, t, x, v) =
        IF s.rsp[i] # Null THEN Accepted(u, v)
        ELSE IF r.ret = "COMPLETED" THEN [r EXCEPT !.s = d] ELSE r
  BY DEF InterconnectBw, Ending
<1>1. Whole(e, p, h, L, x) /\ Still(e, s, x) /\ Stays(e, s, {"runnable"}) /\ e.trans = s.trans
  <2>1. CASE x = s.req[t]
    <3>1. On(s, t, x) # "BEGIN_REQ"
      BY WayOn
    <3>2. Whole(n, p, h, L, x) /\ Still(n, s, x) /\ Stays(n, s, {"runnable"}) /\ n.trans = s.trans
      BY <2>1, <3>1, EndingWhole
    <3> HIDE DEF n
    <3> QED BY <2>1, <3>2
  <2>2. CASE x # s.req[t]
    <3>1. Still(s, s, x)
      BY DEF Still, Along
    <3> QED BY <2>2, <3>1, StaysItself
  <2> QED BY <2>1, <2>2
<1> HIDE DEF e
<1>2. i \in Inits /\ e.trans[x].init = i /\ e.rsp = s.rsp
  BY <1>1, TransField, StaysRoute, WholeParts DEF Core
<1> HIDE DEF i
<1>3. Way(e, x, a, v)
  BY <1>1, StillWay
<1>4. CASE s.rsp[i] # Null
  <2> DEFINE q == [p EXCEPT ![x] = "rsp_queue"]
  <2>1. Whole(u, q, h, L, x) /\ Still(u, e, x) /\ Stays(u, e, {"trans", "rsp_queue"})
    BY <1>1, <1>2, <1>4, QueueRspWhole
  <2>2. q[x] = "rsp_queue"
    BY WholeParts
  <2> HIDE DEF u, q
  <2>3. Way(u, x, a, v) /\ u.trans[x].status = s.trans[x].status
    BY <1>1, <1>3, <2>1, StillWay
  <2>4. Fits(u, q, x, a, v)
    BY <2>2, <2>3 DEF Fits, Stands
  <2>5. Settled(u, h, L) /\ IsState(u)
    BY <2>1, <2>3, <2>4, SettledAt, WholeParts
  <2>6. Stays(u, s, Backs)
    BY <1>1, <2>1, StaysMore DEF Backs
  <2>7. Replied(Accepted(u, v), s, x, v, h, L)
    BY <2>5, <2>6 DEF Replied, Accepted, Result, IsResult
  <2> QED BY <1>0, <1>4, <2>7
<1>5. CASE s.rsp[i] = Null
  <2>1. /\ Whole(b, p, h, L, x) /\ Still(b, e, x) /\ Stays(b, e, {"rsp"}) /\ b.rsp[i] = x
        /\ b.trans = e.trans /\ <<"end_rsp", i>> \notin b.runnable
    BY <1>1, <1>2, <1>5, BusyWhole
  <2> HIDE DEF b
  <2>2. Way(b, x, a, v)
    BY <1>3, <2>1, StillWay
  <2>3. Handed(r, b, x, v, h, L)
    BY <1>1, <1>2, <2>1, <2>2, CallBeginRespHop
  <2> HIDE DEF r
  <2>4. Stays(r.s, s, Backs)
    <3>1. Stays(b, s, {"runnable", "rsp"})
      BY <1>1, <2>1, StaysMore
    <3> QED BY <2>3, <3>1, StaysMore DEF Backs, Handed
  <2>5. CASE r.ret = "COMPLETED"
    <3>1. PICK q \in [Trans -> Places] : InPlace(r.s, q, x, "answered", h, L, "idle", v, TRUE)
      BY <2>3, <2>5 DEF Handed, Held
    <3>2. r.s.rsp[i] = x /\ r.s.trans[x].init = i
      BY <1>2, <2>1, <2>3, StaysRoute DEF Handed, Core, SameRoute
    <3>3. On(r.s, i, x) # "BEGIN_RESP"
      BY <3>1, <3>2, WayOn DEF InPlace
    <3>4. NoneResponding(r.s, i) /\ r.s.rsp[i] # Null
      <4>1. Whole(r.s, q, h, L, x)
        BY <3>1 DEF InPlace
      <4>2. NoneResponding(r.s, i)
        BY <1>2, <3>2, <3>3, <4>1, NoneRespondsNow
      <4> QED BY <3>2, <4>2, Apart
    <3>5. /\ Whole(d, q, h, L, x) /\ Still(d, r.s, x) /\ Same(d, r.s, {"runnable"})
          /\ d.trans = r.s.trans
      BY <1>2, <3>1, <3>4, NotifyRspWhole DEF InPlace
    <3> HIDE DEF d
    <3>6. Stays(d, r.s, {"runnable"}) /\ IsState(d)
      BY <3>5, SameStays
    <3>7. InPlace(d, q, x, "answered", h, L, "idle", v, TRUE)
      BY <3>1, <3>5, StillWay DEF InPlace
    <3>8. Held(d, x, "answered", h, L, "idle", v, TRUE)
      BY <3>7, IsHeld
    <3>9. Stays(d, s, Backs)
      BY <2>4, <3>6, StaysMore DEF Backs
    <3> DEFINE g == [r EXCEPT !.s = d]
    <3>10. IsResult(g) /\ g.s = d /\ g.ret = "COMPLETED"
      BY <2>3, <2>5, <3>6 DEF IsResult, Result, Handed
    <3>11. InterconnectBw(s, t, x, v) = g
      BY <1>0, <1>5, <2>5
    <3> HIDE DEF g
    <3> QED BY <3>8, <3>9, <3>10, <3>11 DEF Replied
  <2>6. CASE r.ret # "COMPLETED"
    <3>1. r.ret = "ACCEPTED" /\ Settled(r.s, h, L) /\ IsResult(r)
      BY <2>3, <2>6 DEF Handed
    <3>2. InterconnectBw(s, t, x, v) = r
      BY <1>0, <1>5, <2>6
    <3> QED BY <2>4, <3>1, <3>2 DEF Replied
  <2> QED BY <2>5, <2>6
<1> QED BY <1>4, <1>5

LEMMA BeginRespHop ==
  ASSUME NEW s, NEW p, NEW h, NEW L, NEW x \in Trans, Whole(s, p, h, L, x), NEW t \in Targets,
         s.trans[x].target = t, p[x] = "served", s.targ[t].type # "E",
         ~s.targ[t].response_in_progress, <<"send_rsp", t>> \notin s.runnable,
         NEW a \in {"BEGIN_REQ", "END_REQ"}, NEW b \in {"BEGIN_REQ", "END_REQ"}, Way(s, x, a, b),
         s.trans[x].status # "INCOMPLETE"
  PROVE  Replied(CallFromTarget(Responder(s, t), t, x, "BEGIN_RESP"), Responder(s, t), x, "idle", h, L)
<1> DEFINE v == "BEGIN_RESP"
           r == Responder(s, t)
           c == ResponseChecks(r, t, x, v)
           f == InterconnectBw(c, t, x, v)
           g == BwPost(f, t, x)
           d == Cleared(f.s, t, x)
<1>1. s.trans[x].ref # 0 /\ ~s.trans[x].dont_propagate_fw
  BY InUse, NotDone, WholeParts DEF ByInitiator, Routed, Places, InHand
<1>2. /\ Whole(c, p, h, L, x) /\ Way(c, x, a, "BEGIN_RESP")
      /\ Becomes(r, s, t, s.targ[t].n_trans, TRUE, s.targ[t].next, s.targ[t].stalled)
      /\ Marked(c, r)
  BY RespAtTarget
<1>3. r.trans = s.trans
  BY <1>2, BecomesKeeps
<1>4. CallFromTarget(r, t, x, v) = g
  <2>1. BwPre(r, t, x, v) = c
    <3> HIDE DEF r
    <3>1. Report(r, r.trans[x].ref = 0, "6.5 s") = r
      BY <1>1, <1>3 DEF Report, Require
    <3> QED BY <3>1 DEF BwPre
  <2> HIDE DEF r, c
  <2> QED BY <2>1 DEF CallFromTarget
<1> HIDE DEF r, c
<1>5. c.trans = s.trans /\ Stays(c, r, {})
  BY <1>2, <1>3, MarkedStays
<1>6. Replied(f, c, x, v, h, L)
  BY <1>1, <1>2, <1>5, BwBeginRespHop
<1> HIDE DEF f
<1>7. Stays(f.s, r, Backs)
  BY <1>5, <1>6, StaysMore DEF Replied
<1>8. CASE f.ret = "COMPLETED"
  <2>1. PICK q \in [Trans -> Places] : InPlace(f.s, q, x, "answered", h, L, "idle", v, TRUE)
    BY <1>6, <1>8 DEF Replied, Held
  <2>2. f.s.trans[x].target = t /\ ~f.s.trans[x].dont_propagate_fw
    BY <1>1, <1>5, <1>6, StaysRoute DEF Replied, SameRoute
  <2>3. Whole(d, q, h, L, x) /\ Way(d, x, "idle", "idle") /\ Marked(d, f.s)
    BY <2>1, <2>2, OverAtTarget DEF InPlace
  <2>4. g = Completed(d, f.phase)
    <3>1. f = Completed(f.s, f.phase)
      BY <1>6, <1>8, Results DEF Replied
    <3> QED BY <3>1, Posting
  <2> HIDE DEF d
  <2>5. d.trans = f.s.trans /\ IsState(d) /\ Stays(d, f.s, {})
    BY <2>3, MarkedStays
  <2>6. Held(d, x, "answered", h, L, "idle", "idle", TRUE)
    <3>1. InPlace(d, q, x, "answered", h, L, "idle", "idle", TRUE)
      BY <2>1, <2>3, <2>5 DEF InPlace, Answered1
    <3> QED BY <3>1, IsHeld
  <2>7. Stays(d, r, Backs)
    BY <1>7, <2>5, StaysMore
  <2>8. Replied(Completed(d, f.phase), r, x, "idle", h, L)
    BY <2>5, <2>6, <2>7 DEF Replied, Completed, Result, IsResult
  <2> QED BY <1>4, <2>4, <2>8 DEF r
<1>9. CASE f.ret # "COMPLETED"
  <2>1. g = f
    BY <1>9 DEF BwPost
  <2>2. Replied(f, r, x, "idle", h, L)
    BY <1>6, <1>7, <1>9 DEF Replied
  <2> QED BY <1>4, <2>1, <2>2 DEF r
<1> QED BY <1>8, <1>9

-----------------------------------------------------------------------------
(* The processes of the targets.  What its place says of a transaction.    *)
LEMMA TripAt ==
  ASSUME NEW s, NEW p, NEW x, Trip(s, p, x)
  PROVE  /\ p[x] \in {"begin_req", "stalled"} =>
              Way(s, x, "BEGIN_REQ", "BEGIN_REQ") /\ s.trans[x].status = "INCOMPLETE"
         /\ p[x] = "req_queue" =>
              Way(s, x, "BEGIN_REQ", "idle") /\ s.trans[x].status = "INCOMPLETE"
         /\ p[x] = "internal" => s.trans[x].status = "INCOMPLETE"
         /\ p[x] \in {"internal", "next"} =>
              IF s.targ[s.trans[x].target].type \in {"A", "B"}
              THEN Way(s, x, "END_REQ", "END_REQ") ELSE Way(s, x, "BEGIN_REQ", "BEGIN_REQ")
         /\ p[x] \in {"next", "rsp_queue", "begin_resp"} => s.trans[x].status # "INCOMPLETE"
         /\ p[x] \in {"none", "answered", "end_resp", "cur"} => Way(s, x, "idle", "idle")
         /\ p[x] = "cur" => s.trans[x].ref = 1
<1> DEFINE i == On(s, s.trans[x].init, x)
           b == On(s, s.trans[x].target, x)
<1>1. Way(s, x, i, b)
  BY DEF Trip
<1>2. Stands(p[x], i, b, s.targ[s.trans[x].target].type, s.trans[x].dont_propagate_fw)
  BY DEF Trip
<1> HIDE DEF i, b
<1>3. /\ p[x] \in {"begin_req", "stalled"} => i = "BEGIN_REQ" /\ b = "BEGIN_REQ"
      /\ p[x] = "req_queue" => i = "BEGIN_REQ" /\ b = "idle"
      /\ p[x] \in {"internal", "next"} =>
           IF s.targ[s.trans[x].target].type \in {"A", "B"}
           THEN i = "END_REQ" /\ b = "END_REQ" ELSE i = "BEGIN_REQ" /\ b = "BEGIN_REQ"
      /\ p[x] \in {"none", "answered", "end_resp", "cur"} => i = "idle" /\ b = "idle"
  BY <1>2 DEF Stands
<1>4. /\ p[x] \in {"cur", "req_queue", "begin_req", "stalled", "internal"} =>
           s.trans[x].status = "INCOMPLETE"
      /\ p[x] \in {"next", "rsp_queue", "begin_resp"} => s.trans[x].status # "INCOMPLETE"
      /\ p[x] = "cur" => s.trans[x].ref = 1
  BY DEF Trip
<1> QED BY <1>1, <1>3, <1>4

LEMMA SendEndReqWhole ==
  ASSUME NEW s, NEW p, NEW h, NEW L, NEW x \in Trans, Whole(s, p, h, L, x), NEW t \in Targets,
         s.trans[x].target = t, p[x] = "accepted", s.targ[t].type \in {"A", "B"},
         s.targ[t].n_trans <= 1, Way(s, x, "BEGIN_REQ", "BEGIN_REQ"),
         s.trans[x].status = "INCOMPLETE"
  PROVE  LET r == SendEndReq(s, t, x) IN Settled(r, h, L) /\ SameTypes(r, s)
<1> DEFINE f == CallFromTarget(s, t, x, "END_REQ")
           c == f.s
           r == Enter(c, t, x)
           q == [p EXCEPT ![x] = "internal"]
<1>0. SendEndReq(s, t, x) = r
  BY DEF SendEndReq, Enter
<1>1. /\ Whole(c, p, h, L, x) /\ Way(c, x, "END_REQ", "END_REQ")
      /\ Stays(c, s, Backs) /\ c.trans = s.trans
  BY EndReqHop
<1> HIDE DEF f
<1>2. c.targ = s.targ /\ SameTypes(c, s)
  BY <1>1, BacksKeep
<1> HIDE DEF c
<1>3. /\ Whole(r, q, h, L, x) /\ Still(r, c, x) /\ Stays(r, c, {"peq", "targ"})
      /\ r.trans = c.trans
  BY <1>1, <1>2, EnterWhole
<1>4. q[x] = "internal"
  BY WholeParts
<1> HIDE DEF r, q
<1>5. Way(r, x, "END_REQ", "END_REQ")
  BY <1>1, <1>3, StillWay
<1>6. SameTypes(r, s)
  BY <1>2, <1>3 DEF SameTypes, Stays
<1>7. Fits(r, q, x, "END_REQ", "END_REQ")
  <2>1. r.targ[t].type \in {"A", "B"} /\ r.trans = s.trans
    BY <1>1, <1>3, <1>6 DEF SameTypes
  <2> QED BY <1>4, <2>1 DEF Fits, Stands
<1>8. Settled(r, h, L)
  BY <1>3, <1>5, <1>7, SettledAt
<1> QED BY <1>0, <1>6, <1>8

(* The request that waits for room.                                        *)
LEMMA UnstallWhole ==
  ASSUME NEW s, NEW h, NEW L, Settled(s, h, L), NEW t \in Targets,
         s.targ[t].type \in {"A", "B"}, Room(s, t), <<"stalled", t>> \notin L
  PROVE  LET r == Unstall(s, t) IN Settled(r, h, L) /\ SameTypes(r, s) /\ Room(r, t)
<1>0. PICK p \in [Trans -> Places] : Whole(s, p, h, L, Null)
  BY DEF Settled
<1> DEFINE y == s.targ[t].stalled
           m == SendEndReq(s, t, y)
           r == [m EXCEPT !.targ[t].stalled = Null]
           M == L \cup {<<"stalled", t>>}
           k == [p EXCEPT ![y] = "accepted"]
<1>1. CASE y = Null
  <2>1. Unstall(s, t) = s
    BY <1>1 DEF Unstall
  <2> QED BY <2>1 DEF SameTypes
<1>2. CASE y # Null
  <2>0. Unstall(s, t) = r
    BY <1>2 DEF Unstall
  <2>1. /\ y \in Trans /\ s.trans[y].target = t /\ p[y] = "stalled" /\ Trip(s, p, y)
        /\ Whole(s, k, h, M, y)
    BY <1>0, <1>2, TakeStalledWhole
  <2>2. s.targ[t].n_trans <= 1
    BY <1>2 DEF Room
  <2>3. k[y] = "accepted"
    BY <1>0, <2>1, WholeParts
  <2>4. Way(s, y, "BEGIN_REQ", "BEGIN_REQ") /\ s.trans[y].status = "INCOMPLETE"
    BY <2>1, TripAt
  <2> HIDE DEF y, M, k
  <2>5. Settled(m, h, M) /\ SameTypes(m, s)
    BY <2>1, <2>2, <2>3, <2>4, SendEndReqWhole
  <2> HIDE DEF m
  <2>6. PICK q \in [Trans -> Places] : Whole(m, q, h, M, Null)
    BY <2>5 DEF Settled
  <2>7. /\ Whole(r, q, h, M \ {<<"stalled", t>>}, Null) /\ SameTypes(r, m)
        /\ Becomes(r, m, t, m.targ[t].n_trans, m.targ[t].response_in_progress, m.targ[t].next, Null)
    BY <2>6, ClearStalledWhole
  <2> HIDE DEF r
  <2>8. M \ {<<"stalled", t>>} = L
    BY DEF M
  <2>9. Settled(r, h, L)
    BY <2>7, <2>8, IsSettled
  <2>10. SameTypes(r, s) /\ Room(r, t)
    BY <2>5, <2>7 DEF SameTypes, Room, Becomes
  <2> QED BY <2>0, <2>9, <2>10
<1> QED BY <1>1, <1>2

LEMMA SendResponseAWhole ==
  ASSUME NEW s, NEW p, NEW h, NEW L, NEW x \in Trans, Whole(s, p, h, L, x), NEW t \in Targets,
         s.trans[x].target = t, p[x] = "served", s.targ[t].type \in {"A", "B"},
         ~s.targ[t].response_in_progress, Way(s, x, "END_REQ", "END_REQ"),
         s.trans[x].status # "INCOMPLETE", <<"stalled", t>> \notin L
  PROVE  LET r == SendResponseA(s, t, x)
         IN Settled(r, h, L) /\ SameTypes(r, s) /\ (Room(s, t) => Room(r, t))
<1> DEFINE a == Responder(s, t)
           c == CallFromTarget(a, t, x, "BEGIN_RESP")
           e == Retire(c.s, t, x)
           u == Unstall(e, t)
<1>0. SendResponseA(s, t, x) = IF c.ret = "COMPLETED" THEN u ELSE c.s
  BY DEF SendResponseA, Responder
<1>1. Becomes(a, s, t, s.targ[t].n_trans, TRUE, s.targ[t].next, s.targ[t].stalled)
  BY SetResponding, WholeParts DEF Typed, Responder
<1>2. Replied(c, a, x, "idle", h, L)
  <2>1. <<"send_rsp", t>> \notin s.runnable
    <3>1. Awake(s)
      BY WholeParts, SoundParts
    <3> QED BY <3>1 DEF Awake
  <2> QED BY <2>1, BeginRespHop
<1> HIDE DEF a, c
<1>3. SameTypes(a, s) /\ a.trans = s.trans
  BY <1>1, BecomesKeeps
<1>4. /\ c.s.targ = a.targ /\ SameTypes(c.s, a)
      /\ SameRoute(c.s.trans[x], a.trans[x])
  BY <1>2, BacksKeep DEF Replied
<1>5. SameTypes(c.s, s)
  BY <1>3, <1>4 DEF SameTypes
<1>6. CASE c.ret = "COMPLETED"
  <2>1. PICK q \in [Trans -> Places] : InPlace(c.s, q, x, "answered", h, L, "idle", "idle", TRUE)
    BY <1>2, <1>6 DEF Replied, Held
  <2>2. c.s.trans[x].target = t
    BY <1>3, <1>4 DEF SameRoute
  <2>3. c.s.targ[t].type \in {"A", "B"}
    BY <1>5 DEF SameTypes
  <2>4. /\ Whole(e, [q EXCEPT ![x] = "none"], h, L, Null) /\ SameTypes(e, c.s)
        /\ e.targ[t].n_trans <= 1
    BY <2>1, <2>2, <2>3, RetireWhole DEF InPlace
  <2> HIDE DEF e
  <2>5. Room(e, t) /\ e.targ[t].type \in {"A", "B"}
    BY <2>3, <2>4 DEF Room, SameTypes
  <2>6. Settled(e, h, L)
    BY <2>4, IsSettled
  <2>7. Settled(u, h, L) /\ SameTypes(u, e) /\ Room(u, t)
    BY <2>5, <2>6, UnstallWhole
  <2> HIDE DEF u
  <2>8. SameTypes(u, s)
    BY <1>5, <2>4, <2>7 DEF SameTypes
  <2> QED BY <1>0, <1>6, <2>7, <2>8
<1>7. CASE c.ret # "COMPLETED"
  <2>1. Settled(c.s, h, L)
    BY <1>2, <1>7 DEF Replied
  <2>2. c.s.targ[t].n_trans = s.targ[t].n_trans /\ c.s.targ[t].stalled = s.targ[t].stalled
    BY <1>1, <1>4 DEF Becomes
  <2>3. Room(s, t) => Room(c.s, t)
    BY <1>5, <2>2 DEF Room, SameTypes
  <2> QED BY <1>0, <1>5, <1>7, <2>1, <2>3
<1> QED BY <1>6, <1>7

LEMMA SendResponseCWhole ==
  ASSUME NEW s, NEW p, NEW h, NEW L, NEW x \in Trans, Whole(s, p, h, L, x), NEW t \in Targets,
         s.trans[x].target = t, p[x] = "served", s.targ[t].type \in {"C", "D"},
         ~s.targ[t].response_in_progress, <<"send_rsp", t>> \notin s.runnable,
         Way(s, x, "BEGIN_REQ", "BEGIN_REQ"), s.trans[x].status # "INCOMPLETE"
  PROVE  LET r == SendResponseC(s, t, x) IN Settled(r, h, L) /\ SameTypes(r, s)
<1> DEFINE a == Responder(s, t)
           c == CallFromTarget(a, t, x, "BEGIN_RESP")
           u == GivenBack(c.s, t, x)
<1>0. SendResponseC(s, t, x) = IF c.ret = "COMPLETED" THEN u ELSE c.s
  BY DEF SendResponseC, Responder, GivenBack
<1>1. Becomes(a, s, t, s.targ[t].n_trans, TRUE, s.targ[t].next, s.targ[t].stalled)
  BY SetResponding, WholeParts DEF Typed, Responder
<1>2. Replied(c, a, x, "idle", h, L)
  BY BeginRespHop
<1> HIDE DEF a, c
<1>3. SameTypes(a, s) /\ a.trans = s.trans
  BY <1>1, BecomesKeeps
<1>4. SameTypes(c.s, a) /\ SameRoute(c.s.trans[x], a.trans[x])
  BY <1>2, BacksKeep DEF Replied
<1>5. SameTypes(c.s, s)
  BY <1>3, <1>4 DEF SameTypes
<1>6. CASE c.ret = "COMPLETED"
  <2>1. PICK q \in [Trans -> Places] : InPlace(c.s, q, x, "answered", h, L, "idle", "idle", TRUE)
    BY <1>2, <1>6 DEF Replied, Held
  <2>2. c.s.trans[x].target = t
    BY <1>3, <1>4 DEF SameRoute
  <2>3. c.s.targ[t].type \in {"C", "D"}
    BY <1>5 DEF SameTypes
  <2>4. Whole(u, [q EXCEPT ![x] = "none"], h, L, Null) /\ Stays(u, c.s, {"trans", "targ"})
    BY <2>1, <2>2, <2>3, GiveBackWhole DEF InPlace
  <2> HIDE DEF u
  <2>5. Settled(u, h, L) /\ SameTypes(u, s)
    BY <1>5, <2>4, IsSettled DEF SameTypes, Stays
  <2> QED BY <1>0, <1>6, <2>5
<1>7. CASE c.ret # "COMPLETED"
  <2>1. Settled(c.s, h, L)
    BY <1>2, <1>7 DEF Replied
  <2> QED BY <1>0, <1>5, <1>7, <2>1
<1> QED BY <1>6, <1>7

(* The transaction is answered; its way is that of one in a target.        *)
Inside(s, t, x) ==
  /\ s.trans[x].target = t /\ s.trans[x].status # "INCOMPLETE"
  /\ IF s.targ[t].type \in {"A", "B"}
     THEN Way(s, x, "END_REQ", "END_REQ") ELSE Way(s, x, "BEGIN_REQ", "BEGIN_REQ")

LEMMA SendResponseWhole ==
  ASSUME NEW s, NEW p, NEW h, NEW L, NEW x \in Trans, Whole(s, p, h, L, x), NEW t \in Targets,
         p[x] = "served", s.targ[t].type \in {"A", "B", "C"}, Inside(s, t, x),
         ~s.targ[t].response_in_progress, <<"stalled", t>> \notin L
  PROVE  LET r == SendResponse(s, t, x)
         IN Settled(r, h, L) /\ SameTypes(r, s) /\ (Room(s, t) => Room(r, t))
<1>1. CASE s.targ[t].type \in {"A", "B"}
  <2>1. SendResponse(s, t, x) = SendResponseA(s, t, x)
    BY <1>1 DEF SendResponse, SendResponseB
  <2> QED BY <1>1, <2>1, SendResponseAWhole DEF Inside
<1>2. CASE s.targ[t].type = "C"
  <2> DEFINE r == SendResponseC(s, t, x)
  <2>1. SendResponse(s, t, x) = r
    BY <1>2 DEF SendResponse
  <2>2. <<"send_rsp", t>> \notin s.runnable
    <3>1. Awake(s)
      BY WholeParts, SoundParts
    <3> QED BY <1>2, <3>1 DEF Awake
  <2>3. Settled(r, h, L) /\ SameTypes(r, s)
    BY <1>2, <2>2, SendResponseCWhole DEF Inside
  <2> HIDE DEF r
  <2>4. Room(r, t)
    BY <1>2, <2>3 DEF Room, SameTypes
  <2> QED BY <2>1, <2>3, <2>4
<1> QED BY <1>1, <1>2

(* The response that waits for the end of another, which has ended.        *)
LEMMA SendNextWhole ==
  ASSUME NEW s, NEW h, NEW L, Settled(s, h, L), NEW t \in Targets,
         s.targ[t].type \in {"A", "B", "C"}, ~s.targ[t].response_in_progress,
         <<"next", t>> \notin L, <<"stalled", t>> \notin L
  PROVE  LET r == SendNext(s, t)
         IN Settled(r, h, L) /\ SameTypes(r, s) /\ (Room(s, t) => Room(r, t))
<1>0. PICK p \in [Trans -> Places] : Whole(s, p, h, L, Null)
  BY DEF Settled
<1> DEFINE y == s.targ[t].next
           m == SendResponse(s, t, y)
           r == [m EXCEPT !.targ[t].next = Null]
           M == L \cup {<<"next", t>>}
           k == [p EXCEPT ![y] = "served"]
<1>1. CASE y = Null
  <2>1. SendNext(s, t) = s
    BY <1>1 DEF SendNext
  <2> QED BY <2>1 DEF SameTypes
<1>2. CASE y # Null
  <2>0. SendNext(s, t) = r
    BY <1>2 DEF SendNext
  <2>1. /\ y \in Trans /\ s.trans[y].target = t /\ p[y] = "next" /\ Trip(s, p, y)
        /\ Whole(s, k, h, M, y)
    BY <1>0, <1>2, TakeNextWhole
  <2>2. k[y] = "served" /\ <<"stalled", t>> \notin M
    BY <1>0, <2>1, WholeParts
  <2>3. M \ {<<"next", t>>} = L
    OBVIOUS
  <2>4. Inside(s, t, y)
    BY <2>1, TripAt DEF Inside
  <2> HIDE DEF y, M, k
  <2>5. Settled(m, h, M) /\ SameTypes(m, s) /\ (Room(s, t) => Room(m, t))
    BY <2>1, <2>2, <2>4, SendResponseWhole
  <2> HIDE DEF m
  <2>6. PICK q \in [Trans -> Places] : Whole(m, q, h, M, Null)
    BY <2>5 DEF Settled
  <2>7. <<"send_rsp", t>> \notin m.runnable
    <3>1. m.targ[t].type # "D" /\ Awake(m)
      BY <2>5, <2>6, WholeParts, SoundParts DEF SameTypes
    <3> QED BY <3>1 DEF Awake
  <2>8. /\ Whole(r, q, h, M \ {<<"next", t>>}, Null) /\ SameTypes(r, m)
        /\ Becomes(r, m, t, m.targ[t].n_trans, m.targ[t].response_in_progress, Null,
                   m.targ[t].stalled)
    BY <2>6, <2>7, ClearNextWhole
  <2> HIDE DEF r
  <2>9. Settled(r, h, L)
    BY <2>3, <2>8, IsSettled
  <2>10. SameTypes(r, s) /\ (Room(s, t) => Room(r, t))
    BY <2>5, <2>8 DEF SameTypes, Room, Becomes
  <2> QED BY <2>0, <2>9, <2>10
<1> QED BY <1>1, <1>2

(* The callbacks, for an entry that has been taken.                        *)
LEMMA PeqBeginReqAWhole ==
  ASSUME NEW s, NEW p, NEW x \in Trans, Whole(s, p, Null, {}, x), NEW t \in Targets,
         s.trans[x].target = t, p[x] = "sent", s.targ[t].type \in {"A", "B"},
         Way(s, x, "BEGIN_REQ", "BEGIN_REQ"), s.trans[x].status = "INCOMPLETE"
  PROVE  Settled(PeqBeginReqA(s, t, x), Null, {})
<1> DEFINE a == Acquire(s, x)
           w == [a EXCEPT !.targ[t].stalled = x]
           e == SendEndReq(a, t, x)
           k == [p EXCEPT ![x] = "accepted"]
           q == [p EXCEPT ![x] = "stalled"]
<1>0. PeqBeginReqA(s, t, x) = IF s.targ[t].n_trans = 2 THEN w ELSE e
  BY DEF PeqBeginReqA
<1>1. /\ Whole(a, p, x, {}, x) /\ Same(a, s, {"trans"}) /\ Still(a, s, x)
      /\ Stays(a, s, {"trans"})
  BY AcquireWhole
<1>2. Whole(a, k, Null, {}, x)
  BY TakeWhole
<1>3. k[x] = "accepted" /\ q[x] = "stalled"
  BY WholeParts
<1> HIDE DEF a, k, q
<1>4. a.targ = s.targ
  BY <1>1, SameFields
<1>5. /\ Way(a, x, "BEGIN_REQ", "BEGIN_REQ") /\ a.trans[x].status = "INCOMPLETE"
      /\ a.trans[x].target = t
  BY <1>1, StillWay
<1>6. CASE s.targ[t].n_trans = 2
  <2>1. Whole(w, q, Null, {}, x) /\ SameTypes(w, a) /\ Still(w, a, x) /\ w.trans = a.trans
    BY SMTT(30), <1>1, <1>5, StallWhole DEF q
  <2> HIDE DEF w
  <2>2. Way(w, x, "BEGIN_REQ", "BEGIN_REQ")
    BY <1>5, <2>1, StillWay
  <2>3. Fits(w, q, x, "BEGIN_REQ", "BEGIN_REQ")
    BY <1>3, <1>5, <2>1 DEF Fits, Stands
  <2>4. Settled(w, Null, {})
    BY <2>1, <2>2, <2>3, SettledAt
  <2> QED BY <1>0, <1>6, <2>4
<1>7. CASE s.targ[t].n_trans # 2
  <2>1. a.targ[t].n_trans <= 1
    <3>1. s.targ[t].n_trans \in 0..2
      BY WholeParts, TypeField
    <3> QED BY <1>4, <1>7, <3>1
  <2>2. Settled(e, Null, {})
    BY <1>2, <1>3, <1>4, <1>5, <2>1, SendEndReqWhole
  <2> HIDE DEF e
  <2> QED BY <1>0, <1>7, <2>2
<1> QED BY <1>6, <1>7

LEMMA PeqBeginReqCWhole ==
  ASSUME NEW s, NEW p, NEW x \in Trans, Whole(s, p, Null, {}, x), NEW t \in Targets,
         s.trans[x].target = t, p[x] = "sent", s.targ[t].type = "C",
         Way(s, x, "BEGIN_REQ", "BEGIN_REQ"), s.trans[x].status = "INCOMPLETE"
  PROVE  Settled(PeqBeginReqC(s, t, x), Null, {})
<1> DEFINE v == "internal_ph"
           a == Acquire(s, x)
           r == Post(a, t, x, v)
           k == [p EXCEPT ![x] = "accepted"]
           q == [k EXCEPT ![x] = PlaceOf[v]]
<1>0. PeqBeginReqC(s, t, x) = r
  BY DEF PeqBeginReqC
<1>1. /\ Whole(a, p, x, {}, x) /\ Same(a, s, {"trans"}) /\ Still(a, s, x)
      /\ Stays(a, s, {"trans"})
  BY AcquireWhole
<1>2. Whole(a, k, Null, {}, x)
  BY TakeWhole
<1>3. k[x] = "accepted" /\ q[x] = "internal"
  BY WholeParts DEF PlaceOf, Phases
<1> HIDE DEF a, k, q
<1>4. a.targ = s.targ
  BY <1>1, SameFields
<1>5. /\ Way(a, x, "BEGIN_REQ", "BEGIN_REQ") /\ a.trans[x].status = "INCOMPLETE"
      /\ a.trans[x].target = t
  BY <1>1, StillWay
<1>6. MayPost(a, k, x, t, v) /\ (v = "internal_ph" => a.targ[t].type = "C")
  BY <1>3, <1>4, <1>5 DEF MayPost
<1>7. /\ Whole(r, [k EXCEPT ![x] = PlaceOf[v]], Null, {}, x) /\ Still(r, a, x)
      /\ r.targ = a.targ /\ r.trans = a.trans
  <2> DEFINE M == {}
  <2>1. Whole(a, k, Null, M, x)
    BY <1>2
  <2> HIDE DEF v, M
  <2>2. /\ Whole(r, [k EXCEPT ![x] = PlaceOf[v]], Null, M, x) /\ Still(r, a, x)
        /\ r.targ = a.targ /\ r.trans = a.trans
    BY <1>6, <2>1, PostWhole
  <2> QED BY <2>2 DEF M
<1>8. Way(r, x, "BEGIN_REQ", "BEGIN_REQ") /\ Whole(r, q, Null, {}, x)
  BY <1>5, <1>7, StillWay DEF q
<1> HIDE DEF r
<1>9. Fits(r, q, x, "BEGIN_REQ", "BEGIN_REQ")
  BY <1>3, <1>4, <1>5, <1>7 DEF Fits, Stands
<1>10. Settled(r, Null, {})
  BY <1>7, <1>8, <1>9, SettledAt
<1> QED BY <1>0, <1>10

(* A target responds to what it has sent the response of.                  *)
LEMMA IsResponding ==
  ASSUME NEW s, NEW p, NEW h, NEW L, NEW x, Whole(s, p, h, L, x), NEW t \in Targets, x \in Trans,
         s.trans[x].target = t, p[x] = "answered", s.targ[t].type # "E"
  PROVE  /\ s.targ[t].response_in_progress /\ ~s.trans[x].dont_propagate_fw
         /\ \A what : Require(s, s.targ[t].response_in_progress, what) = s
<1>1. ~s.trans[x].dont_propagate_fw
  BY NotDone, WholeParts DEF Routed, Places, InHand
<1>2. Responding(s, p, t, x)
  BY <1>1 DEF Responding
<1>3. s.targ[t].response_in_progress
  <2>1. Responses(s, p)
    BY WholeParts
  <2> QED BY <1>2, <2>1 DEF Responses
<1> QED BY <1>1, <1>3 DEF Require

LEMMA PeqEndRespAWhole ==
  ASSUME NEW s, NEW p, NEW x \in Trans, Whole(s, p, Null, {}, x), NEW t \in Targets,
         s.trans[x].target = t, p[x] = "answered", s.targ[t].type \in {"A", "B"},
         Way(s, x, "idle", "idle")
  PROVE  Settled(PeqEndRespA(s, t, x), Null, {})
<1> DEFINE e == Retire(s, t, x)
           n == SendNext(e, t)
           u == Unstall(n, t)
           M == {}
<1>0. PeqEndRespA(s, t, x) = u
  <2>1. Whole(s, p, Null, M, x)
    OBVIOUS
  <2> DEFINE what == "illegal END_RESP"
  <2> HIDE DEF M, what
  <2>2. Require(s, s.targ[t].response_in_progress, what) = s
    BY <2>1, IsResponding
  <2> QED BY <2>2 DEF PeqEndRespA, what
<1>1. /\ Whole(e, [p EXCEPT ![x] = "none"], Null, {}, Null) /\ SameTypes(e, s)
      /\ e.targ[t].n_trans <= 1 /\ ~e.targ[t].response_in_progress
  BY RetireWhole
<1> HIDE DEF e
<1>2. Room(e, t) /\ e.targ[t].type \in {"A", "B"}
  BY <1>1 DEF Room, SameTypes
<1>3. Settled(e, Null, M) /\ <<"next", t>> \notin M /\ <<"stalled", t>> \notin M
  BY <1>1, IsSettled
<1> HIDE DEF M
<1>4. Settled(n, Null, M) /\ SameTypes(n, e) /\ Room(n, t)
  BY <1>1, <1>2, <1>3, SendNextWhole
<1> HIDE DEF n
<1>5. n.targ[t].type \in {"A", "B"}
  BY <1>2, <1>4 DEF SameTypes
<1>6. Settled(u, Null, M)
  BY <1>3, <1>4, <1>5, UnstallWhole
<1> QED BY <1>0, <1>6 DEF M

LEMMA PeqEndRespCWhole ==
  ASSUME NEW s, NEW p, NEW x \in Trans, Whole(s, p, Null, {}, x), NEW t \in Targets,
         s.trans[x].target = t, p[x] = "answered", s.targ[t].type = "C",
         Way(s, x, "idle", "idle")
  PROVE  Settled(PeqEndRespC(s, t, x), Null, {})
<1> DEFINE d == GivenBack(s, t, x)
           n == SendNext(d, t)
           M == {}
<1>0. PeqEndRespC(s, t, x) = n
  <2>1. Whole(s, p, Null, M, x)
    OBVIOUS
  <2> DEFINE what == "illegal END_RESP"
  <2> HIDE DEF M, what
  <2>2. Require(s, s.targ[t].response_in_progress, what) = s
    BY <2>1, IsResponding
  <2> QED BY <2>2 DEF PeqEndRespC, GivenBack, what
<1>1. /\ Whole(d, [p EXCEPT ![x] = "none"], Null, {}, Null) /\ Stays(d, s, {"trans", "targ"})
      /\ ~d.targ[t].response_in_progress
  BY GiveBackWhole
<1> HIDE DEF d
<1>2. d.targ[t].type = "C"
  BY <1>1 DEF SameTypes, Stays
<1>3. Settled(d, Null, M) /\ <<"next", t>> \notin M /\ <<"stalled", t>> \notin M
  BY <1>1, IsSettled
<1> HIDE DEF M
<1>4. Settled(n, Null, M)
  BY <1>1, <1>2, <1>3, SendNextWhole
<1> QED BY <1>0, <1>4 DEF M

LEMMA NoThird ==
  ASSUME NEW n \in 0..2, NEW S, Counts(n, S), NEW x \in S, NEW y \in S, NEW z \in S
  PROVE  x = y \/ y = z \/ x = z
BY DEF Counts

(* A response that has begun on the hop of a target is of a transaction in *)
(* its pipeline.                                                           *)
LEMMA RespondingIsIn ==
  ASSUME NEW s, NEW p, NEW h, NEW L, NEW x, Whole(s, p, h, L, x), NEW t \in Targets,
         NEW z \in Trans, z # x, Responding(s, p, t, z)
  PROVE  s.trans[z].target = t /\ p[z] \in {"rsp_queue", "begin_resp", "end_resp", "answered"}
<1> DEFINE i == s.trans[z].init
           u == s.trans[z].target
<1>1. CASE On(s, t, z) = "BEGIN_RESP"
  <2>1. Trip(s, p, z)
    BY WholeParts DEF Trips
  <2>2. Way(s, z, On(s, i, z), On(s, u, z)) /\ u \in Targets /\ i \in Inits
    BY <2>1, WholeParts, TransField DEF Trip
  <2>3. t = u
    BY <1>1, <2>2, Apart DEF Way
  <2>4. Stands(p[z], On(s, i, z), On(s, u, z), s.targ[u].type, s.trans[z].dont_propagate_fw)
    BY <2>1 DEF Trip
  <2>5. p[z] \in {"rsp_queue", "begin_resp"}
    BY <1>1, <2>3, <2>4 DEF Stands
  <2> QED BY <2>3, <2>5
<1>2. CASE On(s, t, z) # "BEGIN_RESP"
  BY <1>2 DEF Responding
<1> QED BY <1>1, <1>2

(* In a target that responds and executes a transaction, no other waits.   *)
LEMMA NoneElseWaits ==
  ASSUME NEW s, NEW p, NEW h, NEW x \in Trans, Whole(s, p, h, {}, x), NEW t \in Targets,
         s.trans[x].target = t, p[x] = "served", s.targ[t].type \in {"A", "B"},
         Way(s, x, "END_REQ", "END_REQ"), s.targ[t].response_in_progress
  PROVE  s.targ[t].next = Null
<1>1. SUFFICES ASSUME s.targ[t].next # Null PROVE FALSE
  OBVIOUS
<1> DEFINE y == s.targ[t].next
<1>2. y \in Trans /\ p[y] = "next" /\ s.trans[y].target = t
  <2>1. Pointed(s, p, {}) /\ y \in Pointer
    BY WholeParts, SoundParts, TypeField
  <2>2. <<"next", t>> \notin {}
    OBVIOUS
  <2> QED BY <1>1, <2>1, <2>2 DEF Pointed, Pointer
<1>3. PICK z \in Trans : Responding(s, p, t, z)
  <2>1. Responses(s, p)
    BY WholeParts
  <2> QED BY <2>1 DEF Responses
<1>4. z # x
  BY <1>3, WayOn DEF Responding
<1>5. s.trans[z].target = t /\ p[z] \in {"rsp_queue", "begin_resp", "end_resp", "answered"}
  BY <1>3, <1>4, RespondingIsIn
<1>6. {x, y, z} \subseteq Pipe(s, p, t)
  BY <1>2, <1>5 DEF Pipe, InPipe, ByTarget
<1>7. Counts(s.targ[t].n_trans, Pipe(s, p, t)) /\ s.targ[t].n_trans \in 0..2
  <2>1. Counted(s, p)
    BY WholeParts, SoundParts
  <2>2. s.targ[t].n_trans \in 0..2
    BY WholeParts, TypeField
  <2> QED BY <2>1, <2>2 DEF Counted
<1>8. x = y \/ y = z \/ x = z
  BY <1>6, <1>7, NoThird
<1> QED BY <1>2, <1>4, <1>5, <1>8

LEMMA PeqInternalWhole ==
  ASSUME NEW s, NEW p, NEW x \in Trans, Whole(s, p, Null, {}, x), NEW t \in Targets,
         s.trans[x].target = t, p[x] = "served", s.targ[t].type \in {"A", "B", "C"},
         s.trans[x].status = "INCOMPLETE",
         IF s.targ[t].type \in {"A", "B"}
         THEN Way(s, x, "END_REQ", "END_REQ") ELSE Way(s, x, "BEGIN_REQ", "BEGIN_REQ")
  PROVE  Settled(PeqInternal(s, t, x), Null, {})
<1> DEFINE e == Execute(s, x)
           n == [e EXCEPT !.targ[t].next = x]
           m == SendResponse(e, t, x)
           q == [p EXCEPT ![x] = "next"]
<1>1. /\ Whole(e, p, Null, {}, x) /\ Same(e, s, {"trans"}) /\ Along(e, s, x)
      /\ Stays(e, s, {"trans"}) /\ e.trans[x].status # "INCOMPLETE"
  <2>1. s.trans[x].ref > 0
    BY WholeParts, InUse DEF ByInitiator
  <2> QED BY <2>1, AnswerWhole DEF Execute
<1>2. e.targ = s.targ
  BY <1>1, SameFields
<1>3. q[x] = "next"
  BY WholeParts
<1>4. PeqInternal(s, t, x) = IF s.targ[t].response_in_progress
                             THEN [Require(e, s.targ[t].next = Null, "two pending responses")
                                     EXCEPT !.targ[t].next = x]
                             ELSE m
  BY <1>2 DEF PeqInternal
<1> HIDE DEF e, q
<1>5. e.trans[x].target = t
  BY <1>1 DEF Along
<1>6. Inside(e, t, x)
  BY <1>1, <1>2, <1>5, AlongWay DEF Inside
<1>7. CASE s.targ[t].response_in_progress
  <2>1. s.targ[t].next = Null
    <3>1. CASE s.targ[t].type \in {"A", "B"}
      BY <1>7, <3>1, NoneElseWaits
    <3>2. CASE s.targ[t].type = "C"
      <4>1. s.req[t] = x
        <5>1. Requested(s) /\ On(s, t, x) = "BEGIN_REQ"
          BY <3>2, WholeParts, WayOn
        <5> QED BY <5>1 DEF Requested
      <4> DEFINE M == {}
      <4>2. Whole(s, p, Null, M, x) /\ <<"next", t>> \notin M
        OBVIOUS
      <4> HIDE DEF M
      <4>3. p[x] # "next" /\ s.targ[t].type \in {"C", "D"}
        BY <3>2
      <4>4. s.targ[t].next = Null /\ <<"send_rsp", t>> \notin s.runnable
        BY <4>1, <4>2, <4>3, NoneWaits
      <4> QED BY <4>4
    <3> QED BY <3>1, <3>2
  <2>2. PeqInternal(s, t, x) = n
    BY <1>4, <1>7, <2>1 DEF Require
  <2>3. Whole(n, q, Null, {}, x) /\ SameTypes(n, e) /\ Still(n, e, x) /\ n.trans = e.trans
    BY <1>1, <1>5, SetNextWhole DEF q
  <2> HIDE DEF n
  <2>4. n.targ[t].type = s.targ[t].type
    BY <1>2, <2>3 DEF SameTypes
  <2> DEFINE a == IF s.targ[t].type \in {"A", "B"} THEN "END_REQ" ELSE "BEGIN_REQ"
  <2>5. Way(n, x, a, a)
    <3>1. Way(e, x, a, a)
      BY <1>2, <1>6 DEF Inside
    <3> HIDE DEF a
    <3> QED BY <2>3, <3>1, StillWay
  <2>6. Fits(n, q, x, a, a)
    BY <1>1, <1>3, <1>5, <2>3, <2>4 DEF Fits, Stands
  <2> HIDE DEF a
  <2>7. Settled(n, Null, {})
    BY <2>3, <2>5, <2>6, SettledAt
  <2> QED BY <2>2, <2>7
<1>8. CASE ~s.targ[t].response_in_progress
  <2> DEFINE M == {}
  <2>1. Whole(e, p, Null, M, x) /\ <<"stalled", t>> \notin M
    BY <1>1
  <2> HIDE DEF M
  <2>2. Settled(m, Null, M)
    BY <1>2, <1>6, <1>8, <2>1, SendResponseWhole
  <2> HIDE DEF m
  <2> QED BY <1>4, <1>8, <2>2 DEF M
<1> QED BY <1>7, <1>8

-----------------------------------------------------------------------------
(* The processes of the interconnect.                                      *)
LEMMA ReleaseSettled ==
  ASSUME NEW s, NEW x \in Trans, NEW L, Settled(s, x, L)
  PROVE  Settled(Release(s, x), Null, L)
BY ReleaseHeldWhole DEF Settled

LEMMA SendBwEndReqWhole ==
  ASSUME NEW s, NEW p, NEW h, NEW L, NEW x \in Trans, Whole(s, p, h, L, x), p[x] = "internal",
         Way(s, x, "BEGIN_REQ", "END_REQ"), s.trans[x].status = "INCOMPLETE",
         s.targ[s.trans[x].target].type \in {"A", "B"}
  PROVE  Settled(SendBw(s, x, "END_REQ"), h, L)
<1> DEFINE i == s.trans[x].init
           r == CallInitiator(s, i, x, "END_REQ")
<1>1. i \in Inits /\ s.trans[x].target \in Targets
  BY TransField, WholeParts
<1>2. r.ret = "ACCEPTED" => SendBw(s, x, "END_REQ") = r.s
  BY DEF SendBw
<1>3. s.trans[x].init = i
  OBVIOUS
<1> HIDE DEF i
<1>4. /\ r.ret = "ACCEPTED" /\ Whole(r.s, p, h, L, x)
      /\ Way(r.s, x, "END_REQ", "END_REQ") /\ Stays(r.s, s, {"peq"})
      /\ r.s.trans = s.trans
  BY <1>1, <1>3, CallEndReqHop
<1> HIDE DEF r
<1>5. r.s.targ[s.trans[x].target].type \in {"A", "B"}
  BY <1>1, <1>4 DEF Stays, SameTypes
<1>6. Fits(r.s, p, x, "END_REQ", "END_REQ")
  BY <1>4, <1>5 DEF Fits, Stands
<1>7. Settled(r.s, h, L)
  BY <1>4, <1>6, SettledAt
<1> QED BY <1>2, <1>4, <1>7

LEMMA SendBwBeginRespWhole ==
  ASSUME NEW s, NEW p, NEW h, NEW L, NEW x \in Trans, Whole(s, p, h, L, x), p[x] = "served",
         NEW a \in {"BEGIN_REQ", "END_REQ"}, NEW y, Way(s, x, a, y),
         IF s.trans[x].dont_propagate_fw THEN y = "idle" ELSE y = "BEGIN_RESP",
         s.trans[x].status # "INCOMPLETE", NEW i \in Inits, s.trans[x].init = i, s.rsp[i] = x,
         <<"end_rsp", i>> \notin s.runnable
  PROVE  Settled(SendBw(s, x, "BEGIN_RESP"), h, L)
<1> DEFINE t == s.trans[x].target
           r == CallInitiator(s, i, x, "BEGIN_RESP")
           what == "no response to end"
           b == r.s.rsp[i] # Null
           c == Require(r.s, b, what)
           e == Notify(c, <<"end_rsp", i>>)
           f == CallTarget(e, t, x, "END_RESP")
           bad == "END_RESP answered by UPDATED"
           ok == f.ret # "UPDATED"
           g == Require(f.s, ok, bad)
<1>0. SendBw(s, x, "BEGIN_RESP") =
        IF r.ret = "ACCEPTED" THEN r.s ELSE IF s.trans[x].dont_propagate_fw THEN e ELSE g
  BY DEF SendBw
<1>1. t \in Targets /\ s.trans[x].target = t
  BY TransField, WholeParts
<1>2. /\ b => c = r.s
      /\ ok => g = f.s
  BY DEF Require
<1> HIDE DEF t, what, bad
<1>3. Handed(r, s, x, y, h, L)
  BY CallBeginRespHop
<1> HIDE DEF r
<1>4. CASE r.ret = "ACCEPTED"
  BY <1>0, <1>3, <1>4 DEF Handed
<1>5. CASE r.ret # "ACCEPTED"
  <2>1. PICK q \in [Trans -> Places] : InPlace(r.s, q, x, "answered", h, L, "idle", y, TRUE)
    BY <1>3, <1>5 DEF Handed, Held
  <2>2. r.s.rsp = s.rsp /\ SameRoute(r.s.trans[x], s.trans[x])
    BY <1>3, StaysRoute DEF Handed, Core
  <2>3. b /\ c = r.s
    BY <1>2, <2>2, Apart
  <2> HIDE DEF c, b
  <2>4. NoneResponding(r.s, i)
    <3>1. On(r.s, i, x) = "idle"
      BY <2>1, <2>2, WayOn DEF InPlace, SameRoute
    <3>2. Whole(r.s, q, h, L, x)
      BY <2>1 DEF InPlace
    <3> QED BY <2>2, <3>1, <3>2, NoneRespondsNow
  <2>5. Whole(e, q, h, L, x) /\ Still(e, c, x) /\ e.trans = c.trans
    <3>1. Whole(c, q, h, L, x) /\ c.rsp[i] # Null /\ NoneResponding(c, i)
      BY <2>1, <2>2, <2>3, <2>4, Apart DEF InPlace
    <3> QED BY <3>1, NotifyRspWhole
  <2> HIDE DEF e
  <2>6. /\ Way(e, x, "idle", y) /\ SameRoute(e.trans[x], s.trans[x]) /\ q[x] = "answered"
        /\ e.trans[x].target = t
    BY <1>1, <2>1, <2>2, <2>3, <2>5, StillWay DEF InPlace, SameRoute
  <2>7. CASE s.trans[x].dont_propagate_fw
    <3>1. Way(e, x, "idle", "idle")
      BY <2>6, <2>7
    <3>2. Fits(e, q, x, "idle", "idle")
      BY <2>6 DEF Fits, Stands
    <3>3. Settled(e, h, L)
      BY <2>5, <3>1, <3>2, SettledAt
    <3> QED BY <1>0, <1>5, <2>7, <3>3
  <2>8. CASE ~s.trans[x].dont_propagate_fw
    <3>1. ~e.trans[x].dont_propagate_fw /\ Way(e, x, "idle", "BEGIN_RESP")
      BY <2>6, <2>8 DEF SameRoute
    <3>2. Concluded(f, e, x, h, L)
      BY <1>1, <2>5, <2>6, <3>1, CallEndHop
    <3>3. g = f.s
      BY <1>2, <3>2 DEF Concluded
    <3> HIDE DEF f, ok, g
    <3> QED BY <1>0, <1>5, <2>8, <3>2, <3>3 DEF Concluded
  <2> QED BY <2>7, <2>8
<1> QED BY <1>4, <1>5

(* The response of a request that waited goes to the initiator, or waits   *)
(* again.                                                                  *)
LEMMA AnswerOrQueueWhole ==
  ASSUME NEW d, NEW p, NEW x \in Trans, Whole(d, p, x, {}, x), p[x] = "served", NEW i \in Inits,
         d.trans[x].init = i, NEW y, Way(d, x, "BEGIN_REQ", y),
         IF d.trans[x].dont_propagate_fw THEN y = "idle" ELSE y = "BEGIN_RESP",
         d.trans[x].status # "INCOMPLETE"
  PROVE  /\ d.rsp[i] # Null => Settled(QueueRsp(d, i, x), Null, {})
         /\ d.rsp[i] = Null =>
              Settled(Release(SendBw([d EXCEPT !.rsp[i] = x], x, "BEGIN_RESP"), x), Null, {})
<1> DEFINE u == QueueRsp(d, i, x)
           a == [d EXCEPT !.rsp[i] = x]
           b == SendBw(a, x, "BEGIN_RESP")
           q == [p EXCEPT ![x] = "rsp_queue"]
<1>1. CASE d.rsp[i] # Null
  <2>1. Whole(u, q, x, {}, x) /\ Still(u, d, x) /\ Stays(u, d, {"trans", "rsp_queue"})
    BY <1>1, QueueRspWhole
  <2>2. q[x] = "rsp_queue"
    BY WholeParts
  <2> HIDE DEF u, q
  <2>3. Whole(u, q, Null, {}, x)
    BY <2>1, DropHeldWhole
  <2>4. Way(u, x, "BEGIN_REQ", y) /\ u.trans[x].status # "INCOMPLETE"
    BY <2>1, StillWay
  <2>5. u.trans[x].dont_propagate_fw = d.trans[x].dont_propagate_fw
    BY <2>1, StaysRoute DEF SameRoute
  <2>6. Fits(u, q, x, "BEGIN_REQ", y)
    BY <2>2, <2>4, <2>5 DEF Fits, Stands
  <2>7. Settled(u, Null, {})
    BY <2>3, <2>4, <2>6, SettledAt
  <2> QED BY <1>1, <2>7 DEF u
<1>2. CASE d.rsp[i] = Null
  <2>1. /\ Whole(a, p, x, {}, x) /\ Still(a, d, x) /\ Stays(a, d, {"rsp"}) /\ a.rsp[i] = x
        /\ a.trans = d.trans /\ <<"end_rsp", i>> \notin a.runnable
    BY <1>2, BusyWhole
  <2> HIDE DEF a
  <2>2. Way(a, x, "BEGIN_REQ", y)
    BY <2>1, StillWay
  <2>3. Settled(b, x, {})
    BY <2>1, <2>2, SendBwBeginRespWhole
  <2> HIDE DEF b
  <2>4. Settled(Release(b, x), Null, {})
    BY <2>3, ReleaseSettled
  <2> QED BY <1>2, <2>4 DEF a, b
<1> QED BY <1>1, <1>2

(* The request at the head of the queue goes to the target, which has      *)
(* ended the last one.                                                     *)
LEMMA ServeReqWhole ==
  ASSUME NEW s, Settled(s, Null, {}), NEW t \in Targets, s.req_queue[t] # << >>,
         NoneBegun(s, t), <<"end_req", t>> \notin s.runnable
  PROVE  Settled(ServeReq(s, t), Null, {})
<1>p. PICK p \in [Trans -> Places] : Whole(s, p, Null, {}, Null)
  BY DEF Settled
<1> DEFINE x == Head(s.req_queue[t])
           i == s.trans[x].init
           a == [s EXCEPT !.req_queue[t] = Tail(@)]
           b == [a EXCEPT !.req[t] = x]
           r == CallTarget(b, t, x, "BEGIN_REQ")
           e == Notify(r.s, <<"end_req", t>>)
           done == r.ret = "COMPLETED"
           d == [e EXCEPT !.trans[x].dont_propagate_fw = done]
           responds == r.ret = "COMPLETED" \/ (r.ret = "UPDATED" /\ r.phase = "BEGIN_RESP")
           w == Release(SendBw([d EXCEPT !.rsp[i] = x], x, "BEGIN_RESP"), x)
           z == Release(SendBw(d, x, r.phase), x)
           k == [p EXCEPT ![x] = "sent"]
           M == {}
<1>1. /\ x \in Trans /\ s.trans[x].target = t /\ p[x] = "req_queue" /\ Trip(s, p, x)
      /\ Whole(a, k, x, {}, x) /\ Still(a, s, x) /\ Same(a, s, {"req_queue"})
  BY <1>p, TailReqWhole
<1>2. ServeReq(s, t) =
        CASE r.ret = "ACCEPTED" -> Release(r.s, x)
          [] responds /\ r.s.rsp[i] # Null -> QueueRsp(d, i, x)
          [] responds /\ r.s.rsp[i] = Null -> w
          [] OTHER -> z
  <2>1. [s EXCEPT !.req_queue[t] = Tail(@), !.req[t] = x] = b
    OBVIOUS
  <2>2. Require(s, s.trans[x].target = t, "wrong target") = s
    BY <1>1 DEF Require
  <2> QED BY <2>1, <2>2 DEF ServeReq
<1>3. i \in Inits /\ k[x] = "sent" /\ s.trans[x].init = i
  BY <1>p, <1>1, TransField, WholeParts
<1>4. Way(s, x, "BEGIN_REQ", "idle") /\ s.trans[x].status = "INCOMPLETE"
  BY <1>1, TripAt
<1> HIDE DEF x, k, i, a
<1>5. /\ Way(a, x, "BEGIN_REQ", "idle") /\ a.trans[x].status = "INCOMPLETE"
      /\ a.trans[x].target = t /\ a.trans[x].init = i
  BY <1>1, <1>3, <1>4, StillWay
<1>6. NoneBegun(a, t) /\ <<"end_req", t>> \notin a.runnable
  BY <1>1, SameFields DEF NoneBegun, On
<1>7. /\ Whole(b, k, x, M, x) /\ Still(b, a, x) /\ Same(b, a, {"req"}) /\ b.req[t] = x
      /\ b.trans = a.trans
  BY <1>1, <1>6, SetReqWhole, Apart DEF Pointer
<1> HIDE DEF b, M
<1>8. /\ Way(b, x, "BEGIN_REQ", "idle") /\ b.trans[x].status = "INCOMPLETE"
      /\ b.trans[x].target = t /\ b.trans[x].init = i
      /\ <<"end_req", t>> \notin b.runnable
  BY <1>5, <1>6, <1>7, StillWay, SameFields
<1>9. Progress(r, b, x, x, M)
  <2>1. <<"next", t>> \notin M
    BY DEF M
  <2> QED BY <1>1, <1>3, <1>7, <1>8, <2>1, CallBeginHop
<1> HIDE DEF r
<1>10. /\ r.s.req = b.req /\ r.s.targ[t].type = b.targ[t].type
       /\ r.s.trans[x].init = i /\ r.s.trans[x].target = t
  BY <1>1, <1>8, <1>9, StaysRoute DEF Progress, SameRoute, Core
<1>11. CASE r.ret = "ACCEPTED"
  <2>1. Settled(r.s, x, M)
    BY <1>9, <1>11 DEF Progress
  <2>2. Settled(Release(r.s, x), Null, M)
    BY <1>1, <2>1, ReleaseSettled
  <2> QED BY <1>2, <1>11, <2>2 DEF M
<1>12. CASE r.ret # "ACCEPTED"
  <2>1. \/ /\ r.ret = "UPDATED" /\ r.phase = "END_REQ" /\ r.s.targ[t].type = "B"
           /\ Held(r.s, x, "internal", x, M, "BEGIN_REQ", "END_REQ", FALSE)
        \/ /\ r.ret = "UPDATED" /\ r.phase = "BEGIN_RESP" /\ r.s.targ[t].type # "E"
           /\ Held(r.s, x, "served", x, M, "BEGIN_REQ", "BEGIN_RESP", TRUE)
        \/ /\ r.ret = "COMPLETED" /\ r.phase = "BEGIN_REQ" /\ r.s.targ[t].type = "E"
           /\ Held(r.s, x, "sent", x, M, "BEGIN_REQ", "idle", TRUE)
    BY <1>8, <1>9, <1>10, <1>12 DEF Progress
  <2>2. PICK q \in [Trans -> Places], g \in {"END_REQ", "BEGIN_RESP", "idle"} :
          /\ Whole(r.s, q, x, M, x) /\ Way(r.s, x, "BEGIN_REQ", g)
          /\ \/ /\ r.ret = "UPDATED" /\ r.phase = "END_REQ" /\ r.s.targ[t].type = "B"
                /\ q[x] = "internal" /\ g = "END_REQ" /\ r.s.trans[x].status = "INCOMPLETE"
             \/ /\ r.ret = "UPDATED" /\ r.phase = "BEGIN_RESP" /\ r.s.targ[t].type # "E"
                /\ q[x] = "served" /\ g = "BEGIN_RESP" /\ r.s.trans[x].status # "INCOMPLETE"
             \/ /\ r.ret = "COMPLETED" /\ r.phase = "BEGIN_REQ" /\ r.s.targ[t].type = "E"
                /\ q[x] = "sent" /\ g = "idle" /\ r.s.trans[x].status # "INCOMPLETE"
    BY <2>1 DEF Held, InPlace, Answered1
  <2>3. NoneBegun(r.s, t)
    <3>1. On(r.s, t, x) # "BEGIN_REQ"
      BY <1>10, <2>2, WayOn
    <3> QED BY <1>7, <1>10, <2>2, <3>1, NoneBegunNow
  <2>4. /\ Whole(e, q, x, M, x) /\ Still(e, r.s, x) /\ Same(e, r.s, {"runnable"})
        /\ e.trans = r.s.trans
    BY <1>1, <1>7, <1>10, <2>2, <2>3, NotifyReqWhole, Apart
  <2> HIDE DEF e
  <2>5. /\ Way(e, x, "BEGIN_REQ", g) /\ e.rsp = r.s.rsp /\ e.targ = r.s.targ
    BY <2>2, <2>4, StillWay, SameFields
  <2>6. CASE r.ret = "UPDATED"
    <3>1. ~e.trans[x].dont_propagate_fw
      <4>1. q[x] \in Routed /\ e.targ[e.trans[x].target].type # "E"
        BY <1>10, <2>2, <2>4, <2>5, <2>6 DEF Routed, Places, InHand
      <4> QED BY <1>1, <2>4, <4>1, NotDone, WholeParts
    <3>2. d = e
      <4>1. [e EXCEPT !.trans[x].dont_propagate_fw = FALSE] = e
        BY <1>1, <2>4, <3>1, NoMarkItself, WholeParts
      <4>2. done = FALSE
        BY <2>6
      <4> QED BY <4>1, <4>2
    <3> HIDE DEF d, done
    <3>3. CASE r.phase = "END_REQ"
      <4>1. ServeReq(s, t) = z
        BY <1>2, <2>6, <3>3
      <4>2. Settled(SendBw(d, x, "END_REQ"), x, M)
        <5>1. /\ q[x] = "internal" /\ Way(d, x, "BEGIN_REQ", "END_REQ")
              /\ d.trans[x].status = "INCOMPLETE"
              /\ d.targ[d.trans[x].target].type \in {"A", "B"}
          BY <1>10, <2>2, <2>4, <2>5, <2>6, <3>2, <3>3
        <5> QED BY <1>1, <2>4, <3>2, <5>1, SendBwEndReqWhole
      <4>3. Settled(Release(SendBw(d, x, "END_REQ"), x), Null, M)
        BY <1>1, <4>2, ReleaseSettled
      <4> QED BY <3>3, <4>1, <4>3 DEF M
    <3>4. CASE r.phase # "END_REQ"
      <4>1. q[x] = "served" /\ r.phase = "BEGIN_RESP" /\ g = "BEGIN_RESP"
            /\ d.trans[x].status # "INCOMPLETE" /\ d.trans[x].init = i
        BY <1>10, <2>2, <2>4, <2>6, <3>2, <3>4
      <4>2. Whole(d, q, x, {}, x)
        BY <2>4, <3>2 DEF M
      <4>3. /\ d.rsp[i] # Null => Settled(QueueRsp(d, i, x), Null, {})
            /\ d.rsp[i] = Null => Settled(w, Null, {})
        BY <1>1, <1>3, <2>5, <3>1, <3>2, <4>1, <4>2, AnswerOrQueueWhole
      <4> HIDE DEF w
      <4> QED BY <1>2, <2>5, <2>6, <3>2, <4>1, <4>3
    <3> QED BY <3>3, <3>4
  <2>7. CASE r.ret = "COMPLETED"
    <3> DEFINE y == [e EXCEPT !.trans[x].dont_propagate_fw = TRUE]
               n == [q EXCEPT ![x] = "served"]
    <3>1. d = y
      BY <2>7
    <3>2. /\ Whole(y, n, x, M, x) /\ Same(y, e, {"trans"}) /\ Still(y, e, x)
          /\ y.trans[x].dont_propagate_fw
      <4>1. q[x] = "sent" /\ e.targ[e.trans[x].target].type = "E"
        BY <1>10, <2>2, <2>4, <2>5, <2>7
      <4> QED BY <1>1, <2>4, <4>1, MarkWhole
    <3>3. n[x] = "served"
      BY <1>1, <2>2, WholeParts
    <3> HIDE DEF y, n, d
    <3>4. /\ Way(d, x, "BEGIN_REQ", "idle") /\ d.trans[x].init = i
          /\ d.trans[x].status # "INCOMPLETE" /\ d.rsp = r.s.rsp
      BY <1>10, <2>2, <2>4, <2>5, <2>7, <3>1, <3>2, StillWay, SameFields
    <3>5. Whole(d, n, x, {}, x) /\ d.trans[x].dont_propagate_fw
      BY <3>1, <3>2 DEF M
    <3>6. /\ d.rsp[i] # Null => Settled(QueueRsp(d, i, x), Null, {})
          /\ d.rsp[i] = Null => Settled(w, Null, {})
      BY <1>1, <1>3, <3>3, <3>4, <3>5, AnswerOrQueueWhole
    <3> HIDE DEF w
    <3> QED BY <1>2, <2>7, <3>4, <3>6
  <2> QED BY <2>2, <2>6, <2>7
<1> QED BY <1>11, <1>12

(* A response that is on its way to the initiator has begun at the target, *)
(* unless the target is through with it.                                   *)
LEMMA Returning ==
  ASSUME NEW s, NEW p, NEW h, NEW L, Whole(s, p, h, L, Null), NEW x \in Trans,
         p[x] \in {"rsp_queue", "begin_resp"}
  PROVE  /\ s.trans[x].status # "INCOMPLETE"
         /\ \E a \in {"BEGIN_REQ", "END_REQ", "BEGIN_RESP"}, b \in {"idle", "BEGIN_RESP"} :
              /\ Way(s, x, a, b)
              /\ IF s.trans[x].dont_propagate_fw THEN b = "idle" ELSE b = "BEGIN_RESP"
              /\ p[x] = "rsp_queue" => a \in {"BEGIN_REQ", "END_REQ"}
              /\ p[x] = "begin_resp" => a = "BEGIN_RESP"
<1> DEFINE i == s.trans[x].init
           t == s.trans[x].target
           a == On(s, i, x)
           b == On(s, t, x)
<1>1. Trip(s, p, x)
  BY TakeUp
<1>2. s.trans[x].status # "INCOMPLETE"
  BY <1>1, TripAt
<1>3. Way(s, x, a, b) /\ Stands(p[x], a, b, s.targ[t].type, s.trans[x].dont_propagate_fw)
  BY <1>1 DEF Trip
<1>4. s.trans[x].dont_propagate_fw => b # "BEGIN_RESP"
  <2>1. SUFFICES ASSUME s.trans[x].dont_propagate_fw, b = "BEGIN_RESP" PROVE FALSE
    OBVIOUS
  <2>2. t \in Targets
    BY TransField, WholeParts
  <2>3. s.targ[t].type = "E"
    <3>1. AtOnce(s, p)
      BY WholeParts, SoundParts
    <3> QED BY <2>1, <3>1 DEF AtOnce, Routed, Places
  <2>4. Responses(s, p) /\ Responding(s, p, t, x)
    BY <2>1, WholeParts DEF Responding
  <2> QED BY <2>2, <2>3, <2>4 DEF Responses
<1> HIDE DEF a, b
<1>5. /\ a \in {"BEGIN_REQ", "END_REQ", "BEGIN_RESP"} /\ b \in {"idle", "BEGIN_RESP"}
      /\ IF s.trans[x].dont_propagate_fw THEN b = "idle" ELSE b = "BEGIN_RESP"
      /\ p[x] = "rsp_queue" => a \in {"BEGIN_REQ", "END_REQ"}
      /\ p[x] = "begin_resp" => a = "BEGIN_RESP"
  BY <1>3, <1>4 DEF Stands
<1> QED BY <1>2, <1>3, <1>5

(* The response at the head of the queue goes to the initiator, which has  *)
(* ended the last one.                                                     *)
LEMMA ServeRspWhole ==
  ASSUME NEW s, Settled(s, Null, {}), NEW i \in Inits, s.rsp_queue[i] # << >>,
         NoneResponding(s, i), <<"end_rsp", i>> \notin s.runnable
  PROVE  Settled(ServeRsp(s, i), Null, {})
<1>p. PICK p \in [Trans -> Places] : Whole(s, p, Null, {}, Null)
  BY DEF Settled
<1> DEFINE x == Head(s.rsp_queue[i])
           c == [s EXCEPT !.rsp_queue[i] = Tail(@)]
           e == [c EXCEPT !.rsp[i] = x]
           f == SendBw(e, x, "BEGIN_RESP")
           k == [p EXCEPT ![x] = "served"]
           M == {}
<1>0. ServeRsp(s, i) = Release(f, x)
  <2>1. [s EXCEPT !.rsp_queue[i] = Tail(@), !.rsp[i] = x] = e
    OBVIOUS
  <2> QED BY <2>1 DEF ServeRsp
<1>1. /\ x \in Trans /\ s.trans[x].init = i /\ p[x] = "rsp_queue"
      /\ Whole(c, k, x, {}, x) /\ Still(c, s, x) /\ Same(c, s, {"rsp_queue"})
  <2>1. Whole(s, p, Null, M, Null)
    BY <1>p
  <2> HIDE DEF M
  <2>2. /\ x \in Trans /\ s.trans[x].init = i /\ p[x] = "rsp_queue" /\ Trip(s, p, x)
        /\ Whole(c, k, x, M, x) /\ Still(c, s, x) /\ Same(c, s, {"rsp_queue"})
    BY <2>1, TailRspWhole
  <2> QED BY <2>2 DEF M
<1>2. k[x] = "served"
  BY <1>p, <1>1, WholeParts
<1> HIDE DEF x, k, c
<1>3. PICK a \in {"BEGIN_REQ", "END_REQ"}, b \in {"idle", "BEGIN_RESP"} :
        /\ Way(s, x, a, b) /\ s.trans[x].status # "INCOMPLETE"
        /\ IF s.trans[x].dont_propagate_fw THEN b = "idle" ELSE b = "BEGIN_RESP"
  <2>1. Whole(s, p, Null, M, Null)
    BY <1>p
  <2> HIDE DEF M
  <2> QED BY <1>1, <2>1, Returning
<1>4. /\ Way(c, x, a, b) /\ c.trans = s.trans
      /\ NoneResponding(c, i) /\ <<"end_rsp", i>> \notin c.runnable
  BY <1>1, <1>3, StillWay, SameFields DEF NoneResponding, On
<1>5. /\ Whole(e, k, x, M, x) /\ Still(e, c, x) /\ Same(e, c, {"rsp"}) /\ e.rsp[i] = x
      /\ e.trans = c.trans
  BY <1>1, <1>4, SetRspWhole, Apart DEF Pointer
<1> HIDE DEF e, M
<1>6. Way(e, x, a, b) /\ <<"end_rsp", i>> \notin e.runnable
  BY <1>4, <1>5, StillWay, SameFields
<1>7. Settled(f, x, M)
  BY <1>1, <1>2, <1>3, <1>4, <1>5, <1>6, SendBwBeginRespWhole
<1> HIDE DEF f
<1>8. Settled(Release(f, x), Null, M)
  BY <1>1, <1>7, ReleaseSettled
<1> QED BY <1>0, <1>8 DEF M

-----------------------------------------------------------------------------
(* The steps.  The state a process sees is that of the kernel, but for the *)
(* process itself.                                                         *)
Fewer(r, s) ==
  /\ IsState(r) /\ Unchanged(r, s, Core \ {"runnable"})
  /\ r.check = s.check /\ r.path = s.path /\ r.faults = s.faults
  /\ \A g : /\ <<"send_rsp", g>> \in r.runnable => <<"send_rsp", g>> \in s.runnable
            /\ <<"end_req", g>> \in r.runnable => <<"end_req", g>> \in s.runnable
            /\ <<"end_rsp", g>> \in r.runnable => <<"end_rsp", g>> \in s.runnable

LEMMA FewerWhole ==
  ASSUME NEW s, NEW p, NEW h, NEW L, Whole(s, p, h, L, Null), NEW r, Fewer(r, s)
  PROVE  Whole(r, p, h, L, Null)
<1>1. Sound(r, p, h, L)
  <2>1. Sound(s, p, h, L)
    BY WholeParts
  <2> QED BY <2>1, Notified DEF Fewer
<1>2. /\ r.init = s.init /\ r.targ = s.targ /\ r.req = s.req /\ r.rsp = s.rsp
      /\ r.trans = s.trans /\ r.peq = s.peq /\ r.overdue = s.overdue
  BY DEF Fewer, Unchanged, Core
<1>3. Elsewhere(r, s, p, p, Null)
  BY <1>2 DEF Elsewhere, Fewer, SameTypes
<1>4. Checked(r) /\ Trips(r, p, Null) /\ \A g, y : On(r, g, y) = On(s, g, y)
  BY <1>3, KeepTrips
<1>r. \A g : /\ <<"send_rsp", g>> \in r.runnable => <<"send_rsp", g>> \in s.runnable
             /\ <<"end_req", g>> \in r.runnable => <<"end_req", g>> \in s.runnable
             /\ <<"end_rsp", g>> \in r.runnable => <<"end_rsp", g>> \in s.runnable
  BY DEF Fewer
<1>5. Asked(r)
  BY <1>2, <1>4, KeepAsked, WholeParts
<1>6. Answered(r)
  <2>1. Answered(s)
    BY WholeParts
  <2>2. ASSUME NEW i \in Inits
        PROVE  /\ \A y \in Trans : On(r, i, y) = "BEGIN_RESP" =>
                    r.rsp[i] = y /\ <<"end_rsp", i>> \notin r.runnable
               /\ <<"end_rsp", i>> \in r.runnable => r.rsp[i] # Null
    <3> DEFINE e == <<"end_rsp", i>>
    <3>1. e \in r.runnable => e \in s.runnable
      BY <1>r
    <3>2. /\ \A y \in Trans : On(s, i, y) = "BEGIN_RESP" => s.rsp[i] = y /\ e \notin s.runnable
          /\ e \in s.runnable => s.rsp[i] # Null
      BY <2>1 DEF Answered
    <3> HIDE DEF e
    <3>3. /\ \A y \in Trans : On(r, i, y) = "BEGIN_RESP" => r.rsp[i] = y /\ e \notin r.runnable
          /\ e \in r.runnable => r.rsp[i] # Null
      BY <1>2, <1>4, <3>1, <3>2
    <3> QED BY <3>3 DEF e
  <2> QED BY Zenon, <2>2 DEF Answered
<1>7. Requested(r)
  <2>1. Requested(s)
    BY WholeParts
  <2>2. ASSUME NEW t \in Targets
        PROVE  /\ \A y \in Trans : On(r, t, y) = "BEGIN_REQ" =>
                    r.req[t] = y /\ <<"end_req", t>> \notin r.runnable
               /\ <<"end_req", t>> \in r.runnable => r.req[t] # Null
    <3> DEFINE e == <<"end_req", t>>
    <3>1. e \in r.runnable => e \in s.runnable
      BY <1>r
    <3>2. /\ \A y \in Trans : On(s, t, y) = "BEGIN_REQ" => s.req[t] = y /\ e \notin s.runnable
          /\ e \in s.runnable => s.req[t] # Null
      BY <2>1 DEF Requested
    <3> HIDE DEF e
    <3>3. /\ \A y \in Trans : On(r, t, y) = "BEGIN_REQ" => r.req[t] = y /\ e \notin r.runnable
          /\ e \in r.runnable => r.req[t] # Null
      BY <1>2, <1>4, <3>1, <3>2
    <3> QED BY <3>3 DEF e
  <2> QED BY Zenon, <2>2 DEF Requested
<1>8. Responses(r, p)
  <2>1. Responses(s, p) /\ SameTypes(r, s)
    BY <1>2, WholeParts DEF SameTypes
  <2>2. \A t \in Targets, y \in Trans : Responding(r, p, t, y) <=> Responding(s, p, t, y)
    BY <1>2, <1>4 DEF Responding
  <2>3. \A t \in Targets : <<"send_rsp", t>> \in r.runnable => <<"send_rsp", t>> \in s.runnable
    BY <1>r
  <2> QED BY <1>2, <2>1, <2>2, <2>3, KeepResponses
<1>9. Ends(r)
  BY <1>2, <1>4, KeepEnds, SameEnds, WholeParts
<1> QED BY <1>1, <1>4, <1>5, <1>6, <1>7, <1>8, <1>9 DEF Whole, Hopped

LEMMA SelfWhole ==
  ASSUME NEW p, Whole(State(Kernel), p, Null, {}, Null), NEW self
  PROVE  Whole(State(self), p, Null, {}, Null) /\ self \notin State(self).runnable
<1> DEFINE k == State(Kernel)
           r == State(self)
           M == {}
<1>1. IsState(r)
  BY DEF State, IsState, Fields
<1>2. Unchanged(r, k, Core \ {"runnable"})
  BY DEF State, Unchanged, Core
<1>3. r.check = k.check /\ r.path = k.path /\ r.faults = k.faults
  BY DEF State
<1>4. \A g : /\ <<"send_rsp", g>> \in r.runnable => <<"send_rsp", g>> \in k.runnable
             /\ <<"end_req", g>> \in r.runnable => <<"end_req", g>> \in k.runnable
             /\ <<"end_rsp", g>> \in r.runnable => <<"end_rsp", g>> \in k.runnable
  BY DEF State, Kernel
<1>5. self \notin r.runnable
  BY DEF State
<1>6. Whole(k, p, Null, M, Null)
  OBVIOUS
<1> HIDE DEF k, r, M
<1>7. Fewer(r, k)
  BY <1>1, <1>2, <1>3, <1>4 DEF Fewer
<1>8. Whole(r, p, Null, M, Null)
  BY <1>6, <1>7, FewerWhole
<1> QED BY <1>5, <1>8 DEF r, M

(* And the kernel that of the process, when it is done.                    *)
LEMMA BecomeWhole ==
  ASSUME NEW s, Settled(s, Null, {}), Become(s)
  PROVE  HopsInv'
<1>1. PICK p \in [Trans -> Places] : Whole(s, p, Null, {}, Null)
  BY DEF Settled
<1> DEFINE r == State(Kernel)'
           M == {}
<1>2. IsState(r)
  BY DEF State, IsState, Fields
<1>3. Unchanged(r, s, Core \ {"runnable"}) /\ r.runnable \subseteq s.runnable
  BY DEF State, Unchanged, Core, Become
<1>4. r.check = s.check /\ r.path = s.path /\ r.faults = s.faults
  BY DEF State, Become
<1>5. Whole(s, p, Null, M, Null)
  BY <1>1
<1> HIDE DEF r, M
<1>6. Fewer(r, s)
  BY <1>2, <1>3, <1>4 DEF Fewer
<1>7. Whole(r, p, Null, M, Null)
  BY <1>5, <1>6, FewerWhole
<1>8. InOrder(State(Kernel))'
  <2>1. InOrder(s)
    BY <1>5, WholeParts DEF Ends
  <2>2. State(Kernel)'.overdue = s.overdue /\ peq' = s.peq
    BY DEF State, Become
  <2>3. CASE IsOver(s)
    BY <2>2, <2>3 DEF IsOver, InOrder, EmptyBag, SetToBag
  <2>4. CASE ~IsOver(s)
    <3>1. later'.entries = later.entries \cup (DOMAIN s.peq \ DOMAIN peq)
      BY <2>4 DEF Become, BagToSet
    <3> QED BY <2>1, <2>2, <3>1 DEF InOrder
  <2> QED BY <2>3, <2>4
<1>9. Sound(r, p, Null, M) /\ Hopped(r, p, Null) /\ PostedEnds(r) /\ OverdueEnds(r)
  BY <1>7 DEF Whole, Hopped, Ends
<1>10. Whole(State(Kernel), p, Null, {}, Null)'
  BY <1>8, <1>9 DEF r, M, Whole, Hopped, Ends
<1> QED BY <1>10 DEF HopsInv

(* The request in progress at t has ended: none has begun there.           *)
LEMMA EndReqHops ==
  ASSUME HopsInv, NEW t \in Targets, EndReq(t)
  PROVE  HopsInv'
<1>1. PICK p \in [Trans -> Places] : Whole(State(Kernel), p, Null, {}, Null)
  BY DEF HopsInv
<1> DEFINE k == State(Kernel)
           e == <<"end_req", t>>
           s == State(e)
           b == s.req[t] # Null
           what == "no request ended"
           n == [s EXCEPT !.req[t] = Null]
           m == ServeReq(s, t)
           f == IF s.req_queue[t] = << >> THEN n ELSE m
           M == {}
<1>2. e \in k.runnable /\ s.check = k.check /\ s.req = k.req /\ e \notin s.runnable
  BY DEF EndReq, State, Kernel
<1>3. Whole(s, p, Null, M, Null)
  BY <1>1, SelfWhole
<1>4. Requested(k)
  BY <1>1, WholeParts
<1>5. Become(EndReqProcess(s, t))
  BY DEF EndReq
<1> HIDE DEF k, s
<1>6. NoneBegun(s, t) /\ b
  <2>1. \A y \in Trans : On(s, t, y) = On(k, t, y)
    BY <1>2 DEF On
  <2>2. e \in k.runnable => k.req[t] # Null
    BY <1>4 DEF Requested
  <2>3. \A y \in Trans : On(k, t, y) = "BEGIN_REQ" => e \notin k.runnable
    BY <1>4 DEF Requested
  <2> HIDE DEF e
  <2>4. \A y \in Trans : On(s, t, y) # "BEGIN_REQ"
    BY <1>2, <2>1, <2>3
  <2> QED BY <1>2, <2>2, <2>4 DEF NoneBegun
<1>7. EndReqProcess(s, t) = f
  <2> DEFINE c == Require(s, b, what)
  <2>1. EndReqProcess(s, t) = IF s.req_queue[t] = << >> THEN [c EXCEPT !.req[t] = Null] ELSE ServeReq(c, t)
    BY Zenon DEF EndReqProcess
  <2> HIDE DEF what
  <2>2. c = s
    BY <1>6 DEF Require
  <2> HIDE DEF c
  <2> QED BY <2>1, <2>2
<1> HIDE DEF b, what, M
<1>8. CASE s.req_queue[t] = << >>
  <2>1. Null \in Pointer
    BY DEF Pointer
  <2>2. Whole(n, p, Null, M, Null)
    BY <1>2, <1>3, <1>6, <1>8, <2>1, SetReqWhole
  <2> HIDE DEF n
  <2>3. Settled(n, Null, M)
    BY <2>2, IsSettled
  <2> QED BY <1>5, <1>7, <1>8, <2>3, BecomeWhole DEF M
<1>9. CASE s.req_queue[t] # << >>
  <2>1. Settled(s, Null, M)
    BY <1>3, IsSettled
  <2>2. Settled(m, Null, {})
    BY <1>2, <1>6, <1>9, <2>1, ServeReqWhole DEF M
  <2> HIDE DEF m
  <2> QED BY <1>5, <1>7, <1>9, <2>2, BecomeWhole
<1> QED BY <1>8, <1>9

(* And so has the response in progress at i.                               *)
LEMMA EndRspHops ==
  ASSUME HopsInv, NEW i \in Inits, EndRsp(i)
  PROVE  HopsInv'
<1>1. PICK p \in [Trans -> Places] : Whole(State(Kernel), p, Null, {}, Null)
  BY DEF HopsInv
<1> DEFINE k == State(Kernel)
           e == <<"end_rsp", i>>
           s == State(e)
           b == s.rsp[i] # Null
           what == "no response ended"
           n == [s EXCEPT !.rsp[i] = Null]
           m == ServeRsp(s, i)
           f == IF s.rsp_queue[i] = << >> THEN n ELSE m
           M == {}
<1>2. e \in k.runnable /\ s.check = k.check /\ s.rsp = k.rsp /\ e \notin s.runnable
  BY DEF EndRsp, State, Kernel
<1>3. Whole(s, p, Null, M, Null)
  BY <1>1, SelfWhole
<1>4. Answered(k)
  BY <1>1, WholeParts
<1>5. Become(EndRspProcess(s, i))
  BY DEF EndRsp
<1> HIDE DEF k, s
<1>6. NoneResponding(s, i) /\ b
  <2>1. \A y \in Trans : On(s, i, y) = On(k, i, y)
    BY <1>2 DEF On
  <2>2. e \in k.runnable => k.rsp[i] # Null
    BY <1>4 DEF Answered
  <2>3. \A y \in Trans : On(k, i, y) = "BEGIN_RESP" => e \notin k.runnable
    BY <1>4 DEF Answered
  <2> HIDE DEF e
  <2>4. \A y \in Trans : On(s, i, y) # "BEGIN_RESP"
    BY <1>2, <2>1, <2>3
  <2> QED BY <1>2, <2>2, <2>4 DEF NoneResponding
<1>7. EndRspProcess(s, i) = f
  <2> DEFINE c == Require(s, b, what)
  <2>1. EndRspProcess(s, i) = IF s.rsp_queue[i] = << >> THEN [c EXCEPT !.rsp[i] = Null] ELSE ServeRsp(c, i)
    BY Zenon DEF EndRspProcess
  <2> HIDE DEF what
  <2>2. c = s
    BY <1>6 DEF Require
  <2> HIDE DEF c
  <2> QED BY <2>1, <2>2
<1> HIDE DEF b, what, M
<1>8. CASE s.rsp_queue[i] = << >>
  <2>1. Null \in Pointer
    BY DEF Pointer
  <2>2. Whole(n, p, Null, M, Null)
    BY <1>2, <1>3, <1>6, <1>8, <2>1, SetRspWhole
  <2> HIDE DEF n
  <2>3. Settled(n, Null, M)
    BY <2>2, IsSettled
  <2> QED BY <1>5, <1>7, <1>8, <2>3, BecomeWhole DEF M
<1>9. CASE s.rsp_queue[i] # << >>
  <2>1. Settled(s, Null, M)
    BY <1>3, IsSettled
  <2>2. Settled(m, Null, {})
    BY <1>2, <1>6, <1>9, <2>1, ServeRspWhole DEF M
  <2> HIDE DEF m
  <2> QED BY <1>5, <1>7, <1>9, <2>2, BecomeWhole
<1> QED BY <1>8, <1>9

LEMMA TargetPeqHops ==
  ASSUME HopsInv, NEW t \in Targets, TargetPeq(t)
  PROVE  HopsInv'
<1>1. PICK e \in Entries(t) :
        Become(CASE targ[t].type = "A" -> PeqA(Taken(e), t, e.trans, e.phase)
                 [] targ[t].type = "B" -> PeqB(Taken(e), t, e.trans, e.phase)
                 [] targ[t].type = "C" -> PeqC(Taken(e), t, e.trans, e.phase))
  BY DEF TargetPeq
<1>2. PICK p \in [Trans -> Places] : Whole(State(Kernel), p, Null, {}, Null)
  BY DEF HopsInv
<1> DEFINE s == State(<<"peq", t>>)
           r == Taken(e)
           x == e.trans
           q == [p EXCEPT ![x] = PlaceAfter[e.phase]]
           M == {}
<1>3. Whole(s, p, Null, M, Null)
  BY <1>2, SelfWhole
<1>4. e.at = t /\ e \in DOMAIN peq /\ s.peq = peq /\ s.targ = targ /\ r = Without(s, e)
  <2>1. t \notin Inits
    BY TLMAssumption
  <2>2. s.overdue = overdue /\ s.peq = peq /\ s.targ = targ
    BY DEF State
  <2> HIDE DEF s, r, M
  <2>3. Typed(s)
    BY <1>3, WholeParts
  <2>4. e.at = t /\ e \in DOMAIN peq /\ ~BagIn(e, overdue.entries)
    <3>1. IsABag(peq) /\ OverdueTyped(overdue)
      BY <2>2, <2>3 DEF Typed
    <3> QED BY <1>1, <2>1, <3>1, EntryOf
  <2> QED BY <2>2, <2>4, TakenPeq DEF r, s
<1> HIDE DEF s, r, M
<1>5. /\ e.phase \in {"BEGIN_REQ", "internal_ph", "END_RESP"} /\ e \in Entry
      /\ s.trans[x].target = t /\ s.targ[t].type \in {"A", "B", "C"}
  <2>1. Posted(s, p) /\ e \in Entry
    BY <1>3, <1>4, WholeParts, SoundParts DEF Typed
  <2>2. t \notin Inits
    BY TLMAssumption
  <2> QED BY <1>4, <2>1, <2>2 DEF Posted, Entry, Phases
<1>7. /\ x \in Trans /\ p[x] = PlaceOf[e.phase] /\ Trip(s, p, x)
      /\ Whole(r, q, Null, M, x) /\ Still(r, s, x) /\ Same(r, s, {"peq", "overdue"})
  <2>1. e \in DOMAIN s.peq /\ s.peq = peq /\ e.phase # "END_REQ"
    BY <1>4, <1>5
  <2>2. LET w == Without(s, e)
            y == e.trans
        IN /\ y \in Trans /\ p[y] = PlaceOf[e.phase] /\ Trip(s, p, y)
           /\ Whole(w, [p EXCEPT ![y] = PlaceAfter[e.phase]], Null, M, y) /\ Still(w, s, y)
           /\ Same(w, s, {"peq", "overdue"})
    BY <1>3, <2>1, TakenWhole
  <2> QED BY <1>4, <2>2
<1>8. q[x] = PlaceAfter[e.phase]
  BY <1>2, <1>7
<1>9. /\ e.phase = "BEGIN_REQ" => p[x] = "begin_req" /\ q[x] = "sent"
      /\ e.phase = "internal_ph" => p[x] = "internal" /\ q[x] = "served"
      /\ e.phase = "END_RESP" => p[x] = "end_resp" /\ q[x] = "answered"
  BY <1>5, <1>7, <1>8 DEF PlaceAfter, PlaceOf, Phases
<1> HIDE DEF q, x
<1>10. /\ r.trans[x].target = t /\ r.targ = targ /\ r.trans[x].status = s.trans[x].status
       /\ \A a, b : Way(s, x, a, b) => Way(r, x, a, b)
  BY <1>4, <1>5, <1>7, StillWay, SameFields DEF x
<1>11. /\ e.phase = "BEGIN_REQ" =>
            Way(r, x, "BEGIN_REQ", "BEGIN_REQ") /\ r.trans[x].status = "INCOMPLETE"
       /\ e.phase = "END_RESP" => Way(r, x, "idle", "idle")
       /\ e.phase = "internal_ph" =>
            /\ r.trans[x].status = "INCOMPLETE"
            /\ IF r.targ[t].type \in {"A", "B"}
               THEN Way(r, x, "END_REQ", "END_REQ") ELSE Way(r, x, "BEGIN_REQ", "BEGIN_REQ")
  <2>1. s.trans[x].target = t
    BY <1>5 DEF x
  <2>2. CASE e.phase = "BEGIN_REQ"
    BY <1>7, <1>9, <1>10, <2>2, TripAt
  <2>3. CASE e.phase = "END_RESP"
    BY <1>7, <1>9, <1>10, <2>3, TripAt
  <2>4. CASE e.phase = "internal_ph"
    BY <1>4, <1>7, <1>9, <1>10, <2>1, <2>4, TripAt
  <2> QED BY <1>5, <2>2, <2>3, <2>4
<1>w. Whole(r, q, Null, {}, x)
  BY <1>7 DEF M
<1>12. CASE targ[t].type \in {"A", "B"}
  <2>1. Become(PeqA(r, t, x, e.phase))
    BY <1>1, <1>12 DEF PeqB, x, r
  <2>2. r.targ[t].type \in {"A", "B"}
    BY <1>10, <1>12
  <2>3. Settled(PeqA(r, t, x, e.phase), Null, {})
    <3>1. CASE e.phase = "BEGIN_REQ"
      BY <1>7, <1>9, <1>10, <1>11, <1>w, <2>2, <3>1, PeqBeginReqAWhole DEF PeqA
    <3>2. CASE e.phase = "END_RESP"
      BY <1>7, <1>9, <1>10, <1>11, <1>w, <2>2, <3>2, PeqEndRespAWhole DEF PeqA
    <3>3. CASE e.phase = "internal_ph"
      <4>1. r.targ[t].type \in {"A", "B", "C"}
        BY <2>2
      <4>2. Settled(PeqInternal(r, t, x), Null, {})
        BY <1>7, <1>9, <1>10, <1>11, <1>w, <3>3, <4>1, PeqInternalWhole
      <4> QED BY <3>3, <4>2 DEF PeqA
    <3> QED BY <1>5, <3>1, <3>2, <3>3
  <2> QED BY <2>1, <2>3, BecomeWhole
<1>13. CASE targ[t].type = "C"
  <2>1. Become(PeqC(r, t, x, e.phase))
    BY <1>1, <1>13 DEF x, r
  <2>2. r.targ[t].type = "C"
    BY <1>10, <1>13
  <2>3. Settled(PeqC(r, t, x, e.phase), Null, {})
    <3>1. CASE e.phase = "BEGIN_REQ"
      BY <1>7, <1>9, <1>10, <1>11, <1>w, <2>2, <3>1, PeqBeginReqCWhole DEF PeqC
    <3>2. CASE e.phase = "END_RESP"
      BY <1>7, <1>9, <1>10, <1>11, <1>w, <2>2, <3>2, PeqEndRespCWhole DEF PeqC
    <3>3. CASE e.phase = "internal_ph"
      <4>1. r.targ[t].type \in {"A", "B", "C"}
        BY <2>2
      <4>2. Settled(PeqInternal(r, t, x), Null, {})
        BY <1>7, <1>9, <1>10, <1>11, <1>w, <3>3, <4>1, PeqInternalWhole
      <4> QED BY <3>3, <4>2 DEF PeqC
    <3> QED BY <1>5, <3>1, <3>2, <3>3
  <2> QED BY <2>1, <2>3, BecomeWhole
<1> QED BY <1>4, <1>5, <1>12, <1>13

(* A target of type D sends the response that waited for the end of        *)
(* another: none is in progress.                                           *)
LEMMA SendRspHops ==
  ASSUME HopsInv, NEW t \in Targets, SendRsp(t)
  PROVE  HopsInv'
<1>1. PICK p \in [Trans -> Places] : Whole(State(Kernel), p, Null, {}, Null)
  BY DEF HopsInv
<1> DEFINE w == <<"send_rsp", t>>
           k == State(Kernel)
           s == State(w)
           x == targ[t].next
           a == [s EXCEPT !.targ[t].next = Null]
           b == Responder(a, t)
           q == [p EXCEPT ![x] = "served"]
           r == CallFromTarget(b, t, x, "BEGIN_RESP")
           d == GivenBack(r.s, t, x)
           f == IF r.ret = "COMPLETED" THEN d ELSE r.s
           M == {}
<1>2. Become(f)
  <2>1. [s EXCEPT !.targ[t].next = Null, !.targ[t].response_in_progress = TRUE] = b
    BY DEF Responder
  <2> DEFINE c == CallFromTarget([s EXCEPT !.targ[t].next = Null,
                                           !.targ[t].response_in_progress = TRUE],
                                 t, x, "BEGIN_RESP")
             g == [Release(c.s, x) EXCEPT !.targ[t].response_in_progress = FALSE]
  <2>2. Become(IF c.ret = "COMPLETED" THEN g ELSE c.s)
    BY Zenon DEF SendRsp
  <2>3. c = r
    BY <2>1
  <2>4. g = d
    BY <2>3 DEF GivenBack
  <2> HIDE DEF c, g, r, d
  <2> QED BY <2>2, <2>3, <2>4
<1>3. /\ w \in k.runnable /\ w \notin s.runnable /\ s.targ = targ /\ k.targ = targ
  BY DEF SendRsp, State, Kernel
<1>4. Whole(s, p, Null, M, Null)
  BY <1>1, SelfWhole
<1>5. /\ targ[t].type = "D" /\ x # Null /\ ~targ[t].response_in_progress
  <2>1. Awake(k) /\ Responses(k, p)
    BY <1>1, WholeParts, SoundParts
  <2> HIDE DEF k
  <2>2. k.targ[t].type = "D" /\ k.targ[t].next # Null
    BY <1>3, <2>1 DEF Awake
  <2>3. ~k.targ[t].response_in_progress
    BY <1>3, <2>1 DEF Responses
  <2> QED BY <1>3, <2>2, <2>3
<1> HIDE DEF s, k
<1>6. /\ x \in Trans /\ s.trans[x].target = t /\ p[x] = "next" /\ Trip(s, p, x)
      /\ Whole(s, q, Null, {<<"next", t>>}, x)
  <2>1. s.targ[t].next # Null /\ <<"next", t>> \notin M
    BY <1>3, <1>5 DEF M
  <2> DEFINE y == s.targ[t].next
  <2> HIDE DEF M
  <2>2. /\ y \in Trans /\ s.trans[y].target = t /\ p[y] = "next" /\ Trip(s, p, y)
        /\ Whole(s, [p EXCEPT ![y] = "served"], Null, M \cup {<<"next", t>>}, y)
    BY <1>4, <2>1, TakeNextWhole
  <2>3. y = x
    BY <1>3
  <2>4. M \cup {<<"next", t>>} = {<<"next", t>>}
    BY DEF M
  <2> HIDE DEF x, y
  <2> QED BY <2>2, <2>3, <2>4
<1>7. q[x] = "served"
  BY <1>1, <1>6
<1> HIDE DEF q, x, M
<1>8. /\ Whole(a, q, Null, M, x) /\ Same(a, s, {"targ"}) /\ SameTypes(a, s) /\ Still(a, s, x)
      /\ a.trans = s.trans /\ a.targ[t].response_in_progress = s.targ[t].response_in_progress
  <2> DEFINE N == {<<"next", t>>}
  <2>1. N \ {<<"next", t>>} = M
    BY DEF M
  <2>2. Whole(s, q, Null, N, x)
    BY <1>6
  <2> HIDE DEF N
  <2>3. /\ Whole(a, q, Null, N \ {<<"next", t>>}, x) /\ Same(a, s, {"targ"})
        /\ Becomes(a, s, t, s.targ[t].n_trans, s.targ[t].response_in_progress, Null,
                   s.targ[t].stalled)
        /\ SameTypes(a, s) /\ Still(a, s, x) /\ a.trans = s.trans
    BY <1>3, <2>2, ClearNextWhole
  <2> HIDE DEF a
  <2>4. a.targ[t].response_in_progress = s.targ[t].response_in_progress
    BY <2>3, BecomesQuiet DEF SameResponding
  <2> QED BY <2>1, <2>3, <2>4
<1> HIDE DEF a
<1>9. /\ Way(a, x, "BEGIN_REQ", "BEGIN_REQ") /\ a.trans[x].status # "INCOMPLETE"
      /\ a.trans[x].target = t /\ a.targ[t].type = "D" /\ ~a.targ[t].response_in_progress
      /\ w \notin a.runnable
  <2>1. /\ Way(s, x, "BEGIN_REQ", "BEGIN_REQ") /\ s.trans[x].status # "INCOMPLETE"
    BY <1>3, <1>5, <1>6, TripAt
  <2>2. a.runnable = s.runnable /\ a.targ[t].type = s.targ[t].type
    BY <1>8, SameFields DEF SameTypes
  <2> QED BY <1>3, <1>5, <1>6, <1>8, <2>1, <2>2, StillWay
<1>10. Replied(r, b, x, "idle", Null, M)
  BY <1>6, <1>7, <1>8, <1>9, BeginRespHop
<1>11. b.trans = a.trans /\ b.targ[t].type = "D"
  <2>1. Becomes(b, a, t, a.targ[t].n_trans, TRUE, a.targ[t].next, a.targ[t].stalled)
    BY <1>8, SetResponding, WholeParts DEF Typed, Responder
  <2> HIDE DEF b
  <2>2. SameTypes(b, a) /\ b.trans = a.trans
    BY <2>1, BecomesKeeps
  <2> QED BY <1>9, <2>2 DEF SameTypes
<1> HIDE DEF r, b
<1>12. Settled(f, Null, M)
  <2>1. CASE r.ret = "COMPLETED"
    <3>1. PICK g \in [Trans -> Places] : /\ Whole(r.s, g, Null, M, x) /\ g[x] = "answered"
                                         /\ Way(r.s, x, "idle", "idle")
      BY <1>10, <2>1 DEF Replied, Held, InPlace
    <3>2. r.s.targ[t].type = "D" /\ r.s.trans[x].target = t
      BY <1>6, <1>9, <1>10, <1>11, BacksKeep DEF Replied, SameRoute
    <3>3. Whole(d, [g EXCEPT ![x] = "none"], Null, M, Null)
      BY <1>6, <3>1, <3>2, GiveBackWhole
    <3> HIDE DEF d
    <3> QED BY <2>1, <3>3, IsSettled
  <2>2. CASE r.ret # "COMPLETED"
    BY <1>10, <2>2 DEF Replied
  <2> QED BY <2>1, <2>2
<1> HIDE DEF f
<1> QED BY <1>2, <1>12, BecomeWhole DEF M

-----------------------------------------------------------------------------
(* The initiators.  A response waits for the end of another.               *)
LEMMA QueuedSettled ==
  ASSUME NEW s, NEW p, NEW h, NEW L, NEW x \in Trans, Whole(s, p, h, L, x), p[x] = "served",
         NEW i \in Inits, s.trans[x].init = i, s.rsp[i] # Null,
         NEW a \in {"BEGIN_REQ", "END_REQ"}, NEW b, Way(s, x, a, b),
         IF s.trans[x].dont_propagate_fw THEN b = "idle" ELSE b = "BEGIN_RESP",
         s.trans[x].status # "INCOMPLETE"
  PROVE  LET r == QueueRsp(s, i, x)
         IN Settled(r, h, L) /\ IsState(r) /\ r.init = s.init /\ r.trans[x].init = i
<1> DEFINE u == QueueRsp(s, i, x)
           q == [p EXCEPT ![x] = "rsp_queue"]
<1>1. Whole(u, q, h, L, x) /\ Still(u, s, x) /\ Stays(u, s, {"trans", "rsp_queue"})
  BY QueueRspWhole
<1>2. q[x] = "rsp_queue"
  BY WholeParts
<1> HIDE DEF u, q
<1>3. Way(u, x, a, b) /\ u.trans[x].status # "INCOMPLETE" /\ u.trans[x].init = i
  BY <1>1, StillWay
<1>4. u.trans[x].dont_propagate_fw = s.trans[x].dont_propagate_fw /\ u.init = s.init
  BY <1>1, StaysRoute DEF SameRoute, Core
<1>5. Fits(u, q, x, a, b)
  BY <1>2, <1>3, <1>4 DEF Fits, Stands
<1>6. Settled(u, h, L) /\ IsState(u)
  BY <1>1, <1>3, <1>5, SettledAt, WholeParts
<1> QED BY <1>3, <1>4, <1>6 DEF u

(* What the interconnect answers to a request of initiator i: the response *)
(* has begun on the hop of the target, but not yet on its own.             *)
Forwarded(r, i, x, h, L) ==
  /\ IsResult(r)
  /\ \/ r.ret = "ACCEPTED" /\ Settled(r.s, h, L)
     \/ /\ r.ret = "UPDATED" /\ r.phase = "END_REQ"
        /\ r.s.targ[r.s.trans[x].target].type = "B" /\ r.s.trans[x].init = i
        /\ Held(r.s, x, "internal", h, L, "BEGIN_REQ", "END_REQ", FALSE)
     \/ /\ r.ret = "UPDATED" /\ r.phase = "BEGIN_RESP" /\ r.s.trans[x].init = i
        /\ r.s.rsp[i] = x /\ <<"end_rsp", i>> \notin r.s.runnable
        /\ ~r.s.trans[x].dont_propagate_fw
        /\ Held(r.s, x, "served", h, L, "BEGIN_REQ", "BEGIN_RESP", TRUE)
     \/ /\ r.ret = "COMPLETED" /\ r.phase = "BEGIN_REQ" /\ r.s.trans[x].init = i
        /\ r.s.trans[x].dont_propagate_fw
        /\ Held(r.s, x, "served", h, L, "BEGIN_REQ", "idle", TRUE)

AfterRequest(r, i, t, x) == AfterTarget(r, i, t, x, TRUE)

LEMMA AfterEndReqHop ==
  ASSUME NEW s, NEW q, NEW h, NEW L, NEW x \in Trans, NEW i \in Inits, NEW t \in Targets,
         Whole(s, q, h, L, x), q[x] = "internal", Way(s, x, "BEGIN_REQ", "END_REQ"),
         s.trans[x].status = "INCOMPLETE", q \in [Trans -> Places],
         s.trans[x].init = i, s.trans[x].target = t, s.req[t] = x, s.targ[t].type = "B"
  PROVE  LET r == AfterRequest(Updated(s, "END_REQ"), i, t, x)
         IN Forwarded(r, i, x, h, L) /\ r.s.init = s.init
<1> DEFINE v == "END_REQ"
           e == Ending(s, t)
           g == Updated(e, v)
<1>0. AfterRequest(Updated(s, v), i, t, x) = g
  BY DEF AfterRequest, AfterTarget, Ending, Updated, Result
<1>2. On(s, t, x) # "BEGIN_REQ"
  BY WayOn
<1>3. /\ Whole(e, q, h, L, x) /\ Still(e, s, x) /\ Stays(e, s, {"runnable"})
      /\ e.trans = s.trans
  BY <1>2, EndingWhole
<1> HIDE DEF e
<1>4. InPlace(e, q, x, "internal", h, L, "BEGIN_REQ", v, FALSE)
  BY <1>3, StillWay DEF InPlace, Answered1
<1>5. Held(e, x, "internal", h, L, "BEGIN_REQ", v, FALSE) /\ IsState(e)
  BY <1>3, <1>4, IsHeld, WholeParts
<1>6. e.targ[t].type = "B" /\ e.init = s.init
  BY <1>3, StaysRoute DEF Core
<1>7. Forwarded(g, i, x, h, L) /\ g.s = e
  BY <1>3, <1>5, <1>6 DEF Forwarded, Updated, Result, IsResult
<1> HIDE DEF g
<1> QED BY <1>0, <1>6, <1>7

LEMMA AfterBeginRespHop ==
  ASSUME NEW s, NEW q, NEW h, NEW L, NEW x \in Trans, NEW i \in Inits, NEW t \in Targets,
         Whole(s, q, h, L, x), q[x] = "served", Way(s, x, "BEGIN_REQ", "BEGIN_RESP"),
         s.trans[x].status # "INCOMPLETE",
         q \in [Trans -> Places], s.trans[x].init = i, s.trans[x].target = t, s.req[t] = x,
         ~s.trans[x].dont_propagate_fw
  PROVE  LET r == AfterRequest(Updated(s, "BEGIN_RESP"), i, t, x)
         IN Forwarded(r, i, x, h, L) /\ r.s.init = s.init
<1> DEFINE v == "BEGIN_RESP"
           e == Ending(s, t)
           u == QueueRsp(e, i, x)
           w == [e EXCEPT !.rsp[i] = x]
           a == AfterRequest(Updated(s, v), i, t, x)
<1>0. a = IF s.rsp[i] # Null THEN Accepted(u, v) ELSE Updated(w, v)
  BY DEF AfterRequest, AfterTarget, Ending, Updated, Result
<1>1. Whole(s, q, h, L, x) /\ q[x] = "served" /\ Way(s, x, "BEGIN_REQ", v)
  OBVIOUS
<1>2. On(s, t, x) # "BEGIN_REQ"
  BY <1>1, WayOn
<1>3. /\ Whole(e, q, h, L, x) /\ Still(e, s, x) /\ Stays(e, s, {"runnable"})
      /\ e.trans = s.trans
  BY <1>1, <1>2, EndingWhole
<1> HIDE DEF e, a
<1>4. Way(e, x, "BEGIN_REQ", v) /\ e.init = s.init /\ e.rsp = s.rsp
  BY <1>1, <1>3, StillWay, StaysRoute DEF Core
<1>5. e.trans[x].status # "INCOMPLETE"
  BY <1>3
<1>6. CASE s.rsp[i] # Null
  <2>1. Settled(u, h, L) /\ IsState(u) /\ u.init = e.init
    BY <1>1, <1>3, <1>4, <1>5, <1>6, QueuedSettled
  <2> HIDE DEF u
  <2>2. Forwarded(Accepted(u, v), i, x, h, L) /\ Accepted(u, v).s = u
    BY <2>1 DEF Forwarded, Accepted, Result, IsResult
  <2>3. Forwarded(a, i, x, h, L) /\ a.s.init = s.init
    BY <1>0, <1>4, <1>6, <2>1, <2>2
  <2> QED BY <2>3 DEF a
<1>7. CASE s.rsp[i] = Null
  <2>1. /\ Whole(w, q, h, L, x) /\ Still(w, e, x) /\ Stays(w, e, {"rsp"}) /\ w.rsp[i] = x
        /\ w.trans = e.trans /\ <<"end_rsp", i>> \notin w.runnable
    BY <1>3, <1>4, <1>7, BusyWhole
  <2> HIDE DEF w
  <2>2. Way(w, x, "BEGIN_REQ", v) /\ w.init = e.init /\ IsState(w)
    BY <1>4, <2>1, StillWay, StaysRoute, WholeParts DEF Core
  <2>3. InPlace(w, q, x, "served", h, L, "BEGIN_REQ", v, TRUE)
    BY <1>1, <1>3, <1>5, <2>1, <2>2 DEF InPlace, Answered1
  <2>4. Held(w, x, "served", h, L, "BEGIN_REQ", v, TRUE)
    BY <2>3, IsHeld
  <2>5. Forwarded(Updated(w, v), i, x, h, L) /\ Updated(w, v).s = w
    BY <1>3, <2>1, <2>2, <2>4 DEF Forwarded, Updated, Result, IsResult
  <2>6. Forwarded(a, i, x, h, L) /\ a.s.init = s.init
    BY <1>0, <1>4, <1>7, <2>2, <2>5
  <2> QED BY <2>6 DEF a
<1> QED BY <1>6, <1>7

LEMMA AfterCompletedHop ==
  ASSUME NEW s, NEW q, NEW h, NEW L, NEW x \in Trans, NEW i \in Inits, NEW t \in Targets,
         Whole(s, q, h, L, x), q[x] = "sent", Way(s, x, "BEGIN_REQ", "idle"),
         s.trans[x].status # "INCOMPLETE",
         q \in [Trans -> Places], s.trans[x].init = i, s.trans[x].target = t, s.req[t] = x,
         s.targ[t].type = "E"
  PROVE  LET r == AfterRequest(Completed(s, "BEGIN_REQ"), i, t, x)
         IN Forwarded(r, i, x, h, L) /\ r.s.init = s.init
<1> DEFINE v == "BEGIN_REQ"
           e == Notify(s, <<"end_req", t>>)
           d == [e EXCEPT !.trans[x].dont_propagate_fw = TRUE]
           u == QueueRsp(d, i, x)
           m == [q EXCEPT ![x] = "served"]
           a == AfterRequest(Completed(s, v), i, t, x)
<1>0. a = IF s.rsp[i] # Null THEN Accepted(u, v) ELSE Completed(d, v)
  BY DEF AfterRequest, AfterTarget, Completed, Result
<1>1. Whole(s, q, h, L, x) /\ q[x] = "sent" /\ Way(s, x, v, "idle") /\ Answered1(s, x)
  BY DEF Answered1
<1>2. On(s, t, x) # "BEGIN_REQ" /\ s.req[t] # Null
  BY <1>1, WayOn, Apart
<1>3. NoneBegun(s, t)
  BY <1>1, <1>2, NoneBegunNow
<1>4. Whole(e, q, h, L, x) /\ Still(e, s, x) /\ Same(e, s, {"runnable"}) /\ e.trans = s.trans
  BY <1>1, <1>2, <1>3, NotifyReqWhole
<1> HIDE DEF e, a
<1>5. /\ Way(e, x, v, "idle") /\ Answered1(e, x) /\ e.targ = s.targ /\ e.init = s.init
      /\ e.rsp = s.rsp
  BY <1>1, <1>4, StillWay, SameFields
<1>6. /\ Whole(d, m, h, L, x) /\ Same(d, e, {"trans"}) /\ Still(d, e, x)
      /\ d.trans[x].dont_propagate_fw
  <2>1. e.targ[e.trans[x].target].type = "E"
    BY <1>4, <1>5
  <2> QED BY <1>1, <1>4, <2>1, MarkWhole
<1>7. m[x] = "served"
  BY <1>1, WholeParts
<1> HIDE DEF d, m
<1>8. /\ Way(d, x, v, "idle") /\ Answered1(d, x) /\ d.trans[x].init = i
      /\ d.init = s.init /\ d.rsp = s.rsp /\ IsState(d)
  BY <1>4, <1>5, <1>6, StillWay, SameFields, WholeParts
<1>9. CASE s.rsp[i] # Null
  <2>1. Settled(u, h, L) /\ IsState(u) /\ u.init = d.init
    BY <1>6, <1>7, <1>8, <1>9, QueuedSettled DEF Answered1
  <2> HIDE DEF u
  <2>2. Forwarded(Accepted(u, v), i, x, h, L) /\ Accepted(u, v).s = u
    BY <2>1 DEF Forwarded, Accepted, Result, IsResult
  <2>3. Forwarded(a, i, x, h, L) /\ a.s.init = s.init
    BY <1>0, <1>8, <1>9, <2>1, <2>2
  <2> QED BY <2>3 DEF a
<1>10. CASE s.rsp[i] = Null
  <2>1. InPlace(d, m, x, "served", h, L, v, "idle", TRUE)
    BY <1>6, <1>7, <1>8 DEF InPlace
  <2>2. Held(d, x, "served", h, L, v, "idle", TRUE)
    BY <2>1, IsHeld
  <2>3. Forwarded(Completed(d, v), i, x, h, L) /\ Completed(d, v).s = d
    BY <1>6, <1>8, <2>2 DEF Forwarded, Completed, Result, IsResult
  <2>4. Forwarded(a, i, x, h, L) /\ a.s.init = s.init
    BY <1>0, <1>8, <1>10, <2>3
  <2> QED BY <2>4 DEF a
<1> QED BY <1>9, <1>10

(* A request has begun on the hop of its initiator.                        *)
LEMMA BeginReqHop ==
  ASSUME NEW s, NEW p, NEW h, NEW L, NEW x \in Trans, Whole(s, p, h, L, x), NEW i \in Inits,
         p[x] = "new", s.init[i].req = x, Started(s, x, i), s.trans[x].status = "INCOMPLETE",
         \A g \in Targets : <<"next", g>> \notin L
  PROVE  LET r == BeginReq(s, i, x) IN Forwarded(r, i, x, h, L) /\ r.s.init = s.init
<1> DEFINE v == "BEGIN_REQ"
           t == s.trans[x].adr
           e == Route(s, x, i, t)
           u == [Acquire(e, x) EXCEPT !.req_queue[t] = Append(@, x)]
           b == [e EXCEPT !.req[t] = x]
           r == CallTarget(b, t, x, v)
           a == AfterRequest(r, i, t, x)
           k == [p EXCEPT ![x] = "sent"]
           o == BeginReq(s, i, x)
<1>0. o = IF s.req[t] # Null THEN Accepted(u, v) ELSE a
  BY Zenon DEF BeginReq, Route, AfterRequest
<1> HIDE DEF o
<1>1. t \in Targets /\ x # Null /\ x \in Pointer
  <2>1. Sound(s, p, h, L)
    BY WholeParts
  <2> QED BY <2>1, TransField, Apart DEF Pointer
<1> HIDE DEF t
<1>2. AskedBy(s, x, i)
  <2>1. Initiating(s, p)
    BY WholeParts, SoundParts
  <2> QED BY <1>1, <2>1 DEF Initiating, AskedBy
<1>3. /\ Whole(e, k, h, L, x) /\ Same(e, s, {"trans"}) /\ OnRoute(e, x, i, t)
      /\ Way(e, x, "BEGIN_REQ", "idle") /\ e.trans[x].status = s.trans[x].status
  BY <1>1, <1>2, RouteWhole
<1>4. e.trans[x].dont_propagate_fw = FALSE
  BY <1>1, WholeParts, RouteRewrites
<1>5. k[x] = "sent"
  BY WholeParts
<1> HIDE DEF e, k
<1>6. /\ e.trans[x].init = i /\ e.trans[x].target = t /\ e.init = s.init /\ e.req = s.req
      /\ ~e.trans[x].dont_propagate_fw
  BY <1>3, <1>4, SameFields DEF OnRoute
<1>7. CASE s.req[t] # Null
  <2> DEFINE q == [k EXCEPT ![x] = "req_queue"]
  <2>1. Whole(u, q, h, L, x) /\ Still(u, e, x) /\ Stays(u, e, {"trans", "req_queue"})
    BY ZenonT(40), <1>1, <1>3, <1>5, <1>6, <1>7, QueueReqWhole
  <2>2. q[x] = "req_queue"
    BY <1>3, WholeParts
  <2> HIDE DEF u, q
  <2>3. Way(u, x, v, "idle") /\ u.trans[x].status = "INCOMPLETE" /\ u.init = s.init
    BY <1>3, <1>6, <2>1, StillWay, StaysRoute DEF Core
  <2>4. Fits(u, q, x, v, "idle")
    BY <2>2, <2>3 DEF Fits, Stands
  <2>5. Settled(u, h, L) /\ IsState(u)
    BY <2>1, <2>3, <2>4, SettledAt, WholeParts
  <2>6. Forwarded(Accepted(u, v), i, x, h, L) /\ Accepted(u, v).s = u
    BY <2>5 DEF Forwarded, Accepted, Result, IsResult
  <2> HIDE DEF v
  <2>7. Forwarded(o, i, x, h, L) /\ o.s.init = s.init
    BY <1>0, <1>7, <2>3, <2>6
  <2> QED BY <2>7 DEF o
<1>8. CASE s.req[t] = Null
  <2>1. NoneBegun(e, t) /\ <<"end_req", t>> \notin e.runnable
    <3>1. Requested(e)
      BY <1>3, WholeParts
    <3> QED BY <1>1, <1>6, <1>8, <3>1, Apart DEF Requested, NoneBegun
  <2>2. /\ Whole(b, k, h, L, x) /\ Still(b, e, x) /\ Same(b, e, {"req"}) /\ b.req[t] = x
        /\ b.trans = e.trans
    BY <1>1, <1>3, <2>1, SetReqWhole
  <2> HIDE DEF b
  <2>3. /\ Way(b, x, v, "idle") /\ b.trans[x].status = "INCOMPLETE" /\ b.init = s.init
        /\ b.runnable = e.runnable /\ b.trans[x].init = i /\ b.trans[x].target = t
        /\ ~b.trans[x].dont_propagate_fw
    BY <1>3, <1>6, <2>2, StillWay, SameFields
  <2>4. Progress(r, b, x, h, L)
    BY <1>1, <1>5, <2>1, <2>2, <2>3, CallBeginHop
  <2> HIDE DEF r
  <2>5. IsResult(r) /\ Stays(r.s, b, {"trans", "targ", "peq"})
    BY <2>4 DEF Progress
  <2>6. /\ SameRoute(r.s.trans[x], b.trans[x]) /\ r.s.targ[t].type = b.targ[t].type
        /\ r.s.init = b.init /\ r.s.req = b.req
    BY <1>1, <2>5, StaysRoute DEF Core
  <2>7. /\ r.s.trans[x].init = i /\ r.s.trans[x].target = t /\ r.s.init = s.init
        /\ ~r.s.trans[x].dont_propagate_fw /\ r.s.req[t] = x
    BY <2>2, <2>3, <2>6 DEF SameRoute
  <2>8. o = a
    BY <1>0, <1>8
  <2>9. CASE r.ret = "ACCEPTED"
    <3>1. a = r
      BY <2>9 DEF AfterTarget, AfterRequest
    <3>2. Settled(r.s, h, L)
      BY <2>4, <2>9 DEF Progress
    <3> HIDE DEF a
    <3>3. Forwarded(o, i, x, h, L) /\ o.s.init = s.init
      BY <2>5, <2>7, <2>8, <2>9, <3>1, <3>2 DEF Forwarded
    <3> QED BY <3>3 DEF o
  <2>10. CASE r.ret = "UPDATED" /\ r.phase = "END_REQ"
    <3>1. /\ b.targ[t].type = "B"
          /\ Held(r.s, x, "internal", h, L, "BEGIN_REQ", "END_REQ", FALSE)
      BY <2>3, <2>4, <2>10 DEF Progress
    <3>2. PICK q \in [Trans -> Places] :
            InPlace(r.s, q, x, "internal", h, L, "BEGIN_REQ", "END_REQ", FALSE)
      BY <3>1 DEF Held
    <3> DEFINE g == r.s
               c == AfterRequest(Updated(g, "END_REQ"), i, t, x)
    <3>3. a = c
      BY <2>5, <2>10, Results
    <3>4. /\ Whole(g, q, h, L, x) /\ q[x] = "internal" /\ Way(g, x, "BEGIN_REQ", "END_REQ")
          /\ g.trans[x].status = "INCOMPLETE"
          /\ g.trans[x].init = i /\ g.trans[x].target = t /\ g.req[t] = x
          /\ ~g.trans[x].dont_propagate_fw /\ g.targ[t].type = b.targ[t].type
          /\ g.init = s.init
      BY <2>6, <2>7, <3>2 DEF InPlace, Answered1
    <3> HIDE DEF a, g
    <3>5. Forwarded(c, i, x, h, L) /\ c.s.init = g.init
      BY <1>1, <3>1, <3>2, <3>4, AfterEndReqHop
    <3> HIDE DEF c
    <3>6. Forwarded(o, i, x, h, L) /\ o.s.init = s.init
      BY <2>7, <2>8, <3>3, <3>4, <3>5
    <3> QED BY <3>6 DEF o
  <2>11. CASE r.ret = "UPDATED" /\ r.phase = "BEGIN_RESP"
    <3>1. Held(r.s, x, "served", h, L, "BEGIN_REQ", "BEGIN_RESP", TRUE)
      BY <2>4, <2>11 DEF Progress
    <3>2. PICK q \in [Trans -> Places] :
            InPlace(r.s, q, x, "served", h, L, "BEGIN_REQ", "BEGIN_RESP", TRUE)
      BY <3>1 DEF Held
    <3> DEFINE g == r.s
               c == AfterRequest(Updated(g, "BEGIN_RESP"), i, t, x)
    <3>3. a = c
      BY <2>5, <2>11, Results
    <3>4. /\ Whole(g, q, h, L, x) /\ q[x] = "served" /\ Way(g, x, "BEGIN_REQ", "BEGIN_RESP")
          /\ g.trans[x].status # "INCOMPLETE"
          /\ g.trans[x].init = i /\ g.trans[x].target = t /\ g.req[t] = x
          /\ ~g.trans[x].dont_propagate_fw /\ g.targ[t].type = b.targ[t].type
          /\ g.init = s.init
      BY <2>6, <2>7, <3>2 DEF InPlace, Answered1
    <3> HIDE DEF a, g
    <3>5. Forwarded(c, i, x, h, L) /\ c.s.init = g.init
      BY <1>1, <3>2, <3>4, AfterBeginRespHop
    <3> HIDE DEF c
    <3>6. Forwarded(o, i, x, h, L) /\ o.s.init = s.init
      BY <2>7, <2>8, <3>3, <3>4, <3>5
    <3> QED BY <3>6 DEF o
  <2>12. CASE r.ret = "COMPLETED"
    <3>1. /\ b.targ[t].type = "E" /\ r.phase = v
          /\ Held(r.s, x, "sent", h, L, "BEGIN_REQ", "idle", TRUE)
      BY <2>3, <2>4, <2>12 DEF Progress
    <3>2. PICK q \in [Trans -> Places] :
            InPlace(r.s, q, x, "sent", h, L, "BEGIN_REQ", "idle", TRUE)
      BY <3>1 DEF Held
    <3> DEFINE g == r.s
               c == AfterRequest(Completed(g, "BEGIN_REQ"), i, t, x)
    <3>3. a = c
      BY <2>5, <2>12, <3>1, Results
    <3>4. /\ Whole(g, q, h, L, x) /\ q[x] = "sent" /\ Way(g, x, "BEGIN_REQ", "idle")
          /\ g.trans[x].status # "INCOMPLETE"
          /\ g.trans[x].init = i /\ g.trans[x].target = t /\ g.req[t] = x
          /\ ~g.trans[x].dont_propagate_fw /\ g.targ[t].type = b.targ[t].type
          /\ g.init = s.init
      BY <2>6, <2>7, <3>2 DEF InPlace, Answered1
    <3> HIDE DEF a, g
    <3>5. Forwarded(c, i, x, h, L) /\ c.s.init = g.init
      BY <1>1, <3>1, <3>2, <3>4, AfterCompletedHop
    <3> HIDE DEF c
    <3>6. Forwarded(o, i, x, h, L) /\ o.s.init = s.init
      BY <2>7, <2>8, <3>3, <3>4, <3>5
    <3> QED BY <3>6 DEF o
  <2> QED BY <2>4, <2>9, <2>10, <2>11, <2>12 DEF Progress
<1> QED BY <1>7, <1>8

(* The same on the hop of the initiator, which knows now.                  *)
Told(r, i, x, h, L) ==
  /\ IsResult(r)
  /\ \/ r.ret = "ACCEPTED" /\ Settled(r.s, h, L)
     \/ /\ r.ret = "UPDATED" /\ r.phase = "END_REQ"
        /\ r.s.targ[r.s.trans[x].target].type = "B" /\ r.s.trans[x].init = i
        /\ Held(r.s, x, "internal", h, L, "END_REQ", "END_REQ", FALSE)
        /\ NoEndOf(r.s, i, x)
     \/ /\ r.ret = "UPDATED" /\ r.phase = "BEGIN_RESP" /\ r.s.trans[x].init = i
        /\ ~r.s.trans[x].dont_propagate_fw
        /\ Held(r.s, x, "served", h, L, "BEGIN_RESP", "BEGIN_RESP", TRUE)
     \/ /\ r.ret = "COMPLETED" /\ r.s.trans[x].init = i /\ r.s.trans[x].dont_propagate_fw
        /\ Held(r.s, x, "served", h, L, "idle", "idle", TRUE)

LEMMA ToldHop ==
  ASSUME NEW r, NEW h, NEW L, NEW x \in Trans, NEW i \in Inits, Forwarded(r, i, x, h, L)
  PROVE  LET g == FwPost(r, i, x) IN Told(g, i, x, h, L) /\ g.s.init = r.s.init
<1> DEFINE f == r.s
           g == FwPost(r, i, x)
<1>1. IsResult(r)
  BY DEF Forwarded
<1>2. CASE r.ret = "ACCEPTED"
  <2>1. g = r
    BY <1>2 DEF FwPost
  <2>2. Settled(r.s, h, L)
    BY <1>2 DEF Forwarded
  <2> HIDE DEF g
  <2>3. Told(g, i, x, h, L) /\ g.s.init = r.s.init
    BY <1>1, <1>2, <2>1, <2>2 DEF Told
  <2> QED BY <2>3 DEF g
<1>3. CASE r.ret = "UPDATED" /\ r.phase = "END_REQ"
  <2> DEFINE v == "END_REQ"
             c == ResponseChecks(f, i, x, v)
  <2>1. g = Updated(c, v)
    BY <1>1, <1>3, Results, Posting
  <2>2. /\ Held(f, x, "internal", h, L, "BEGIN_REQ", v, FALSE) /\ f.trans[x].init = i
        /\ f.targ[f.trans[x].target].type = "B"
    BY <1>3 DEF Forwarded
  <2>3. PICK q \in [Trans -> Places] : InPlace(f, q, x, "internal", h, L, "BEGIN_REQ", v, FALSE)
    BY <2>2 DEF Held
  <2> HIDE DEF f, g
  <2>4. Whole(f, q, h, L, x) /\ q[x] = "internal" /\ Way(f, x, "BEGIN_REQ", v) /\ ~Answered1(f, x)
    BY <2>3 DEF InPlace
  <2>5. Whole(c, q, h, L, x) /\ Way(c, x, v, v) /\ Marked(c, f)
    BY <2>2, <2>4, EndReqAtInit
  <2>6. NoEndOf(f, i, x)
    <3>1. On(f, i, x) = "BEGIN_REQ"
      BY <2>2, <2>4, WayOn
    <3> QED BY <2>4, <3>1, NoEndYet
  <2> HIDE DEF c
  <2>7. /\ c.trans = f.trans /\ IsState(c) /\ c.targ = f.targ /\ c.init = f.init
        /\ NoEndOf(c, i, x)
    BY <2>5, <2>6, MarkedStays DEF NoEndOf
  <2>8. InPlace(c, q, x, "internal", h, L, v, v, FALSE)
    BY <2>4, <2>5, <2>7 DEF InPlace, Answered1
  <2>9. Held(c, x, "internal", h, L, v, v, FALSE)
    BY <2>8, IsHeld
  <2>10. Told(Updated(c, v), i, x, h, L) /\ Updated(c, v).s = c
    BY <2>2, <2>7, <2>9 DEF Told, Updated, Result, IsResult
  <2>11. Told(g, i, x, h, L) /\ g.s.init = f.init
    BY <2>1, <2>7, <2>10
  <2> QED BY <2>11 DEF f, g
<1>4. CASE r.ret = "UPDATED" /\ r.phase = "BEGIN_RESP"
  <2> DEFINE v == "BEGIN_RESP"
             c == ResponseChecks(f, i, x, v)
  <2>1. g = Updated(c, v)
    BY <1>1, <1>4, Results, Posting
  <2>2. /\ Held(f, x, "served", h, L, "BEGIN_REQ", v, TRUE) /\ f.trans[x].init = i
        /\ f.rsp[i] = x /\ <<"end_rsp", i>> \notin f.runnable
        /\ ~f.trans[x].dont_propagate_fw
    BY <1>4 DEF Forwarded
  <2>3. PICK q \in [Trans -> Places] : InPlace(f, q, x, "served", h, L, "BEGIN_REQ", v, TRUE)
    BY <2>2 DEF Held
  <2> HIDE DEF f, g
  <2>4. Whole(f, q, h, L, x) /\ q[x] = "served" /\ Way(f, x, "BEGIN_REQ", v) /\ Answered1(f, x)
    BY <2>3 DEF InPlace
  <2>5. Whole(c, q, h, L, x) /\ Way(c, x, v, v) /\ Marked(c, f)
    BY <2>2, <2>4, RespAtInit
  <2> HIDE DEF c
  <2>7. c.trans = f.trans /\ IsState(c) /\ c.init = f.init
    BY <2>5, MarkedStays
  <2>8. InPlace(c, q, x, "served", h, L, v, v, TRUE)
    BY <2>4, <2>5, <2>7 DEF InPlace, Answered1
  <2>9. Held(c, x, "served", h, L, v, v, TRUE)
    BY <2>8, IsHeld
  <2>10. Told(Updated(c, v), i, x, h, L) /\ Updated(c, v).s = c
    BY <2>2, <2>7, <2>9 DEF Told, Updated, Result, IsResult
  <2>11. Told(g, i, x, h, L) /\ g.s.init = f.init
    BY <2>1, <2>7, <2>10
  <2> QED BY <2>11 DEF f, g
<1>5. CASE r.ret = "COMPLETED"
  <2> DEFINE v == "BEGIN_REQ"
             c == Forgotten(CheckResponsePath(f, i, x), i, x)
  <2>1. g = Completed(c, v)
    <3>1. r.phase = v
      BY <1>5 DEF Forwarded
    <3>2. r = Completed(f, v)
      BY <1>1, <1>5, <3>1, Results
    <3> QED BY <3>2, Posting
  <2>2. /\ Held(f, x, "served", h, L, v, "idle", TRUE) /\ f.trans[x].init = i
        /\ f.trans[x].dont_propagate_fw
    BY <1>5 DEF Forwarded
  <2>3. PICK q \in [Trans -> Places] : InPlace(f, q, x, "served", h, L, v, "idle", TRUE)
    BY <2>2 DEF Held
  <2> HIDE DEF f, g
  <2>4. Whole(f, q, h, L, x) /\ q[x] = "served" /\ Way(f, x, v, "idle") /\ Answered1(f, x)
    BY <2>3 DEF InPlace
  <2>5. Whole(c, q, h, L, x) /\ Way(c, x, "idle", "idle") /\ Marked(c, f)
    BY <2>2, <2>4, DoneAtInit
  <2> HIDE DEF c
  <2>7. c.trans = f.trans /\ IsState(c) /\ c.init = f.init
    BY <2>5, MarkedStays
  <2>8. InPlace(c, q, x, "served", h, L, "idle", "idle", TRUE)
    BY <2>4, <2>5, <2>7 DEF InPlace, Answered1
  <2>9. Held(c, x, "served", h, L, "idle", "idle", TRUE)
    BY <2>8, IsHeld
  <2>10. Told(Completed(c, v), i, x, h, L) /\ Completed(c, v).s = c
    BY <2>2, <2>7, <2>9 DEF Told, Completed, Result, IsResult
  <2>11. Told(g, i, x, h, L) /\ g.s.init = f.init
    BY <2>1, <2>7, <2>10
  <2> QED BY <2>11 DEF f, g
<1> QED BY <1>2, <1>3, <1>4, <1>5 DEF Forwarded

(* Through the checker.                                                    *)
LEMMA CallBeginReqHop ==
  ASSUME NEW s, NEW p, NEW h, NEW L, NEW x \in Trans, Whole(s, p, h, L, x), NEW i \in Inits,
         p[x] = "new", s.init[i].req = x, Unbegun(s, x), s.trans[x].status = "INCOMPLETE",
         s.trans[x].ref = 1, \A g \in Targets : <<"next", g>> \notin L
  PROVE  LET r == CallFromInitiator(s, i, x, "BEGIN_REQ")
         IN Told(r, i, x, h, L) /\ r.s.init = s.init
<1> DEFINE b == FwPre(s, i, x, "BEGIN_REQ")
           f == BeginReq(b, i, x)
           g == FwPost(f, i, x)
<1>0. CallFromInitiator(s, i, x, "BEGIN_REQ") = g
  BY DEF CallFromInitiator, InterconnectFw
<1>1. Whole(b, p, h, L, x) /\ Started(b, x, i) /\ Marked(b, s)
  BY BeginAtInit
<1> HIDE DEF b
<1>2. b.init = s.init /\ b.trans = s.trans
  BY <1>1, MarkedStays
<1>3. Forwarded(f, i, x, h, L) /\ f.s.init = b.init
  BY <1>1, <1>2, BeginReqHop
<1> HIDE DEF f
<1>4. Told(g, i, x, h, L) /\ g.s.init = f.s.init
  BY <1>3, ToldHop
<1> HIDE DEF g
<1> QED BY <1>0, <1>2, <1>3, <1>4

(* What an initiator does then.  The end of the request is on its way.     *)
LEMMA TakeEndReq ==
  ASSUME NEW s, NEW h, NEW L, NEW x \in Trans, NEW i \in Inits, s.trans[x].init = i,
         s.targ[s.trans[x].target].type = "B", s.init[i].req = x,
         NEW q, Whole(s, q, h, L, x), q[x] = "internal", Way(s, x, "END_REQ", "END_REQ"),
         s.trans[x].status = "INCOMPLETE", NoEndOf(s, i, x)
  PROVE  Settled(Post(s, i, x, "END_REQ"), h, L)
<1> DEFINE r == Post(s, i, x, "END_REQ")
<1>2. /\ Whole(s, q, h, L, x) /\ q[x] = "internal" /\ Way(s, x, "END_REQ", "END_REQ")
      /\ s.trans[x].status = "INCOMPLETE"
  OBVIOUS
<1>3. On(s, i, x) = "END_REQ"
  BY <1>2, WayOn
<1>4. /\ Whole(r, q, h, L, x) /\ Same(r, s, {"peq"}) /\ Still(r, s, x)
      /\ r.targ = s.targ /\ r.trans = s.trans
  BY <1>2, <1>3, PostEndReqWhole
<1> HIDE DEF r
<1>5. Way(r, x, "END_REQ", "END_REQ")
  BY <1>2, <1>4, StillWay
<1>6. Fits(r, q, x, "END_REQ", "END_REQ")
  BY <1>2, <1>4 DEF Fits, Stands
<1>7. Settled(r, h, L)
  BY <1>4, <1>5, <1>6, SettledAt
<1> QED BY <1>7 DEF r

(* So is the response.                                                     *)
LEMMA TakeResponse ==
  ASSUME NEW s, NEW h, NEW L, NEW x \in Trans, NEW i \in Inits, s.trans[x].init = i,
         ~s.trans[x].dont_propagate_fw,
         NEW q, Whole(s, q, h, L, x), q[x] = "served", Way(s, x, "BEGIN_RESP", "BEGIN_RESP"),
         s.trans[x].status # "INCOMPLETE"
  PROVE  Settled(Post(s, i, x, "BEGIN_RESP"), h, L)
<1> DEFINE v == "BEGIN_RESP"
           r == Post(s, i, x, v)
           k == [q EXCEPT ![x] = PlaceOf[v]]
<1>2. /\ Whole(s, q, h, L, x) /\ q[x] = "served" /\ Way(s, x, v, v)
      /\ s.trans[x].status # "INCOMPLETE"
  OBVIOUS
<1>3. MayPost(s, q, x, i, v) /\ (v = "internal_ph" => s.targ[i].type = "C")
  BY <1>2 DEF MayPost
<1>4. /\ Whole(r, k, h, L, x) /\ Same(r, s, {"peq"})
      /\ Still(r, s, x) /\ r.targ = s.targ /\ r.trans = s.trans
  <2> HIDE DEF v
  <2> QED BY <1>3, PostWhole
<1>5. k[x] = "begin_resp"
  BY <1>2, WholeParts DEF PlaceOf, Phases
<1> HIDE DEF r, k
<1>6. Way(r, x, v, v)
  BY <1>2, <1>4, StillWay
<1>7. Fits(r, k, x, v, v)
  BY <1>2, <1>4, <1>5 DEF Fits, Stands
<1>8. Settled(r, h, L)
  BY <1>4, <1>6, <1>7, SettledAt
<1> QED BY <1>8 DEF r

(* The answer is checked: there is one, and the transaction is referenced. *)
LEMMA IsAnswered ==
  ASSUME NEW s, NEW p, NEW h, NEW L, NEW x \in Trans, Whole(s, p, h, L, x), p[x] = "served",
         s.trans[x].status # "INCOMPLETE"
  PROVE  CheckTransaction(s, x) = s
<1>1. s.trans[x].ref > 0
  BY InUse, WholeParts DEF ByInitiator
<1> QED BY <1>1 DEF CheckTransaction, Require

(* The request is completed: the initiator is through with it.             *)
LEMMA TakeCompleted ==
  ASSUME NEW s, NEW h, NEW L, NEW x \in Trans, NEW i \in Inits, s.trans[x].init = i,
         s.trans[x].dont_propagate_fw, s.init[i].req = x,
         \A j \in Inits : s.init[j].req = x => j = i,
         NEW q, Whole(s, q, h, L, x), q[x] = "served", Way(s, x, "idle", "idle"),
         s.trans[x].status # "INCOMPLETE"
  PROVE  Settled(Release(CheckTransaction([s EXCEPT !.init[i].req = Null], x), x), h, L)
<1> DEFINE f == [s EXCEPT !.init[i].req = Null]
           d == Release(f, x)
           k == [q EXCEPT ![x] = "answered"]
<1>2. /\ Whole(s, q, h, L, x) /\ q[x] = "served" /\ Way(s, x, "idle", "idle")
      /\ s.trans[x].status # "INCOMPLETE"
  OBVIOUS
<1>3. NoneAsked(s, i)
  <2>1. On(s, i, x) = "idle"
    BY <1>2, WayOn
  <2>2. InTime(s, i, x)
    BY <1>2, <2>1, WholeParts, EndsInTime
  <2> QED BY <1>2, <2>1, <2>2, NoneIsAsked
<1>4. /\ Whole(f, q, h, L, x) /\ Still(f, s, x) /\ Same(f, s, {"init"}) /\ f.trans = s.trans
      /\ f.init[i].req = Null /\ \A j \in Inits : j # i => f.init[j] = s.init[j]
  BY <1>2, <1>3, ForgetWhole
<1> HIDE DEF f
<1>5. CheckTransaction(f, x) = f
  BY <1>2, <1>4, IsAnswered
<1>6. \A j \in Inits : f.init[j].req # x
  BY <1>4, Apart
<1>7. Responded(f, x)
  BY <1>4 DEF Responded
<1>8. Whole(d, k, h, L, x) /\ Same(d, f, {"trans"}) /\ Still(d, f, x) /\ Stays(d, f, {"trans"})
  BY <1>2, <1>4, <1>6, <1>7, GiveUpWhole
<1>9. k[x] = "answered"
  BY <1>2, WholeParts
<1> HIDE DEF d, k
<1>10. Way(d, x, "idle", "idle")
  BY <1>2, <1>4, <1>8, StillWay
<1>11. Fits(d, k, x, "idle", "idle")
  BY <1>9 DEF Fits, Stands
<1>12. Settled(d, h, L)
  BY <1>8, <1>10, <1>11, SettledAt
<1> QED BY <1>5, <1>12 DEF f, d

(* A thread sends a request, and acts on what the call returns.            *)
LEMMA SendWhole ==
  ASSUME NEW s, NEW p, NEW h, NEW L, NEW x \in Trans, Whole(s, p, h, L, x), NEW i \in Inits,
         s.init[i].left > 0, \A j \in Inits : s.init[j].req # x,
         p[x] = "new" \/ s.init[i].cur = x, s.init[i].req = Null, Unbegun(s, x),
         s.trans[x].status = "INCOMPLETE", s.trans[x].ref = 1,
         \A g \in Targets : <<"next", g>> \notin L
  PROVE  Settled(Send(s, i, x), h, L)
<1> DEFINE e == [s EXCEPT !.init[i] = [pc |-> "idle", cur |-> Null, req |-> x,
                                       left |-> s.init[i].left - 1]]
           r == CallFromInitiator(e, i, x, "BEGIN_REQ")
           k == [p EXCEPT ![x] = "new"]
           u == Post(r.s, i, x, r.phase)
           d == Release(CheckTransaction([r.s EXCEPT !.init[i].req = Null], x), x)
<1>0. Send(s, i, x) = CASE r.ret = "UPDATED" -> u [] r.ret = "COMPLETED" -> d [] OTHER -> r.s
  BY Zenon DEF Send
<1>1. /\ Whole(e, k, h, L, x) /\ Still(e, s, x)
      /\ Same(e, s, {"init"}) /\ e.trans = s.trans /\ e.init[i].req = x
      /\ \A j \in Inits : j # i => e.init[j] = s.init[j]
  BY SMTT(30), StartWhole
<1>2. k[x] = "new"
  BY WholeParts
<1> HIDE DEF e, k
<1>3. Unbegun(e, x)
  <2>1. e.check = s.check /\ e.path = s.path
    BY <1>1, SameFields
  <2> QED BY <2>1 DEF Unbegun, On
<1>4. Told(r, i, x, h, L) /\ r.s.init = e.init
  BY <1>1, <1>2, <1>3, CallBeginReqHop
<1> HIDE DEF r
<1>5. \A j \in Inits : r.s.init[j].req = x => j = i
  BY <1>1, <1>4
<1> DEFINE f == r.s
<1>6. CASE r.ret = "UPDATED" /\ r.phase = "END_REQ"
  <2>1. /\ Held(f, x, "internal", h, L, "END_REQ", "END_REQ", FALSE)
        /\ f.targ[f.trans[x].target].type = "B" /\ f.trans[x].init = i
        /\ NoEndOf(f, i, x)
    BY <1>4, <1>6 DEF Told
  <2>2. f.init[i].req = x
    BY <1>1, <1>4
  <2> DEFINE g == Post(f, i, x, "END_REQ")
  <2>5. PICK q \in [Trans -> Places] : InPlace(f, q, x, "internal", h, L, "END_REQ", "END_REQ", FALSE)
    BY <2>1 DEF Held
  <2>6. /\ Whole(f, q, h, L, x) /\ q[x] = "internal" /\ Way(f, x, "END_REQ", "END_REQ")
        /\ f.trans[x].status = "INCOMPLETE"
    BY <2>5 DEF InPlace, Answered1
  <2>3. u = g
    BY <1>6
  <2> HIDE DEF f, u
  <2>4. Settled(g, h, L)
    BY <2>1, <2>2, <2>6, TakeEndReq
  <2> HIDE DEF g
  <2> QED BY <1>0, <1>6, <2>3, <2>4
<1>7. CASE r.ret = "UPDATED" /\ r.phase = "BEGIN_RESP"
  <2>1. /\ Held(f, x, "served", h, L, "BEGIN_RESP", "BEGIN_RESP", TRUE)
        /\ f.trans[x].init = i /\ ~f.trans[x].dont_propagate_fw
    BY <1>4, <1>7 DEF Told
  <2> DEFINE g == Post(f, i, x, "BEGIN_RESP")
  <2>5. PICK q \in [Trans -> Places] : InPlace(f, q, x, "served", h, L, "BEGIN_RESP", "BEGIN_RESP", TRUE)
    BY <2>1 DEF Held
  <2>6. /\ Whole(f, q, h, L, x) /\ q[x] = "served" /\ Way(f, x, "BEGIN_RESP", "BEGIN_RESP")
        /\ f.trans[x].status # "INCOMPLETE"
    BY <2>5 DEF InPlace, Answered1
  <2>3. u = g
    BY <1>7
  <2> HIDE DEF f, u
  <2>4. Settled(g, h, L)
    BY <2>1, <2>6, TakeResponse
  <2> HIDE DEF g
  <2> QED BY <1>0, <1>7, <2>3, <2>4
<1>8. CASE r.ret = "COMPLETED"
  <2>1. /\ Held(f, x, "served", h, L, "idle", "idle", TRUE)
        /\ f.trans[x].init = i /\ f.trans[x].dont_propagate_fw
    BY <1>4, <1>8 DEF Told
  <2>2. f.init[i].req = x /\ \A j \in Inits : f.init[j].req = x => j = i
    BY <1>1, <1>4, <1>5
  <2> DEFINE g == Release(CheckTransaction([f EXCEPT !.init[i].req = Null], x), x)
  <2>5. PICK q \in [Trans -> Places] : InPlace(f, q, x, "served", h, L, "idle", "idle", TRUE)
    BY <2>1 DEF Held
  <2>6. /\ Whole(f, q, h, L, x) /\ q[x] = "served" /\ Way(f, x, "idle", "idle")
        /\ f.trans[x].status # "INCOMPLETE"
    BY <2>5 DEF InPlace, Answered1
  <2>3. d = g
    OBVIOUS
  <2> HIDE DEF f, d
  <2>4. Settled(g, h, L)
    BY <2>1, <2>2, <2>6, TakeCompleted
  <2> HIDE DEF g
  <2> QED BY <1>0, <1>8, <2>3, <2>4
<1>9. CASE r.ret = "ACCEPTED"
  <2>1. Settled(r.s, h, L)
    BY <1>4, <1>9 DEF Told
  <2> HIDE DEF u, d
  <2> QED BY <1>0, <1>9, <2>1
<1> QED BY <1>4, <1>6, <1>7, <1>8, <1>9 DEF Told

LEMMA ThreadHops ==
  ASSUME HopsInv, NEW i \in Inits, Thread(i)
  PROVE  HopsInv'
<1>1. PICK p \in [Trans -> Places] : Whole(State(Kernel), p, Null, {}, Null)
  BY DEF HopsInv
<1> DEFINE x == Fresh
           s == State(<<"thread", i>>)
           M == {}
           r(t, l) == Issue(s, x, t, l)
           b(t, l) == [r(t, l) EXCEPT !.init[i].pc = "blocked", !.init[i].cur = x]
           k == [p EXCEPT ![x] = "new"]
           o(t) == IF targ[t].type = "E" THEN BOOLEAN ELSE {FALSE}
<1>2. x \in Trans /\ trans[x].ref = 0
  <2>1. Free \subseteq Nat /\ Free # {}
    BY TLMAssumption DEF Free, Thread
  <2>2. \E y \in Free : \A z \in Free : y <= z
    BY <2>1, LeastOf
  <2>3. Fresh \in Free
    BY <2>2 DEF Fresh
  <2> QED BY <2>3 DEF Free
<1>3. init[i].left > 0 /\ \E t \in Targets : \E l \in BOOLEAN :
        Become(IF init[i].req # Null THEN b(t, l) ELSE Send(r(t, l), i, x))
  <2>1. init[i].left > 0 /\ \E t \in Targets : \E l \in o(t) :
          Become(IF init[i].req # Null THEN b(t, l) ELSE Send(r(t, l), i, x))
    BY Zenon DEF Thread, Issue
  <2>2. \A t \in Targets : o(t) \subseteq BOOLEAN
    OBVIOUS
  <2> HIDE DEF b, r, o, x
  <2> QED BY <2>1, <2>2
<1>4. PICK t \in Targets, l \in BOOLEAN :
        Become(IF init[i].req # Null THEN b(t, l) ELSE Send(r(t, l), i, x))
  BY <1>3
<1>5. s.trans[x].ref = 0 /\ s.init = init
  BY <1>2 DEF State
<1>6. Whole(s, p, Null, M, Null)
  BY <1>1, SelfWhole
<1>m. \A g \in Targets : <<"next", g>> \notin M
  OBVIOUS
<1> DEFINE a == r(t, l)
           c == b(t, l)
<1>7. Become(IF init[i].req # Null THEN c ELSE Send(a, i, x))
  BY <1>4
<1>8. c = [a EXCEPT !.init[i].pc = "blocked", !.init[i].cur = x]
  OBVIOUS
<1> HIDE DEF s, x, b, c, M
<1>9. /\ Whole(a, k, Null, M, x) /\ Unasked(a, s, x) /\ Same(a, s, {"trans"}) /\ Unbegun(a, x)
      /\ a.trans[x].status = "INCOMPLETE" /\ a.trans[x].ref = 1
  BY <1>2, <1>5, <1>6, IssueWhole
<1>10. k[x] = "new"
  BY <1>2, <1>6, WholeParts
<1> HIDE DEF r, a, k
<1>11. /\ a.init = init /\ a.init[i].left > 0
       /\ \A j \in Inits : a.init[j].req # x
  BY <1>3, <1>5, <1>9 DEF Unasked
<1>12. CASE init[i].req # Null
  <2> DEFINE d == [a EXCEPT !.init[i].pc = "blocked", !.init[i].cur = x]
  <2>1. Whole(d, [k EXCEPT ![x] = "cur"], Null, M, Null)
    BY <1>2, <1>9, <1>10, <1>11, BlockWhole
  <2> HIDE DEF d
  <2>2. Settled(d, Null, M)
    BY <2>1, IsSettled
  <2>3. d = c
    BY <1>8 DEF d
  <2> QED BY <1>7, <1>12, <2>2, <2>3, BecomeWhole DEF M
<1>13. CASE init[i].req = Null
  <2>1. Settled(Send(a, i, x), Null, M)
    BY <1>2, <1>m, <1>9, <1>10, <1>11, <1>13, SendWhole
  <2> QED BY <1>7, <1>13, <2>1, BecomeWhole DEF M
<1> QED BY <1>12, <1>13

LEMMA ResumeHops ==
  ASSUME HopsInv, NEW i \in Inits, Resume(i)
  PROVE  HopsInv'
<1>1. PICK p \in [Trans -> Places] : Whole(State(Kernel), p, Null, {}, Null)
  BY DEF HopsInv
<1> DEFINE s == State(<<"thread", i>>)
           x == init[i].cur
           M == {}
<1>2. Whole(s, p, Null, M, Null)
  BY <1>1, SelfWhole
<1>m. \A g \in Targets : <<"next", g>> \notin M
  OBVIOUS
<1>3. s.init = init /\ init[i].pc = "woken" /\ Become(Send(s, i, x))
  BY DEF State, Resume
<1> HIDE DEF s, M
<1>4. Initiating(s, p) /\ s.init[i] \in InitT /\ Asked(s)
  <2>1. Typed(s) /\ Sound(s, p, Null, M) /\ Asked(s)
    BY <1>2, WholeParts
  <2> QED BY <2>1, SoundParts DEF Typed
<1>5. x # Null /\ x \in Trans /\ s.init[i].left > 0 /\ p[x] = "cur" /\ s.init[i].req = Null
  BY <1>3, <1>4 DEF Initiating, InitT, Pointer, Asked
<1>6. \A j \in Inits : s.init[j].req # x
  BY <1>4, <1>5 DEF Initiating
<1>7. s.init[i].cur = x
  BY <1>3
<1> HIDE DEF x
<1>8. Whole(s, p, Null, M, x) /\ Trip(s, p, x) /\ Checked(s)
  BY <1>2, <1>5, TakeUp, WholeParts
<1>9. Unbegun(s, x) /\ s.trans[x].status = "INCOMPLETE" /\ s.trans[x].ref = 1
  <2>1. Unbegun(s, x)
    BY <1>5, <1>8, TripUnbegun
  <2> QED BY <1>5, <1>8, <2>1 DEF Trip
<1>10. Settled(Send(s, i, x), Null, M)
  BY <1>m, <1>5, <1>6, <1>7, <1>8, <1>9, SendWhole
<1> QED BY <1>3, <1>10, BecomeWhole DEF M

LEMMA InitiatorPeqHops ==
  ASSUME HopsInv, NEW i \in Inits, InitiatorPeq(i)
  PROVE  HopsInv'
<1>1. PICK p \in [Trans -> Places] : Whole(State(Kernel), p, Null, {}, Null)
  BY DEF HopsInv
<1>2. PICK e \in Entries(i) :
        LET x == e.trans
            c == Require(Taken(e), e.phase \in {"END_REQ", "BEGIN_RESP"}, "illegal phase")
            s == IF EndsRequest(c, i, x, e.phase) THEN EndRequest(c, i) ELSE c
        IN Become(IF e.phase = "BEGIN_RESP"
                  THEN Release(CallFromInitiator(CheckTransaction(s, x), i, x, "END_RESP").s, x)
                  ELSE s)
  BY Zenon DEF InitiatorPeq
<1> DEFINE s == State(<<"peq", i>>)
           M == {}
           x == e.trans
           r == Taken(e)
           legal == e.phase \in {"END_REQ", "BEGIN_RESP"}
           what == "illegal phase"
           c == Require(r, legal, what)
           n == IF EndsRequest(c, i, x, e.phase) THEN EndRequest(c, i) ELSE c
           m == Release(CallFromInitiator(CheckTransaction(n, x), i, x, "END_RESP").s, x)
           f == IF e.phase = "BEGIN_RESP" THEN m ELSE n
<1>3. Become(f)
  BY <1>2
<1>4. Whole(s, p, Null, M, Null)
  BY <1>1, SelfWhole
<1>5. /\ e.at = i /\ s.peq = peq
      /\ \/ e \in DOMAIN s.peq /\ e \notin later.entries /\ r = Without(s, e)
         \/ e \in DOMAIN s.overdue.entries /\ e.phase = "END_REQ" /\ r = Late(s, e)
  <2>1. s.overdue = overdue /\ s.peq = peq
    BY DEF State
  <2> HIDE DEF s, r, M
  <2>2. Typed(s)
    BY <1>4, WholeParts
  <2>3. /\ e.at = i
        /\ BagIn(e, overdue.entries) => e \in DOMAIN overdue.entries /\ e.phase = "END_REQ"
        /\ ~BagIn(e, overdue.entries) => e \in DOMAIN peq /\ e \notin later.entries
    <3>1. IsABag(peq) /\ OverdueTyped(overdue)
      BY <2>1, <2>2 DEF Typed
    <3> QED BY <3>1, EntryOf
  <2> QED BY <2>1, <2>3, TakenPeq, TakenOverdue DEF r, s
<1> HIDE DEF s, M, what, r, c, n, m
<1>6. legal /\ Posted(s, p)
  <2>1. Sound(s, p, Null, M) /\ Typed(s)
    BY <1>4, WholeParts
  <2>2. Posted(s, p) /\ (e \in DOMAIN s.peq => e \in Entry)
    BY <2>1, SoundParts DEF Typed
  <2> QED BY <1>5, <2>2, Apart DEF Posted, Entry, Phases
<1>7. c = r
  BY <1>6 DEF c, Require
<1> HIDE DEF legal
<1>8. CASE e.phase = "END_REQ"
  <2>1. Whole(r, p, Null, M, Null) /\ NoneAsked(r, i)
    <3>1. CASE e \in DOMAIN s.peq /\ r = Without(s, e)
      BY <1>4, <1>5, <1>8, <3>1, TakenEndReqWhole
    <3>2. CASE e \in DOMAIN s.overdue.entries /\ r = Late(s, e)
      BY <1>4, <1>5, <3>2, TakenLateWhole
    <3> QED BY <1>5, <3>1, <3>2
  <2> DEFINE k == EndRequest(r, i)
  <2>3. Whole(k, p, Null, M, Null)
    BY <2>1, EndRequestWhole
  <2>4. n = k
    BY <1>7, <1>8 DEF n, EndsRequest
  <2> HIDE DEF k
  <2>5. Settled(k, Null, M) /\ Become(k)
    BY <1>3, <1>8, <2>3, <2>4, IsSettled
  <2> QED BY <2>5, BecomeWhole DEF M
<1>9. CASE e.phase = "BEGIN_RESP"
  <2> DEFINE q == [p EXCEPT ![x] = PlaceAfter[e.phase]]
             k == IF x = r.init[i].req THEN EndRequest(r, i) ELSE r
             z == [q EXCEPT ![x] = "answered"]
             y == CallFromInitiator(k, i, x, "END_RESP").s
             d == Release(y, x)
  <2>1. /\ x \in Trans /\ p[x] = PlaceOf[e.phase] /\ Trip(s, p, x)
        /\ Whole(r, q, Null, M, x) /\ Still(r, s, x) /\ Same(r, s, {"peq", "overdue"})
    <3>1. e \in DOMAIN s.peq /\ s.peq = peq /\ r = Without(s, e) /\ e.phase # "END_REQ"
      BY <1>5, <1>9
    <3>2. LET g == Without(s, e)
          IN /\ x \in Trans /\ p[x] = PlaceOf[e.phase] /\ Trip(s, p, x)
             /\ Whole(g, q, Null, M, x) /\ Still(g, s, x) /\ Same(g, s, {"peq", "overdue"})
      BY <1>4, <3>1, TakenWhole
    <3> QED BY <3>1, <3>2
  <2>2. q[x] = "served" /\ p[x] = "begin_resp"
    BY <1>1, <1>9, <2>1 DEF PlaceAfter, PlaceOf, Phases
  <2>3. s.trans[x].init = i
    BY <1>5, <1>6, <1>9 DEF Posted
  <2>t. InTime(r, i, x)
    <3>1. InOrder(r)
      BY <2>1, WholeParts DEF Ends
    <3>2. e \in DOMAIN peq /\ e \notin later.entries
      BY <1>5, <1>9
    <3> QED BY <1>9, <3>1, <3>2 DEF InOrder, InTime
  <2> HIDE DEF q, x
  <2>4. PICK b : /\ Way(s, x, "BEGIN_RESP", b)
                 /\ IF s.trans[x].dont_propagate_fw THEN b = "idle" ELSE b = "BEGIN_RESP"
                 /\ s.trans[x].status # "INCOMPLETE"
    BY <1>4, <2>1, <2>2, Returning
  <2>5. /\ Way(r, x, "BEGIN_RESP", b) /\ r.trans = s.trans /\ r.trans[x].init = i
    BY <2>1, <2>3, <2>4, StillWay, SameFields
  <2>6. On(r, i, x) = "BEGIN_RESP"
    BY <2>5, WayOn
  <2>7. /\ Whole(k, q, Null, M, x) /\ Still(k, r, x) /\ Stays(k, r, {"init"})
        /\ k.trans = r.trans /\ \A j \in Inits : k.init[j].req # x
    BY <2>1, <2>2, <2>5, <2>6, <2>t, RequestOverWhole
  <2>8. n = k
    BY <1>7, <1>9 DEF n, EndsRequest, x
  <2> HIDE DEF k
  <2>9. /\ Way(k, x, "BEGIN_RESP", b) /\ k.trans = s.trans /\ InTime(k, i, x)
    <3>1. k.overdue = r.overdue
      BY <2>7, StaysRoute DEF Core
    <3> QED BY <2>5, <2>7, <2>t, <3>1, StillWay DEF InTime
  <2>10. CheckTransaction(k, x) = k
    BY <2>1, <2>2, <2>4, <2>7, <2>9, IsAnswered
  <2>11. Responded(k, x)
    BY <2>4, <2>9, WayOn DEF Responded
  <2>12. Whole(k, z, x, M, x)
    BY <2>1, <2>2, <2>7, <2>11, HandOverWhole
  <2>13. z[x] = "answered"
    BY <2>1, <2>7, WholeParts
  <2> HIDE DEF z
  <2>14. k.trans[x].ref # 0
    BY <2>1, <2>12, InUse, WholeParts
  <2>15. k.trans[x].init = i
    BY <2>3, <2>9
  <2>16. IF k.trans[x].dont_propagate_fw THEN b = "idle" ELSE b = "BEGIN_RESP"
    BY <2>4, <2>9
  <2>17. Settled(y, x, M)
    BY <2>1, <2>9, <2>12, <2>13, <2>14, <2>15, <2>16, FinishWhole
  <2>18. m = d
    BY <2>8, <2>10 DEF m, x
  <2> HIDE DEF y
  <2>19. Settled(d, Null, M)
    BY <2>1, <2>17, ReleaseSettled
  <2> HIDE DEF d
  <2>20. Become(d)
    BY <1>3, <1>9, <2>18
  <2> QED BY <2>19, <2>20, BecomeWhole DEF M
<1> QED BY <1>6, <1>8, <1>9 DEF legal

-----------------------------------------------------------------------------
(* The induction.                                                          *)
LEMMA InitHops ==
  ASSUME Init
  PROVE  HopsInv
<1> DEFINE s == State(Kernel)
           p == [x \in Trans |-> "none"]
<1>1. Sound(s, p, Null, {})
  BY InitPlaced
<1>2. p \in [Trans -> Places] /\ \A x \in Trans : p[x] = "none"
  BY DEF Places, InHand
<1>3. /\ s.check = [h \in Hops |-> [ph |-> [x \in Trans |-> Unused], req |-> Null, rsp |-> Null]]
      /\ s.path = [x \in Trans |-> [hops |-> << >>, responding |-> FALSE]]
      /\ s.faults = {} /\ s.runnable = {} /\ s.peq = EmptyBag
      /\ s.overdue = [entries |-> EmptyBag, inits |-> {}]
  BY DEF Init, State
<1>4. /\ \A i \in Inits : s.init[i].pc = "idle"
      /\ \A t \in Targets : s.targ[t].response_in_progress = FALSE
  BY DEF Init, State
<1> HIDE DEF s, p
<1>5. \A h \in Hops, y \in Trans : On(s, h, y) = "idle"
  BY <1>3 DEF On
<1>6. Checked(s)
  <2>1. Null \in Pointer /\ Unused \in HopPhases
    BY DEF Pointer, HopPhases
  <2>2. [x \in Trans |-> Unused] \in [Trans -> HopPhases]
    BY <2>1
  <2>3. s.check \in [Hops -> CheckT]
    BY <1>3, <2>1, <2>2 DEF CheckT
  <2>4. << >> \in Seq(Hops)
    OBVIOUS
  <2>5. s.path \in [Trans -> PathT]
    BY <1>3, <2>4 DEF PathT
  <2>6. \A h \in Hops : s.check[h].req = Null /\ s.check[h].rsp = Null
    BY <1>3
  <2>7. Excused(s)
    BY <1>3 DEF Excused
  <2> QED BY <1>3, <2>3, <2>5, <2>6, <2>7 DEF Checked
<1>7. Trips(s, p, Null)
  <2> SUFFICES ASSUME NEW y \in Trans PROVE Trip(s, p, y)
    BY DEF Trips
  <2>1. s.trans[y].init \in Hops /\ s.trans[y].target \in Hops
    BY <1>1, TransField, Apart
  <2>2. Way(s, y, "idle", "idle")
    <3>1. s.path[y].hops = << >> /\ ~s.path[y].responding
      BY <1>3
    <3> QED BY <1>5, <2>1, <3>1 DEF Way, Stack
  <2>3. p[y] = "none"
    BY <1>2
  <2> QED BY <1>5, <2>1, <2>2, <2>3 DEF Trip, Stands
<1>8. Asked(s) /\ Answered(s) /\ Requested(s)
  BY <1>3, <1>4, <1>5, Apart DEF Asked, Answered, Requested
<1>9. Responses(s, p)
  <2>1. \A t \in Targets, y \in Trans : ~Responding(s, p, t, y)
    BY <1>2, <1>5, Apart DEF Responding
  <2> QED BY <1>3, <1>4, <2>1 DEF Responses
<1>10. Ends(s)
  BY <1>3 DEF Ends, PostedEnds, OverdueEnds, InOrder, EmptyBag, SetToBag
<1>11. Whole(s, p, Null, {}, Null)
  BY <1>1, <1>6, <1>7, <1>8, <1>9, <1>10 DEF Whole, Hopped
<1> QED BY <1>2, <1>11 DEF HopsInv, s

LEMMA NextHops ==
  ASSUME HopsInv, [Next]_vars
  PROVE  HopsInv'
<1>1. CASE Next
  BY <1>1, ThreadHops, ResumeHops, InitiatorPeqHops, EndRspHops, TargetPeqHops, SendRspHops,
     EndReqHops DEF Next
<1>2. CASE UNCHANGED vars
  <2>1. State(Kernel)' = State(Kernel) /\ peq' = peq /\ later' = later
    BY <1>2 DEF vars, State, Kernel
  <2>2. PICK p \in [Trans -> Places] : Whole(State(Kernel), p, Null, {}, Null)
    BY DEF HopsInv
  <2>3. Whole(State(Kernel), p, Null, {}, Null)'
    BY <2>1, <2>2 DEF Whole, Hopped, Ends, InOrder
  <2> QED BY <2>3 DEF HopsInv
<1> QED BY <1>1, <1>2

(* The inductive invariant: the phases of a transaction on its two hops go *)
(* with the place it is at, and with what the initiator, the target and    *)
(* the interconnect have noted down (at_interconnect.h:146-420).           *)
THEOREM HopsSound == Spec => []HopsInv
<1>1. Init => HopsInv
  BY InitHops
<1>2. HopsInv /\ [Next]_vars => HopsInv'
  BY NextHops
<1> QED BY <1>1, <1>2, PTL DEF Spec

(* No assertion of a component fails, no component meets a phase it calls  *)
(* illegal, every transaction is answered once before its initiator ends   *)
(* it, and the checkers report nothing, however the components are wired   *)
(* and whichever process runs next, as long as no END_REQ has come too     *)
(* late to an initiator of type B; from then on a second request in        *)
(* progress may be reported, and nothing else (at_interconnect.h:146-286,  *)
(* at_typea_target.h:90-142, at_typeb_initiator.h:150-154,                 *)
(* tlm2_base_protocol_checker.h:358-613).                                  *)
THEOREM NoFaults == Spec => []Silent
<1>1. HopsInv => Silent
  <2> SUFFICES ASSUME HopsInv PROVE Silent
    OBVIOUS
  <2>1. PICK p \in [Trans -> Places] : Whole(State(Kernel), p, Null, {}, Null)
    BY DEF HopsInv
  <2>2. Checked(State(Kernel))
    BY <2>1, WholeParts
  <2>3. State(Kernel).faults = faults /\ State(Kernel).overdue = overdue
    BY DEF State
  <2> QED BY <2>2, <2>3 DEF Checked, Excused, Silent
<1> QED BY <1>1, HopsSound, PTL

(* On each hop one request at most is not accepted yet, but for those of   *)
(* the initiators of type B an END_REQ has come too late for, and on every *)
(* hop one response is not taken yet: the exclusion rules of the base      *)
(* protocol, which each component keeps by what it has noted down          *)
(* (req_in_progress and rsp_in_progress of at_interconnect.h:146-420).     *)
THEOREM HopsExclusive == Spec => []Exclusion
<1>1. HopsInv => Exclusion
  <2> SUFFICES ASSUME HopsInv, NEW h \in Hops, NEW x \in Trans, NEW y \in Trans,
                      check[h].ph[x] = check[h].ph[y],
                      \/ check[h].ph[x] = "BEGIN_REQ" /\ h \notin overdue.inits
                      \/ check[h].ph[x] = "BEGIN_RESP"
               PROVE  x = y
    BY DEF Exclusion
  <2>1. PICK p \in [Trans -> Places] : Whole(State(Kernel), p, Null, {}, Null)
    BY DEF HopsInv
  <2> DEFINE s == State(Kernel)
  <2>2. s.check = check /\ s.overdue = overdue
    BY DEF State
  <2>3. Checked(s) /\ Asked(s) /\ Answered(s) /\ Requested(s) /\ Responses(s, p)
    BY <2>1, WholeParts
  <2> HIDE DEF s
  <2>4. CASE check[h].ph[x] = "BEGIN_REQ" /\ h \notin overdue.inits
    <3>1. On(s, h, x) = "BEGIN_REQ" /\ On(s, h, y) = "BEGIN_REQ"
      BY <2>2, <2>3, <2>4, OnType
    <3>2. CASE h \in Inits
      <4>1. h \notin s.overdue.inits
        BY <2>2, <2>4
      <4>2. s.init[h].req = x /\ s.init[h].req = y
        BY <2>3, <3>1, <3>2, <4>1 DEF Asked
      <4> QED BY <4>2
    <3>3. CASE h \in Targets
      <4>1. s.req[h] = x /\ s.req[h] = y
        BY <2>3, <3>1, <3>3 DEF Requested
      <4> QED BY <4>1
    <3> QED BY <3>2, <3>3, Apart
  <2>5. CASE check[h].ph[x] = "BEGIN_RESP"
    <3>1. On(s, h, x) = "BEGIN_RESP" /\ On(s, h, y) = "BEGIN_RESP"
      <4>1. s.check[h].ph[x] = "BEGIN_RESP" /\ s.check[h].ph[y] = "BEGIN_RESP"
        BY <2>2, <2>5
      <4>2. \A z \in Trans : On(s, h, z) = "BEGIN_RESP" <=> s.check[h].ph[z] = "BEGIN_RESP"
        BY <2>3, OnType
      <4> QED BY <4>1, <4>2
    <3>2. CASE h \in Inits
      <4>1. s.rsp[h] = x
        BY <2>3, <3>1, <3>2 DEF Answered
      <4>2. s.rsp[h] = y
        BY <2>3, <3>1, <3>2 DEF Answered
      <4> QED BY <4>1, <4>2
    <3>3. CASE h \in Targets
      <4>1. Responding(s, p, h, x) /\ Responding(s, p, h, y)
        BY <3>1 DEF Responding
      <4> QED BY <2>3, <3>3, <4>1 DEF Responses
    <3> QED BY <3>2, <3>3, Apart
  <2> QED BY <2>4, <2>5
<1> QED BY <1>1, HopsSound, PTL
=============================================================================
